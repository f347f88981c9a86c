--------------------------- MODULE Effects_proofs ---------------------------
(***************************************************************************)
(* Proofs about Effects, for any fighters, catalog and bounds: whatever    *)
(* calls are under way, the target of an effect and its caster agree on    *)
(* whether it is there, nothing but a resurrection brings back the dead,   *)
(* and between calls the dead have launched nothing but aftereffects.      *)
(***************************************************************************)
EXTENDS Effects, SequenceTheorems, WellFoundedInduction, TLAPS

Some(S) == (SUBSET S) \ {{}}

(* The calls there may be when the arena holds the effects of some ids.     *)
LineCalls ==
  [op : {"create", "apply"}, line : EffectParams, item : Origins, by : Fighters, to : Fighters]
StoreCalls ==
  [op : {"store"}, line : EffectParams, item : Origins, by : Fighters, to : Fighters, value : Nat]
CrowdCalls == [op : {"die", "passives"}, who : Some(Fighters)]
StealCalls == [op : {"steal"}, f : Fighters, n : Nat]
ReturnCalls == [op : {"return"}, f : Fighters, by : Fighters]
TargetsCalls ==
  [op : {"targets"}, line : EffectParams, item : Origins, by : Fighters, who : Some(Fighters)]
LinesCalls ==
  [op : {"lines"}, by : Fighters, item : Origins, rest : Seq(EffectParams) \ {<<>>},
   area : SUBSET Fighters]
TickCalls(ids) == [op : {"tick"}, f : Fighters, ids : SUBSET ids]
SpreadCalls(ids) == [op : {"spread"}, f : Fighters, ids : Some(ids)]
InfectCalls(ids) == [op : {"infect"}, ei : ids, who : Some(Fighters)]

Calls(ids) ==
  LineCalls \cup StoreCalls \cup CrowdCalls \cup StealCalls \cup ReturnCalls \cup TargetsCalls
    \cup LinesCalls \cup TickCalls(ids) \cup SpreadCalls(ids) \cup InfectCalls(ids)

Effect ==
  [line : EffectParams, item : Origins, turns : Int, value : Nat,
   caster : Fighters, target : Fighters]

(* An arena and two lists over it that agree.                               *)
Arena(fx) == DOMAIN fx \subseteq Ids /\ \A e \in DOMAIN fx : fx[e] \in Effect

Agree(fx, on, by) ==
  /\ on \in [Fighters -> SUBSET DOMAIN fx] /\ by \in [Fighters -> SUBSET DOMAIN fx]
  /\ \A e \in DOMAIN fx, f, g \in Fighters :
       /\ e \in on[f] => f = fx[e].target /\ e \in by[fx[e].caster]
       /\ e \in by[g] => g = fx[e].caster /\ e \in on[fx[e].target]

Fighting == life \in [Fighters -> 0 .. MaxLife] /\ entered \subseteq Fighters /\ actor \in Fighters \cup {0}

Calling == todo \in Seq(Calls(DOMAIN effects))

IInv == Arena(effects) /\ Agree(effects, suffered, launched) /\ Fighting /\ Calling
-----------------------------------------------------------------------------
(* A set of ids or of fighters has a first one.                             *)
LEMMA HasFirst ==
  ASSUME NEW S \in SUBSET Nat, S # {}
  PROVE  First(S) \in S
<1>1. PICK i \in S : \A j \in S : ~ (<<j, i>> \in OpToRel(<, Nat))
  BY NatLessThanWellFounded, WFMin, Zenon
<1>2. \A j \in S : ~ (j < i)
  BY <1>1 DEF OpToRel
<1>3. \A j \in S : i <= j
  BY <1>2
<1> QED BY <1>3, Zenon DEF First

LEMMA FirstId ==
  ASSUME NEW fx, Arena(fx), NEW S \in SUBSET DOMAIN fx, S # {}
  PROVE  First(S) \in S
BY HasFirst DEF Arena, Ids

LEMMA FirstFighter ==
  ASSUME NEW S \in SUBSET Fighters, S # {}
  PROVE  First(S) \in S
<1>1. S \in SUBSET Nat
  BY FightersAssumption
<1> QED BY <1>1, HasFirst
-----------------------------------------------------------------------------
(* Sequences of calls.                                                      *)
LEMMA Sequences ==
  ASSUME NEW S
  PROVE  /\ <<>> \in Seq(S)
         /\ \A r \in S : <<r>> \in Seq(S)
         /\ \A a, b \in Seq(S) : a \o b \in Seq(S)
BY ConcatProperties, EmptySeq

LEMMA MoreIds ==
  ASSUME NEW D, NEW E, D \subseteq E
  PROVE  Calls(D) \subseteq Calls(E)
<1>1. TickCalls(D) \subseteq TickCalls(E)
  BY DEF TickCalls
<1>2. SpreadCalls(D) \subseteq SpreadCalls(E)
  BY DEF SpreadCalls, Some
<1>3. InfectCalls(D) \subseteq InfectCalls(E)
  BY DEF InfectCalls
<1> QED BY <1>1, <1>2, <1>3, Zenon DEF Calls

(* The call on top gives way to the calls it makes.                         *)
LEMMA ThenCalls ==
  ASSUME Calling, todo # <<>>, DOMAIN effects \subseteq DOMAIN effects',
         NEW calls \in Seq(Calls(DOMAIN effects')), Then(calls)
  PROVE  Calling'
<1> DEFINE S == Calls(DOMAIN effects')
<1>1. Tail(todo) \in Seq(Calls(DOMAIN effects))
  BY HeadTailProperties DEF Calling
<1>2. Calls(DOMAIN effects) \subseteq S
  BY MoreIds
<1>3. Tail(todo) \in Seq(S)
  BY <1>1, <1>2, SeqMonotonic
<1> HIDE DEF S
<1>4. calls \o Tail(todo) \in Seq(S)
  BY <1>3, ConcatProperties DEF S
<1> QED BY <1>4 DEF Then, Calling, S

LEMMA WhileCalls ==
  ASSUME NEW C, NEW left, NEW call, left # {} => call \in C
  PROVE  While(left, call) \in Seq(C)
BY Sequences DEF While

LEMMA PassivesCalls ==
  ASSUME NEW D, NEW who
  PROVE  fire_passives(who) \in Seq(Calls(D))
<1> DEFINE call == [op |-> "passives", who |-> who \cap Armed]
<1>0. who \cap Armed # {} => who \cap Armed \in Some(Fighters)
  BY FightersAssumption DEF Some
<1>1. who \cap Armed # {} => call \in CrowdCalls
  BY <1>0 DEF CrowdCalls
<1>2. who \cap Armed # {} => call \in Calls(D)
  BY <1>1, Zenon DEF Calls
<1> QED BY <1>2, WhileCalls, Zenon DEF fire_passives

LEMMA DieCalls ==
  ASSUME NEW D, NEW who \in SUBSET Fighters
  PROVE  die(who) \in Seq(Calls(D))
<1> DEFINE call == [op |-> "die", who |-> who]
<1>0. who # {} => who \in Some(Fighters)
  BY DEF Some
<1>1. who # {} => call \in CrowdCalls
  BY <1>0 DEF CrowdCalls
<1>2. who # {} => call \in Calls(D)
  BY <1>1, Zenon DEF Calls
<1> QED BY <1>2, WhileCalls, Zenon DEF die

LEMMA CreateCall ==
  ASSUME NEW D, NEW line \in EffectParams, NEW item \in Origins, NEW by \in Fighters,
         NEW to \in Fighters
  PROVE  <<create_effect(line, item, by, to)>> \in Seq(Calls(D))
<1>1. create_effect(line, item, by, to) \in LineCalls
  BY DEF create_effect, LineCalls
<1>2. create_effect(line, item, by, to) \in Calls(D)
  BY <1>1, Zenon DEF Calls
<1> QED BY <1>2, Sequences, Zenon
-----------------------------------------------------------------------------
(* What the call on top is made of.                                         *)
LEMMA CallIs ==
  ASSUME Calling, NEW op, Running(op)
  PROVE  /\ op \in {"create", "apply"} => Call \in LineCalls
         /\ op = "store" => Call \in StoreCalls
         /\ op \in {"die", "passives"} => Call \in CrowdCalls
         /\ op = "steal" => Call \in StealCalls
         /\ op = "return" => Call \in ReturnCalls
         /\ op = "targets" => Call \in TargetsCalls
         /\ op = "lines" => Call \in LinesCalls
         /\ op = "tick" => Call \in TickCalls(DOMAIN effects)
         /\ op = "spread" => Call \in SpreadCalls(DOMAIN effects)
         /\ op = "infect" => Call \in InfectCalls(DOMAIN effects)
<1>1. Call \in Calls(DOMAIN effects) /\ Call.op = op
  BY HeadTailProperties DEF Calling, Running, Call
<1>2. \/ Call \in LineCalls \/ Call \in StoreCalls \/ Call \in CrowdCalls
      \/ Call \in StealCalls \/ Call \in ReturnCalls \/ Call \in TargetsCalls
      \/ Call \in LinesCalls \/ Call \in TickCalls(DOMAIN effects)
      \/ Call \in SpreadCalls(DOMAIN effects) \/ Call \in InfectCalls(DOMAIN effects)
  BY <1>1, Zenon DEF Calls
<1>3. /\ Call \in LineCalls => Call.op \in {"create", "apply"}
      /\ Call \in StoreCalls => Call.op = "store"
      /\ Call \in CrowdCalls => Call.op \in {"die", "passives"}
      /\ Call \in StealCalls => Call.op = "steal"
      /\ Call \in ReturnCalls => Call.op = "return"
      /\ Call \in TargetsCalls => Call.op = "targets"
      /\ Call \in LinesCalls => Call.op = "lines"
  BY DEF LineCalls, StoreCalls, CrowdCalls, StealCalls, ReturnCalls, TargetsCalls, LinesCalls
<1>4. /\ Call \in TickCalls(DOMAIN effects) => Call.op = "tick"
      /\ Call \in SpreadCalls(DOMAIN effects) => Call.op = "spread"
      /\ Call \in InfectCalls(DOMAIN effects) => Call.op = "infect"
  BY DEF TickCalls, SpreadCalls, InfectCalls
<1> QED BY <1>1, <1>2, <1>3, <1>4
-----------------------------------------------------------------------------
(* The lists agree about where effects are, whatever else is in the arena.  *)
LEMMA SameEnds ==
  ASSUME NEW fx, NEW gx, NEW on, NEW by, Agree(fx, on, by), DOMAIN gx = DOMAIN fx,
         \A e \in DOMAIN fx : gx[e].target = fx[e].target /\ gx[e].caster = fx[e].caster
  PROVE  Agree(gx, on, by)
BY DEF Agree

(* Some effects on a fighter go.                                            *)
LEMMA Removed ==
  ASSUME Arena(effects), Agree(effects, suffered, launched),
         NEW f \in Fighters, NEW gone \in SUBSET suffered[f], NEW fx,
         remove_effects(f, gone, fx)
  PROVE  Agree(effects, suffered', launched')
<1>1. /\ suffered' = [suffered EXCEPT ![f] = @ \ gone]
      /\ launched' = [g \in Fighters |-> launched[g] \ { e \in gone : effects[e].caster = g }]
  BY Zenon DEF remove_effects
<1>2. /\ suffered' \in [Fighters -> SUBSET DOMAIN effects]
      /\ launched' \in [Fighters -> SUBSET DOMAIN effects]
  BY <1>1 DEF Agree
<1>3. ASSUME NEW e \in DOMAIN effects, NEW h \in Fighters, e \in suffered'[h]
      PROVE  h = effects[e].target /\ e \in launched'[effects[e].caster]
  <2>1. e \in suffered[h] /\ e \notin gone
    BY <1>1, <1>3 DEF Agree
  <2>2. h = effects[e].target /\ e \in launched[effects[e].caster]
    BY <2>1 DEF Agree
  <2>3. effects[e].caster \in Fighters
    BY DEF Arena, Effect
  <2> QED BY <1>1, <2>1, <2>2, <2>3
<1>4. ASSUME NEW e \in DOMAIN effects, NEW h \in Fighters, e \in launched'[h]
      PROVE  h = effects[e].caster /\ e \in suffered'[effects[e].target]
  <2>1. e \in launched[h] /\ ~ (e \in gone /\ effects[e].caster = h)
    BY <1>1, <1>4
  <2>2. h = effects[e].caster /\ e \in suffered[effects[e].target]
    BY <2>1 DEF Agree
  <2>3. effects[e].target \in Fighters
    BY DEF Arena, Effect
  <2> QED BY <1>1, <2>1, <2>2, <2>3 DEF Agree
<1> QED BY <1>2, <1>3, <1>4 DEF Agree

(* A death drops the effects of one fighter, in both directions.            *)
LEMMA Dropped ==
  ASSUME Arena(effects), Agree(effects, suffered, launched),
         NEW f \in Fighters
  PROVE  Agree(effects, FromTargets(f), FromCasters(f))
<1> DEFINE on == FromTargets(f)
           by == FromCasters(f)
<1>1. /\ \A g \in Fighters :
           on[g] = IF g = f THEN {}
                   ELSE suffered[g] \ { e \in launched[f] : effects[e].target = g }
      /\ \A g \in Fighters :
           by[g] = IF g = f THEN {}
                   ELSE launched[g] \ { e \in suffered[f] : effects[e].caster = g }
  BY DEF FromTargets, FromCasters
<1>2. /\ on \in [Fighters -> SUBSET DOMAIN effects]
      /\ by \in [Fighters -> SUBSET DOMAIN effects]
  BY DEF Agree, FromTargets, FromCasters
<1> HIDE DEF on, by
<1>3. \A e \in DOMAIN effects : effects[e].caster \in Fighters /\ effects[e].target \in Fighters
  BY DEF Arena, Effect
<1>4. ASSUME NEW e \in DOMAIN effects, NEW h \in Fighters, e \in on[h]
      PROVE  h = effects[e].target /\ e \in by[effects[e].caster]
  <2>1. e \in suffered[h] /\ h # f /\ ~ (e \in launched[f] /\ effects[e].target = h)
    BY <1>1, <1>4
  <2>2. h = effects[e].target /\ e \in launched[effects[e].caster]
    BY <2>1 DEF Agree
  <2>3. effects[e].caster # f
    BY <2>1, <2>2
  <2>4. e \notin suffered[f]
    BY <2>1, <2>2 DEF Agree
  <2> QED BY <1>1, <1>3, <2>2, <2>3, <2>4
<1>5. ASSUME NEW e \in DOMAIN effects, NEW h \in Fighters, e \in by[h]
      PROVE  h = effects[e].caster /\ e \in on[effects[e].target]
  <2>1. e \in launched[h] /\ h # f /\ ~ (e \in suffered[f] /\ effects[e].caster = h)
    BY <1>1, <1>5
  <2>2. h = effects[e].caster /\ e \in suffered[effects[e].target]
    BY <2>1 DEF Agree
  <2>3. effects[e].target # f
    BY <2>1, <2>2
  <2>4. e \notin launched[f]
    BY <2>1, <2>2 DEF Agree
  <2> QED BY <1>1, <1>3, <2>2, <2>3, <2>4
<1>6. Agree(effects, on, by)
  BY <1>2, <1>4, <1>5 DEF Agree
<1> QED BY <1>6 DEF on, by

(* A new effect is listed twice, by its target and by its caster.           *)
LEMMA Stored ==
  ASSUME Arena(effects), Agree(effects, suffered, launched),
         NEW e \in Ids, e \notin DOMAIN effects, NEW r \in Effect,
         NEW fx, DOMAIN fx = DOMAIN effects \cup {e}, fx[e] = r,
         \A i \in DOMAIN effects : fx[i] = effects[i]
  PROVE  /\ Arena(fx)
         /\ Agree(fx, [suffered EXCEPT ![r.target] = @ \cup {e}],
                      [launched EXCEPT ![r.caster] = @ \cup {e}])
<1> DEFINE on == [suffered EXCEPT ![r.target] = @ \cup {e}]
           by == [launched EXCEPT ![r.caster] = @ \cup {e}]
<1>1. r.target \in Fighters /\ r.caster \in Fighters
  BY DEF Effect
<1>2. /\ on \in [Fighters -> SUBSET DOMAIN fx] /\ by \in [Fighters -> SUBSET DOMAIN fx]
      /\ \A f \in Fighters : on[f] = IF f = r.target THEN suffered[f] \cup {e} ELSE suffered[f]
      /\ \A f \in Fighters : by[f] = IF f = r.caster THEN launched[f] \cup {e} ELSE launched[f]
  BY <1>1 DEF Agree
<1> HIDE DEF on, by
<1>3. Arena(fx)
  BY DEF Arena
<1>4. \A f \in Fighters : e \notin suffered[f] /\ e \notin launched[f]
  BY DEF Agree
<1>5. ASSUME NEW i \in DOMAIN fx, NEW f \in Fighters
      PROVE  /\ i \in on[f] => f = fx[i].target /\ i \in by[fx[i].caster]
             /\ i \in by[f] => f = fx[i].caster /\ i \in on[fx[i].target]
  <2>1. CASE i = e
    BY <1>1, <1>2, <1>4, <2>1
  <2>2. CASE i # e
    <3>1. i \in DOMAIN effects /\ fx[i] = effects[i]
      BY <2>2
    <3>2. effects[i].target \in Fighters /\ effects[i].caster \in Fighters
      BY <3>1 DEF Arena, Effect
    <3> QED BY <1>2, <2>2, <3>1, <3>2 DEF Agree
  <2> QED BY <2>1, <2>2
<1>6. Agree(fx, on, by)
  BY <1>2, <1>5 DEF Agree
<1> QED BY <1>3, <1>6 DEF on, by

(* Effects a fighter has launched run out, wherever they are.               *)
LEMMA Expired ==
  ASSUME Arena(effects), Agree(effects, suffered, launched),
         NEW f \in Fighters, NEW gone \in SUBSET launched[f]
  PROVE  Agree(effects,
               [g \in Fighters |-> suffered[g] \ { e \in gone : effects[e].target = g }],
               [launched EXCEPT ![f] = @ \ gone])
<1> DEFINE on == [g \in Fighters |-> suffered[g] \ { e \in gone : effects[e].target = g }]
           by == [launched EXCEPT ![f] = @ \ gone]
<1>1. /\ on \in [Fighters -> SUBSET DOMAIN effects] /\ by \in [Fighters -> SUBSET DOMAIN effects]
      /\ \A g \in Fighters : on[g] = suffered[g] \ { e \in gone : effects[e].target = g }
      /\ \A g \in Fighters : by[g] = IF g = f THEN launched[g] \ gone ELSE launched[g]
  BY DEF Agree
<1> HIDE DEF on, by
<1>2. \A e \in gone : effects[e].caster = f
  BY DEF Agree
<1>3. \A e \in DOMAIN effects : effects[e].caster \in Fighters /\ effects[e].target \in Fighters
  BY DEF Arena, Effect
<1>4. ASSUME NEW e \in DOMAIN effects, NEW h \in Fighters
      PROVE  /\ e \in on[h] => h = effects[e].target /\ e \in by[effects[e].caster]
             /\ e \in by[h] => h = effects[e].caster /\ e \in on[effects[e].target]
  BY <1>1, <1>2, <1>3 DEF Agree
<1>5. Agree(effects, on, by)
  BY <1>1, <1>4 DEF Agree
<1> QED BY <1>5 DEF on, by

(* Entries no list mentions may be forgotten.                               *)
LEMMA Forgotten ==
  ASSUME Arena(effects), Agree(effects, suffered, launched)
  PROVE  LET fx == [e \in UNION { suffered[g] \cup launched[g] : g \in Fighters } |-> effects[e]]
         IN Arena(fx) /\ Agree(fx, suffered, launched)
<1> DEFINE listed == UNION { suffered[g] \cup launched[g] : g \in Fighters }
           fx == [e \in listed |-> effects[e]]
<1>1. /\ listed \subseteq DOMAIN effects
      /\ \A g \in Fighters : suffered[g] \subseteq listed /\ launched[g] \subseteq listed
  BY DEF Agree
<1>2. DOMAIN fx = listed /\ \A e \in listed : fx[e] = effects[e]
  OBVIOUS
<1> HIDE DEF listed, fx
<1>3. Arena(fx)
  BY <1>1, <1>2 DEF Arena
<1>4. suffered \in [Fighters -> SUBSET DOMAIN fx] /\ launched \in [Fighters -> SUBSET DOMAIN fx]
  BY <1>1, <1>2 DEF Agree
<1>5. Agree(fx, suffered, launched)
  BY <1>1, <1>2, <1>4 DEF Agree
<1> QED BY <1>3, <1>5 DEF fx, listed

(* A step that leaves the arena and the lists alone.                        *)
Frame == UNCHANGED <<effects, lists>>

LEMMA Framed ==
  ASSUME Arena(effects), Agree(effects, suffered, launched), Frame
  PROVE  /\ Arena(effects)' /\ Agree(effects, suffered, launched)'
         /\ DOMAIN effects \subseteq DOMAIN effects'
BY DEF Frame, lists, Arena, Agree
-----------------------------------------------------------------------------
(* What a call changes of the lives and of the calls.                       *)
LEMMA RemoveLife ==
  ASSUME Fighting, Calling, todo # <<>>, DOMAIN effects \subseteq DOMAIN effects',
         NEW f \in Fighters, NEW amount \in Nat, NEW attacker,
         NEW after \in Seq(Calls(DOMAIN effects')), remove_life(f, amount, attacker, after)
  PROVE  life' \in [Fighters -> 0 .. MaxLife] /\ Calling'
<1>1. life' \in [Fighters -> 0 .. MaxLife]
  BY BoundsAssumption DEF Fighting, remove_life, Least
<1> DEFINE falls == IF alive(f) /\ amount >= life[f]
                    THEN on_player_die(f, attacker) \o die({f}) ELSE <<>>
           C == Calls(DOMAIN effects')
<1>2. on_player_die(f, attacker) \in Seq(C)
  BY PassivesCalls, Sequences, Zenon DEF on_player_die
<1>3. die({f}) \in Seq(C)
  BY DieCalls
<1>4. falls \in Seq(C)
  BY <1>2, <1>3, Sequences, Zenon
<1>5. Then(falls \o after)
  BY Zenon DEF remove_life
<1> HIDE DEF falls, C
<1>6. falls \o after \in Seq(C)
  BY <1>4, Sequences, Zenon DEF C
<1> QED BY <1>1, <1>5, <1>6, ThenCalls, Zenon DEF C

LEMMA StoreCall ==
  ASSUME Calling, Call \in LineCalls, NEW D, NEW n \in Nat
  PROVE  <<Store(n)>> \in Seq(Calls(D))
<1>1. Store(n) \in StoreCalls
  BY DEF Store, StoreCalls, LineCalls
<1>2. Store(n) \in Calls(D)
  BY <1>1, Zenon DEF Calls
<1> QED BY <1>2, Sequences, Zenon

LEMMA AmountsAreNumbers == Amounts \subseteq Nat
BY BoundsAssumption DEF Amounts

(* The steps that touch neither the arena nor the lists.                    *)
LEMMA Applied ==
  ASSUME IInv, NEW kinds, Applying(kinds)
  PROVE  Call \in LineCalls /\ Call.by \in Fighters /\ Call.to \in Fighters /\ todo # <<>>
BY CallIs, Zenon DEF IInv, Applying, Running, LineCalls

LEMMA LineFields ==
  ASSUME Call \in LineCalls
  PROVE  /\ Call.line \in EffectParams /\ Call.item \in Origins
         /\ Call.by \in Fighters /\ Call.to \in Fighters
BY DEF LineCalls

LEMMA DamageStep ==
  ASSUME IInv, apply_damage
  PROVE  IInv'
<1>1. Call \in LineCalls /\ Call.by \in Fighters /\ Call.to \in Fighters /\ todo # <<>>
  BY Applied, LineFields, Zenon DEF apply_damage
<1>2. Frame /\ entered' = entered /\ actor' = actor
  BY DEF apply_damage, Frame
<1>3. Arena(effects)' /\ Agree(effects, suffered, launched)' /\ DOMAIN effects \subseteq DOMAIN effects'
  BY <1>2, Framed, Zenon DEF IInv
<1> DEFINE C == Calls(DOMAIN effects')
           after(n) == fire_passives({Call.to}) \o
             IF Call.to = Call.by THEN <<>>
             ELSE <<[op |-> "steal", f |-> Call.by, n |-> n],
                    [op |-> "return", f |-> Call.by, by |-> Call.to]>>
<1>4. PICK n \in 0 .. Least(MaxAmount, life[Call.to]) : remove_life(Call.to, n, Call.by, after(n))
  BY Zenon DEF apply_damage
<1>5. n \in Nat
  BY <1>1 DEF Least, IInv, Fighting
<1>6. /\ [op |-> "steal", f |-> Call.by, n |-> n] \in C
      /\ [op |-> "return", f |-> Call.by, by |-> Call.to] \in C
  <2>1. /\ [op |-> "steal", f |-> Call.by, n |-> n] \in StealCalls
        /\ [op |-> "return", f |-> Call.by, by |-> Call.to] \in ReturnCalls
    BY <1>1, <1>5 DEF StealCalls, ReturnCalls
  <2> QED BY <2>1, Zenon DEF Calls
<1>7. \A a, b \in C : <<a, b>> \in Seq(C)
  OBVIOUS
<1>8. fire_passives({Call.to}) \in Seq(C)
  BY PassivesCalls
<1>9. after(n) \in Seq(C)
  BY <1>6, <1>7, <1>8, Sequences, Zenon
<1> HIDE DEF after, C
<1>10. life' \in [Fighters -> 0 .. MaxLife] /\ Calling'
  BY <1>1, <1>3, <1>4, <1>5, <1>9, RemoveLife, Zenon DEF IInv, C
<1> QED BY <1>2, <1>3, <1>10, Zenon DEF IInv, Fighting

(* A step that only hands over to other calls.                              *)
LEMMA HandOver ==
  ASSUME IInv, todo # <<>>, Frame, UNCHANGED <<entered, actor>>, life' \in [Fighters -> 0 .. MaxLife],
         NEW calls \in Seq(Calls(DOMAIN effects)), Then(calls)
  PROVE  IInv'
<1>1. Arena(effects)' /\ Agree(effects, suffered, launched)' /\ DOMAIN effects \subseteq DOMAIN effects'
  BY Framed, Zenon DEF IInv
<1>2. calls \in Seq(Calls(DOMAIN effects'))
  BY DEF Frame
<1>3. Calling'
  BY <1>1, <1>2, ThenCalls, Zenon DEF IInv
<1> QED BY <1>1, <1>3, Zenon DEF IInv, Fighting

LEMMA AddLife ==
  ASSUME Fighting, NEW f \in Fighters, NEW n \in Nat, add_life(f, n)
  PROVE  life' \in [Fighters -> 0 .. MaxLife]
BY BoundsAssumption DEF Fighting, add_life, Least

LEMMA StealStep ==
  ASSUME IInv, life_steal
  PROVE  IInv'
<1>1. Call \in StealCalls /\ todo # <<>>
  BY CallIs, Zenon DEF IInv, life_steal, Running
<1>2. Call.f \in Fighters /\ Call.n \in Nat
  BY <1>1 DEF StealCalls
<1>3. PICK n \in 0 .. (IF alive(Call.f) THEN Call.n ELSE 0) : add_life(Call.f, n)
  BY Zenon DEF life_steal
<1>4. life' \in [Fighters -> 0 .. MaxLife]
  BY <1>2, <1>3, AddLife DEF IInv
<1>5. Frame /\ UNCHANGED <<entered, actor>> /\ Then(<<>>)
  BY DEF life_steal, Frame
<1> QED BY <1>1, <1>4, <1>5, HandOver, Sequences, Zenon

LEMMA ReturnStep ==
  ASSUME IInv, return_damage
  PROVE  IInv'
<1>1. Call \in ReturnCalls /\ todo # <<>>
  BY CallIs, Zenon DEF IInv, return_damage, Running
<1>2. Call.f \in Fighters /\ Call.by \in Fighters
  BY <1>1 DEF ReturnCalls
<1>3. Frame /\ entered' = entered /\ actor' = actor
  BY DEF return_damage, Frame
<1>4. Arena(effects)' /\ Agree(effects, suffered, launched)' /\ DOMAIN effects \subseteq DOMAIN effects'
  BY <1>3, Framed, Zenon DEF IInv
<1>5. PICK n \in 0 .. Least(MaxAmount, life[Call.f]) :
        remove_life(Call.f, n, Call.by, fire_passives({Call.f}))
  BY Zenon DEF return_damage
<1>6. n \in Nat
  BY <1>2 DEF Least, IInv, Fighting
<1>7. fire_passives({Call.f}) \in Seq(Calls(DOMAIN effects'))
  BY PassivesCalls
<1>8. life' \in [Fighters -> 0 .. MaxLife] /\ Calling'
  BY <1>1, <1>2, <1>4, <1>5, <1>6, <1>7, RemoveLife, Zenon DEF IInv
<1> QED BY <1>3, <1>4, <1>8, Zenon DEF IInv, Fighting

LEMMA PoisonStep ==
  ASSUME IInv, apply_effect_poison
  PROVE  IInv'
<1>1. Call \in LineCalls /\ todo # <<>>
  BY Applied, Zenon DEF apply_effect_poison
<1>2. PICK n \in Amounts : Then(<<Store(n)>>)
  BY Zenon DEF apply_effect_poison
<1>3. <<Store(n)>> \in Seq(Calls(DOMAIN effects))
  BY <1>1, AmountsAreNumbers, StoreCall DEF IInv
<1>4. Frame /\ UNCHANGED <<entered, actor>> /\ life' \in [Fighters -> 0 .. MaxLife]
  BY DEF apply_effect_poison, Frame, IInv, Fighting
<1> QED BY <1>1, <1>2, <1>3, <1>4, HandOver, Zenon

LEMMA HealStep ==
  ASSUME IInv, apply_effect_heal
  PROVE  IInv'
<1>1. Call \in LineCalls /\ Call.to \in Fighters /\ todo # <<>>
  BY Applied, Zenon DEF apply_effect_heal
<1>2. PICK n \in Amounts :
        IF Call.line.turns = 0 THEN add_life(Call.to, n) /\ Then(<<>>)
                               ELSE Then(<<Store(n)>>) /\ UNCHANGED life
  BY Zenon DEF apply_effect_heal
<1>3. n \in Nat
  BY AmountsAreNumbers
<1>4. Frame /\ UNCHANGED <<entered, actor>>
  BY DEF apply_effect_heal, Frame
<1>5. CASE Call.line.turns = 0
  <2>1. life' \in [Fighters -> 0 .. MaxLife]
    BY <1>1, <1>2, <1>3, <1>5, AddLife, Zenon DEF IInv
  <2> QED BY <1>1, <1>2, <1>4, <1>5, <2>1, HandOver, Sequences, Zenon
<1>6. CASE Call.line.turns # 0
  <2>1. <<Store(n)>> \in Seq(Calls(DOMAIN effects))
    BY <1>1, <1>3, StoreCall DEF IInv
  <2>2. life' \in [Fighters -> 0 .. MaxLife] /\ Then(<<Store(n)>>)
    BY <1>2, <1>6, Zenon DEF IInv, Fighting
  <2> QED BY <1>1, <1>4, <2>1, <2>2, HandOver, Zenon
<1> QED BY <1>5, <1>6

LEMMA CarrierStep ==
  ASSUME IInv, apply_effect_stat_carrier
  PROVE  IInv'
<1>1. Call \in LineCalls /\ todo # <<>>
  BY Applied, Zenon DEF apply_effect_stat_carrier
<1>2. PICK n \in Amounts : Then(<<Store(n)>>)
  BY Zenon DEF apply_effect_stat_carrier
<1>3. <<Store(n)>> \in Seq(Calls(DOMAIN effects))
  BY <1>1, AmountsAreNumbers, StoreCall DEF IInv
<1>4. Frame /\ UNCHANGED <<entered, actor>> /\ life' \in [Fighters -> 0 .. MaxLife]
  BY DEF apply_effect_stat_carrier, Frame, IInv, Fighting
<1> QED BY <1>1, <1>2, <1>3, <1>4, HandOver, Zenon

LEMMA AddStateStep ==
  ASSUME IInv, apply_add_state
  PROVE  IInv'
<1>1. Call \in LineCalls /\ todo # <<>>
  BY Applied, Zenon DEF apply_add_state
<1> DEFINE n == IF NewId = {} THEN 0 ELSE 1
<1>2. n \in Nat
  OBVIOUS
<1>3. Then(<<Store(n)>>)
  BY Zenon DEF apply_add_state
<1> HIDE DEF n
<1>4. <<Store(n)>> \in Seq(Calls(DOMAIN effects))
  BY <1>1, <1>2, StoreCall DEF IInv
<1>5. Frame /\ UNCHANGED <<entered, actor>> /\ life' \in [Fighters -> 0 .. MaxLife]
  BY DEF apply_add_state, Frame, IInv, Fighting
<1> QED BY <1>1, <1>3, <1>4, <1>5, HandOver, Zenon

LEMMA AftereffectStep ==
  ASSUME IInv, apply_aftereffect
  PROVE  IInv'
<1>1. Call \in LineCalls /\ Call.by \in Fighters /\ Call.to \in Fighters /\ todo # <<>>
  BY Applied, Zenon DEF apply_aftereffect
<1>2. Frame /\ entered' = entered /\ actor' = actor
  BY DEF apply_aftereffect, Frame
<1>3. Arena(effects)' /\ Agree(effects, suffered, launched)' /\ DOMAIN effects \subseteq DOMAIN effects'
  BY <1>2, Framed, Zenon DEF IInv
<1>4. PICK n \in Amounts :
        remove_life(Call.to, Least(n, life[Call.to]), Call.by,
                    fire_passives({Call.to}) \o <<Store(Least(n, life[Call.to]))>>)
  BY Zenon DEF apply_aftereffect
<1> DEFINE value == Least(n, life[Call.to])
           C == Calls(DOMAIN effects')
<1>5. value \in Nat
  BY <1>1, AmountsAreNumbers DEF Least, IInv, Fighting
<1> HIDE DEF value
<1>6. <<Store(value)>> \in Seq(C)
  BY <1>1, <1>5, StoreCall DEF IInv
<1>7. fire_passives({Call.to}) \o <<Store(value)>> \in Seq(C)
  BY <1>6, PassivesCalls, Sequences, Zenon
<1>8. remove_life(Call.to, value, Call.by, fire_passives({Call.to}) \o <<Store(value)>>)
  BY <1>4 DEF value
<1>9. life' \in [Fighters -> 0 .. MaxLife] /\ Calling'
  BY <1>1, <1>3, <1>5, <1>7, <1>8, RemoveLife, Zenon DEF IInv
<1> QED BY <1>2, <1>3, <1>9, Zenon DEF IInv, Fighting
-----------------------------------------------------------------------------
(* The steps that change the arena or the lists.                            *)
LEMMA ListsStep ==
  ASSUME IInv, todo # <<>>, Arena(effects'), Agree(effects', suffered', launched'),
         DOMAIN effects \subseteq DOMAIN effects', UNCHANGED <<entered, actor>>,
         life' \in [Fighters -> 0 .. MaxLife], NEW calls \in Seq(Calls(DOMAIN effects')), Then(calls)
  PROVE  IInv'
<1>1. Calling'
  BY ThenCalls, Zenon DEF IInv
<1> QED BY <1>1, Zenon DEF IInv, Fighting, Arena, Agree

LEMMA CreateStep ==
  ASSUME IInv, create
  PROVE  IInv'
<1> DEFINE like == { e \in suffered[Call.to] :
                       effects[e].line.effect = Call.line.effect /\ effects[e].item = Call.item }
           call == [Call EXCEPT !.op = "apply"]
<1>1. Call \in LineCalls /\ Call.to \in Fighters /\ todo # <<>>
  BY CallIs, LineFields, Zenon DEF IInv, create, Running
<1>2. effects' = effects /\ UNCHANGED <<entered, actor>> /\ life' \in [Fighters -> 0 .. MaxLife] /\ Then(<<call>>)
  BY DEF create, IInv, Fighting
<1>3. like \in SUBSET suffered[Call.to] /\ like \in SUBSET DOMAIN effects
  BY <1>1 DEF IInv, Agree
<1>4. \/ like # {} /\ remove_effects(Call.to, {First(like)}, effects)
      \/ UNCHANGED <<lists, totals>>
  BY Zenon DEF create
<1> HIDE DEF like
<1>5. Agree(effects', suffered', launched')
  <2>1. CASE like # {} /\ remove_effects(Call.to, {First(like)}, effects)
    <3>1. {First(like)} \in SUBSET suffered[Call.to]
      BY <1>3, <2>1, FirstId DEF IInv
    <3>2. Agree(effects, suffered', launched')
      BY <1>1, <2>1, <3>1, Removed, Zenon DEF IInv
    <3> QED BY <1>2, <3>2, Zenon
  <2>2. CASE UNCHANGED <<lists, totals>>
    BY <1>2, <2>2 DEF lists, IInv
  <2> QED BY <1>4, <2>1, <2>2
<1>6. call \in LineCalls
  BY <1>1 DEF LineCalls
<1> HIDE DEF call
<1>7. <<call>> \in Seq(Calls(DOMAIN effects'))
  <2>1. call \in Calls(DOMAIN effects')
    BY <1>6, Zenon DEF Calls
  <2> QED BY <2>1, Sequences, Zenon
<1>8. Arena(effects') /\ DOMAIN effects \subseteq DOMAIN effects'
  BY <1>2 DEF IInv
<1> QED BY <1>1, <1>2, <1>5, <1>7, <1>8, ListsStep, Zenon

LEMMA ReduceStep ==
  ASSUME IInv, reduce_effects
  PROVE  IInv'
<1>1. Call.to \in Fighters /\ todo # <<>>
  BY Applied, Zenon DEF reduce_effects
<1>2. UNCHANGED <<entered, actor>> /\ life' \in [Fighters -> 0 .. MaxLife] /\ Then(<<>>)
  BY DEF reduce_effects, IInv, Fighting
<1> DEFINE reduced == { e \in suffered[Call.to] :
                            effects[e].line.irreductible => Call.line.effect = "total_debuff" }
           fx(total) == [e \in DOMAIN effects |->
                           IF e \in reduced THEN reduce_effect(effects[e], total) ELSE effects[e]]
<1>3. PICK total \in BOOLEAN :
        /\ effects' = fx(total)
        /\ remove_effects(Call.to, { e \in reduced : fx(total)[e].value = 0 }, fx(total))
  BY Zenon DEF reduce_effects
<1>4. \A r \in Effect : /\ reduce_effect(r, total) \in Effect
                        /\ reduce_effect(r, total).target = r.target
                        /\ reduce_effect(r, total).caster = r.caster
  BY DEF reduce_effect, Effect
<1>5. DOMAIN effects' = DOMAIN effects
  BY <1>3, Zenon
<1>6. \A e \in DOMAIN effects : /\ effects'[e] \in Effect
                                /\ effects'[e].target = effects[e].target
                                /\ effects'[e].caster = effects[e].caster
  BY <1>3, <1>4, Zenon DEF IInv, Arena
<1>7. Arena(effects')
  BY <1>5, <1>6, Zenon DEF IInv, Arena
<1> DEFINE gone == { e \in reduced : fx(total)[e].value = 0 }
<1>8. gone \in SUBSET suffered[Call.to]
  OBVIOUS
<1> HIDE DEF gone
<1>9. Agree(effects, suffered', launched')
  BY <1>1, <1>3, <1>8, Removed, Zenon DEF IInv, gone
<1>10. Agree(effects', suffered', launched')
  BY <1>5, <1>6, <1>9, SameEnds, Zenon
<1> QED BY <1>1, <1>2, <1>5, <1>7, <1>10, ListsStep, Sequences, Zenon

LEMMA AntidoteStep ==
  ASSUME IInv, clear_poisons
  PROVE  IInv'
<1>1. Call.to \in Fighters /\ todo # <<>>
  BY Applied, Zenon DEF clear_poisons
<1>2. effects' = effects /\ UNCHANGED <<entered, actor>> /\ life' \in [Fighters -> 0 .. MaxLife] /\ Then(<<>>)
  BY DEF clear_poisons, IInv, Fighting
<1> DEFINE gone == { e \in suffered[Call.to] : effects[e].line.effect = "poison" }
<1>3. remove_effects(Call.to, gone, effects) /\ gone \in SUBSET suffered[Call.to]
  BY Zenon DEF clear_poisons
<1> HIDE DEF gone
<1>4. Agree(effects, suffered', launched')
  BY <1>1, <1>3, Removed, Zenon DEF IInv
<1>5. Arena(effects') /\ DOMAIN effects \subseteq DOMAIN effects' /\ Agree(effects', suffered', launched')
  BY <1>2, <1>4 DEF IInv
<1> QED BY <1>1, <1>2, <1>5, ListsStep, Sequences, Zenon

LEMMA StoreIs ==
  ASSUME IInv, Running("store")
  PROVE  /\ todo # <<>> /\ Call.line \in EffectParams /\ Call.item \in Origins
         /\ Call.by \in Fighters /\ Call.to \in Fighters /\ Call.value \in Nat
<1>1. Call \in StoreCalls /\ todo # <<>>
  BY CallIs, Zenon DEF IInv, Running
<1> QED BY <1>1 DEF StoreCalls

LEMMA MergeStep ==
  ASSUME IInv, store_merged
  PROVE  IInv'
<1>1. todo # <<>> /\ Call.value \in Nat
  BY StoreIs, Zenon DEF store_merged
<1>2. /\ UNCHANGED <<entered, actor, lists>> /\ life' \in [Fighters -> 0 .. MaxLife] /\ Then(<<>>)
      /\ effects' = [effects EXCEPT ![First(Same)].value = @ + Call.value]
  BY DEF store_merged, IInv, Fighting
<1>3. DOMAIN effects' = DOMAIN effects
  BY <1>2, Zenon
<1>4. \A e \in DOMAIN effects :
        effects'[e] = IF e = First(Same) THEN [effects[e] EXCEPT !.value = @ + Call.value] ELSE effects[e]
  BY <1>2
<1>5. \A r \in Effect : LET s == [r EXCEPT !.value = @ + Call.value]
                        IN s \in Effect /\ s.target = r.target /\ s.caster = r.caster
  BY <1>1 DEF Effect
<1>6. \A e \in DOMAIN effects : /\ effects'[e] \in Effect
                                /\ effects'[e].target = effects[e].target
                                /\ effects'[e].caster = effects[e].caster
  BY <1>4, <1>5, Zenon DEF IInv, Arena
<1>7. Arena(effects')
  BY <1>3, <1>6, Zenon DEF IInv, Arena
<1>8. Agree(effects, suffered', launched')
  BY <1>2 DEF lists, IInv
<1>9. Agree(effects', suffered', launched')
  BY <1>3, <1>6, <1>8, SameEnds, Zenon
<1>10. entered' = entered /\ actor' = actor
  BY <1>2
<1> QED BY <1>1, <1>2, <1>3, <1>7, <1>9, <1>10, ListsStep, Sequences, Zenon

LEMMA StoreStep ==
  ASSUME IInv, store_new
  PROVE  IInv'
<1>1. todo # <<>> /\ Call.line \in EffectParams /\ Call.item \in Origins
      /\ Call.by \in Fighters /\ Call.to \in Fighters /\ Call.value \in Nat
  BY StoreIs, Zenon DEF store_new
<1>2. UNCHANGED <<entered, actor>> /\ life' \in [Fighters -> 0 .. MaxLife] /\ Then(<<>>)
  BY DEF store_new, IInv, Fighting
<1> DEFINE r == [line |-> Call.line, item |-> Call.item, turns |-> Call.line.turns,
                 value |-> Call.value, caster |-> Call.by, target |-> Call.to]
<1>3. PICK e \in NewId :
        /\ effects' = [i \in DOMAIN effects \cup {e} |-> IF i = e THEN r ELSE effects[i]]
        /\ suffered' = [suffered EXCEPT ![Call.to] = @ \cup {e}]
        /\ launched' = [launched EXCEPT ![Call.by] = @ \cup {e}]
  BY Zenon DEF store_new
<1>4. Call.line.turns \in Int
  BY <1>1 DEF EffectParams
<1>5. r \in Effect /\ r.target = Call.to /\ r.caster = Call.by
  BY <1>1, <1>4 DEF Effect
<1> HIDE DEF r
<1>6. e \in Ids /\ e \notin DOMAIN effects
  BY DEF NewId, Ids
<1>7. /\ DOMAIN effects' = DOMAIN effects \cup {e} /\ effects'[e] = r
      /\ \A i \in DOMAIN effects : effects'[i] = effects[i]
  BY <1>3, <1>6
<1>8. /\ Arena(effects')
      /\ Agree(effects', [suffered EXCEPT ![r.target] = @ \cup {e}],
                         [launched EXCEPT ![r.caster] = @ \cup {e}])
  BY <1>5, <1>6, <1>7, Stored, Zenon DEF IInv
<1>9. Agree(effects', suffered', launched')
  BY <1>3, <1>5, <1>8, Zenon
<1>10. DOMAIN effects \subseteq DOMAIN effects'
  BY <1>7
<1> QED BY <1>1, <1>2, <1>8, <1>9, <1>10, ListsStep, Sequences, Zenon

LEMMA StoreNothingStep ==
  ASSUME IInv, store_nothing
  PROVE  IInv'
<1>1. todo # <<>> /\ Frame /\ UNCHANGED <<entered, actor>> /\ life' \in [Fighters -> 0 .. MaxLife] /\ Then(<<>>)
  BY DEF store_nothing, Frame, Running, IInv, Fighting
<1> QED BY <1>1, HandOver, Sequences, Zenon

LEMMA PassiveLineIsOne == PassiveLine \in EffectParams
<1>1. "raw_buff" \in Kinds
  BY DEF Kinds, Carriers
<1>2. {"caster"} \in SUBSET {"enemies", "allies", "caster"}
  OBVIOUS
<1>3. -1 \in -1 .. 9
  OBVIOUS
<1> QED BY <1>1, <1>2, <1>3 DEF PassiveLine, EffectParams

LEMMA SummonStateIsOne == SummonState \in EffectParams
<1>1. "add_state" \in Kinds
  BY DEF Kinds, Carriers
<1>2. {"enemies", "allies", "caster"} \in SUBSET {"enemies", "allies", "caster"}
  OBVIOUS
<1>3. -1 \in -1 .. 9
  OBVIOUS
<1> QED BY <1>1, <1>2, <1>3 DEF SummonState, EffectParams

LEMMA PinnedAre ==
  ASSUME NEW f \in Fighters
  PROVE  [n \in 1 .. Pins[f] |-> SummonState] \in Seq(EffectParams)
<1>1. Pins[f] \in Nat
  BY FightersAssumption
<1>2. [n \in 1 .. Pins[f] |-> SummonState] \in [1 .. Pins[f] -> EffectParams]
  BY SummonStateIsOne
<1> QED BY <1>1, <1>2, SeqDef

LEMMA SpreadLineIsOne ==
  ASSUME NEW line \in EffectParams
  PROVE  /\ SpreadLine(line) \in EffectParams
         /\ SpreadLine(line).effect = line.effect /\ SpreadLine(line).turns = line.turns
<1>1. SpreadLine(line) = [line EXCEPT !.stackable = SpreadLine(line).stackable]
  BY Zenon DEF SpreadLine, EffectParams
<1>2. SpreadLine(line).stackable \in BOOLEAN
  BY DEF SpreadLine, EffectParams
<1> HIDE DEF SpreadLine
<1> QED BY <1>1, <1>2 DEF EffectParams

LEMMA PassiveStep ==
  ASSUME IInv, activate_passive
  PROVE  IInv'
<1>1. Call \in CrowdCalls /\ todo # <<>>
  BY CallIs, Zenon DEF IInv, activate_passive, Running
<1> DEFINE f == First(Call.who)
           C == Calls(DOMAIN effects)
           one == IF alive(f) THEN <<create_effect(PassiveLine, "passive", f, f)>> ELSE <<>>
<1>2. f \in Fighters
  BY <1>1, FirstFighter DEF CrowdCalls, Some
<1>3. Frame /\ UNCHANGED <<entered, actor>> /\ life' \in [Fighters -> 0 .. MaxLife]
  BY DEF activate_passive, Frame, IInv, Fighting
<1>4. Then(one \o fire_passives(Call.who \ {f}))
  BY Zenon DEF activate_passive
<1>5. "passive" \in Origins
  BY DEF Origins
<1> HIDE DEF f
<1>6. one \in Seq(C)
  BY <1>2, <1>5, PassiveLineIsOne, CreateCall, Sequences, Zenon
<1> HIDE DEF one
<1>7. one \o fire_passives(Call.who \ {f}) \in Seq(C)
  BY <1>6, PassivesCalls, Sequences, Zenon
<1> QED BY <1>1, <1>3, <1>4, <1>7, HandOver, Zenon

LEMMA DieStep ==
  ASSUME IInv, dies
  PROVE  IInv'
<1>1. Call \in CrowdCalls /\ todo # <<>>
  BY CallIs, Zenon DEF IInv, dies, Running
<1> DEFINE f == First(Call.who)
           summons == { g \in entered \ {f} : alive(g) /\ Summoner[g] = f }
<1>2. Call.who \in SUBSET Fighters /\ f \in Fighters
  BY <1>1, FirstFighter DEF CrowdCalls, Some
<1>3. /\ effects' = effects /\ UNCHANGED <<entered, actor>>
      /\ life' = [life EXCEPT ![f] = 0]
      /\ suffered' = FromTargets(f) /\ launched' = FromCasters(f)
      /\ Then(die(summons) \o die(Call.who \ {f}))
  BY Zenon DEF dies, Call
<1> HIDE DEF f
<1>4. life' \in [Fighters -> 0 .. MaxLife]
  <2>1. life' = [life EXCEPT ![f] = 0] /\ life \in [Fighters -> 0 .. MaxLife]
    BY <1>3, Zenon DEF IInv, Fighting
  <2> QED BY <1>2, <2>1, BoundsAssumption
<1>5. Agree(effects', suffered', launched')
  BY <1>2, <1>3, Dropped, Zenon DEF IInv
<1>6. summons \in SUBSET Fighters /\ Call.who \ {f} \in SUBSET Fighters
  BY <1>2 DEF IInv, Fighting
<1> HIDE DEF summons
<1>7. die(summons) \o die(Call.who \ {f}) \in Seq(Calls(DOMAIN effects'))
  BY <1>6, DieCalls, Sequences, Zenon
<1>8. Arena(effects') /\ DOMAIN effects \subseteq DOMAIN effects'
  BY <1>3 DEF IInv
<1> QED BY <1>1, <1>3, <1>4, <1>5, <1>7, <1>8, ListsStep, Zenon
-----------------------------------------------------------------------------
(* The steps of the use of an item.                                         *)
LEMMA LinesGoOn ==
  ASSUME NEW D, NEW by \in Fighters, NEW item \in Origins, NEW rest \in Seq(EffectParams),
         NEW area \in SUBSET Fighters
  PROVE  lines(by, item, rest, area) \in Seq(Calls(D))
<1> DEFINE call == [op |-> "lines", by |-> by, item |-> item, rest |-> rest, area |-> area]
           left == { i \in DOMAIN rest : TRUE }
<1>1. left # {} => rest # <<>>
  BY EmptySeq
<1>2. left # {} => call \in LinesCalls
  BY <1>1 DEF LinesCalls
<1>3. left # {} => call \in Calls(D)
  BY <1>2, Zenon DEF Calls
<1> QED BY <1>3, WhileCalls, Zenon DEF lines

LEMMA OverTargets ==
  ASSUME NEW D, NEW line \in EffectParams, NEW item \in Origins, NEW by \in Fighters,
         NEW who \in SUBSET Fighters
  PROVE  over_targets(line, item, by, who) \in Seq(Calls(D))
<1> DEFINE call == [op |-> "targets", line |-> line, item |-> item, by |-> by, who |-> who]
<1>1. who # {} => who \in Some(Fighters)
  BY DEF Some
<1>2. who # {} => call \in TargetsCalls
  BY <1>1 DEF TargetsCalls
<1>3. who # {} => call \in Calls(D)
  BY <1>2, Zenon DEF Calls
<1> QED BY <1>3, WhileCalls, Zenon DEF over_targets

LEMMA LineStep ==
  ASSUME IInv, next_line
  PROVE  IInv'
<1> DEFINE line == Head(Call.rest)
           who == IF alive(Call.by) THEN Reached(line) ELSE {}
           C == Calls(DOMAIN effects)
<1>1. Call \in LinesCalls /\ todo # <<>>
  BY CallIs, Zenon DEF IInv, next_line, Running
<1>2. /\ Call.by \in Fighters /\ Call.item \in Origins /\ Call.area \in SUBSET Fighters
      /\ Call.rest \in Seq(EffectParams) /\ Call.rest # <<>>
  BY <1>1 DEF LinesCalls
<1>3. line \in EffectParams /\ Tail(Call.rest) \in Seq(EffectParams)
  BY <1>2, HeadTailProperties
<1>4. who \in SUBSET Fighters
  BY <1>2 DEF Reached
<1>5. Frame /\ UNCHANGED <<entered, actor>> /\ life' \in [Fighters -> 0 .. MaxLife]
  BY DEF next_line, Frame, IInv, Fighting
<1>6. Then(over_targets(line, Call.item, Call.by, who)
             \o lines(Call.by, Call.item, Tail(Call.rest), Call.area))
  BY Zenon DEF next_line
<1> HIDE DEF line, who, C
<1>7. over_targets(line, Call.item, Call.by, who) \in Seq(C)
  BY <1>2, <1>3, <1>4, OverTargets DEF C
<1>8. lines(Call.by, Call.item, Tail(Call.rest), Call.area) \in Seq(C)
  BY <1>2, <1>3, LinesGoOn DEF C
<1>9. over_targets(line, Call.item, Call.by, who)
        \o lines(Call.by, Call.item, Tail(Call.rest), Call.area) \in Seq(C)
  BY <1>7, <1>8, Sequences, Zenon
<1> QED BY <1>1, <1>5, <1>6, <1>9, HandOver, Zenon DEF C

LEMMA TargetStep ==
  ASSUME IInv, next_target
  PROVE  IInv'
<1> DEFINE f == First(Call.who)
           C == Calls(DOMAIN effects)
<1>1. Call \in TargetsCalls /\ todo # <<>>
  BY CallIs, Zenon DEF IInv, next_target, Running
<1>2. /\ Call.line \in EffectParams /\ Call.item \in Origins /\ Call.by \in Fighters
      /\ Call.who \in SUBSET Fighters /\ Call.who # {}
  BY <1>1 DEF TargetsCalls, Some
<1>3. f \in Fighters
  BY <1>2, FirstFighter
<1>4. Frame /\ UNCHANGED <<entered, actor>> /\ life' \in [Fighters -> 0 .. MaxLife]
  BY DEF next_target, Frame, IInv, Fighting
<1>5. Then(<<create_effect(Call.line, Call.item, Call.by, f)>>
             \o over_targets(Call.line, Call.item, Call.by, Call.who \ {f}))
  BY Zenon DEF next_target
<1> HIDE DEF f, C
<1>6. <<create_effect(Call.line, Call.item, Call.by, f)>> \in Seq(C)
  BY <1>2, <1>3, CreateCall DEF C
<1>7. over_targets(Call.line, Call.item, Call.by, Call.who \ {f}) \in Seq(C)
  BY <1>2, OverTargets DEF C
<1>8. <<create_effect(Call.line, Call.item, Call.by, f)>>
        \o over_targets(Call.line, Call.item, Call.by, Call.who \ {f}) \in Seq(C)
  BY <1>6, <1>7, Sequences, Zenon
<1> QED BY <1>1, <1>4, <1>5, <1>8, HandOver, Zenon DEF C

(* A step from between the calls, which starts some.                        *)
LEMMA StartCalls ==
  ASSUME IInv, Frame, life' \in [Fighters -> 0 .. MaxLife], entered' \subseteq Fighters,
         actor' \in Fighters \cup {0}, todo' \in Seq(Calls(DOMAIN effects))
  PROVE  IInv'
<1>1. Arena(effects)' /\ Agree(effects, suffered, launched)'
  BY Framed, Zenon DEF IInv
<1>2. Calling'
  BY DEF Calling, Frame
<1> QED BY <1>1, <1>2, Zenon DEF IInv, Fighting

LEMMA UseStep ==
  ASSUME IInv, NEW item \in DOMAIN Items, NEW area \in Areas, use_item(item, area)
  PROVE  IInv'
<1>1. actor \in Fighters /\ item \in Origins /\ Items[item] \in Seq(EffectParams)
      /\ area \cap Living \in SUBSET Fighters
  BY CatalogAssumption DEF use_item, Acts, IInv, Fighting, Origins, Living
<1>2. todo' \in Seq(Calls(DOMAIN effects))
  BY <1>1, LinesGoOn DEF use_item
<1>3. Frame /\ life' \in [Fighters -> 0 .. MaxLife] /\ entered' \subseteq Fighters /\ actor' \in Fighters \cup {0}
  BY <1>1 DEF use_item, Frame, IInv, Fighting
<1> QED BY <1>2, <1>3, StartCalls, Zenon

LEMMA AppearsStep ==
  ASSUME IInv, NEW f \in Fighters, Appears(f)
  PROVE  /\ Frame /\ life' \in [Fighters -> 0 .. MaxLife] /\ actor' = actor
         /\ todo' \in Seq(Calls(DOMAIN effects))
<1>1. Frame /\ actor' = actor
  BY DEF Appears, Frame
<1>2. life' \in [Fighters -> 0 .. MaxLife]
  BY DEF Appears, IInv, Fighting
<1> DEFINE pinned == [n \in 1 .. Pins[f] |-> SummonState]
<1>3. todo' = lines(f, "innate", pinned, {f})
  BY DEF Appears
<1>4. "innate" \in Origins /\ pinned \in Seq(EffectParams) /\ {f} \in SUBSET Fighters
  BY PinnedAre DEF Origins
<1> HIDE DEF pinned
<1>5. todo' \in Seq(Calls(DOMAIN effects))
  BY <1>3, <1>4, LinesGoOn
<1> QED BY <1>1, <1>2, <1>5

LEMMA SummonStep ==
  ASSUME IInv, NEW f \in Fighters, summon(f) \/ resurrect(f)
  PROVE  IInv'
<1>1. Appears(f)
  BY DEF summon, resurrect
<1>2. entered' \subseteq Fighters /\ actor \in Fighters \cup {0}
  BY DEF summon, resurrect, IInv, Fighting
<1> QED BY <1>1, <1>2, AppearsStep, StartCalls, Zenon
-----------------------------------------------------------------------------
(* The steps of a turn.                                                     *)
LEMMA TickCall ==
  ASSUME NEW D, NEW f \in Fighters, NEW ids \in SUBSET D
  PROVE  <<tick(f, ids)>> \in Seq(Calls(D))
<1>1. tick(f, ids) \in TickCalls(D)
  BY DEF tick, TickCalls
<1>2. tick(f, ids) \in Calls(D)
  BY <1>1, Zenon DEF Calls
<1> QED BY <1>2, Sequences, Zenon

LEMMA StartTurnStep ==
  ASSUME IInv, NEW f \in Fighters, start_turn(f)
  PROVE  IInv'
<1>1. /\ UNCHANGED <<entered, lists>> /\ actor' = f /\ todo' = <<tick(f, suffered[f])>>
      /\ life' \in [Fighters -> 0 .. MaxLife]
      /\ effects' = [e \in UNION { suffered[g] \cup launched[g] : g \in Fighters } |-> effects[e]]
  BY DEF start_turn, IInv, Fighting
<1>2. Arena(effects') /\ Agree(effects', suffered, launched)
  BY <1>1, Forgotten, Zenon DEF IInv
<1>3. suffered' = suffered /\ launched' = launched /\ entered' = entered
  BY <1>1 DEF lists
<1>4. suffered[f] \in SUBSET DOMAIN effects'
  BY <1>2 DEF Agree
<1>5. Calling'
  BY <1>1, <1>4, TickCall DEF Calling
<1>6. actor' \in Fighters \cup {0}
  BY <1>1
<1>7. Agree(effects', suffered', launched') /\ entered' \subseteq Fighters
  BY <1>2, <1>3 DEF IInv, Fighting
<1> QED BY <1>1, <1>2, <1>5, <1>6, <1>7, Zenon DEF IInv, Fighting, Arena, Agree

LEMMA TickIs ==
  ASSUME IInv, Running("tick")
  PROVE  /\ todo # <<>> /\ Call.f \in Fighters /\ Call.ids \in SUBSET DOMAIN effects
         /\ <<tick(Call.f, Call.ids \ {First(Call.ids)})>> \in Seq(Calls(DOMAIN effects))
         /\ Call.ids # {} => effects[First(Call.ids)] \in Effect
<1>1. Call \in TickCalls(DOMAIN effects) /\ todo # <<>>
  BY CallIs, Zenon DEF IInv, Running
<1>2. Call.f \in Fighters /\ Call.ids \in SUBSET DOMAIN effects
  BY <1>1 DEF TickCalls
<1>3. Call.ids # {} => First(Call.ids) \in DOMAIN effects
  BY <1>2, FirstId DEF IInv
<1>4. Call.ids \ {First(Call.ids)} \in SUBSET DOMAIN effects
  BY <1>2
<1> QED BY <1>1, <1>2, <1>3, <1>4, TickCall DEF IInv, Arena

LEMMA TickPoisonStep ==
  ASSUME IInv, tick_poison
  PROVE  IInv'
<1>1. /\ todo # <<>> /\ Call.f \in Fighters /\ Ticked.value \in Nat
      /\ Rest \in Seq(Calls(DOMAIN effects))
  BY TickIs DEF tick_poison, Ticking, Ticked, Rest, Effect
<1>2. Frame /\ entered' = entered /\ actor' = actor
  BY DEF tick_poison, Frame
<1>3. Arena(effects)' /\ Agree(effects, suffered, launched)' /\ DOMAIN effects \subseteq DOMAIN effects'
  BY <1>2, Framed, Zenon DEF IInv
<1>4. PICK n \in {Least(Ticked.value, life[Call.f])} \cup (IF states[Call.f] > 0 THEN {0} ELSE {}) :
        remove_life(Call.f, n, Ticked.caster, fire_passives({Call.f}) \o Rest)
  BY Zenon DEF tick_poison
<1>5. n \in Nat
  BY <1>1 DEF Least, IInv, Fighting
<1>6. Rest \in Seq(Calls(DOMAIN effects'))
  BY <1>1, <1>2 DEF Frame
<1>7. fire_passives({Call.f}) \o Rest \in Seq(Calls(DOMAIN effects'))
  BY <1>6, PassivesCalls, Sequences, Zenon
<1>8. life' \in [Fighters -> 0 .. MaxLife] /\ Calling'
  BY <1>1, <1>3, <1>4, <1>5, <1>7, RemoveLife, Zenon DEF IInv
<1> QED BY <1>2, <1>3, <1>8, Zenon DEF IInv, Fighting

LEMMA TickHealStep ==
  ASSUME IInv, tick_heal
  PROVE  IInv'
<1>1. /\ todo # <<>> /\ Call.f \in Fighters /\ Ticked.value \in Nat
      /\ Rest \in Seq(Calls(DOMAIN effects))
  BY TickIs DEF tick_heal, Ticking, Ticked, Rest, Effect
<1>2. Frame /\ UNCHANGED <<entered, actor>> /\ Then(Rest)
  BY DEF tick_heal, Frame
<1>3. PICK n \in {Ticked.value} \cup (IF states[Call.f] > 0 THEN {0} ELSE {}) : add_life(Call.f, n)
  BY Zenon DEF tick_heal
<1>4. n \in Nat
  BY <1>1
<1>5. life' \in [Fighters -> 0 .. MaxLife]
  BY <1>1, <1>3, <1>4, AddLife, Zenon DEF IInv
<1> QED BY <1>1, <1>2, <1>5, HandOver, Zenon

LEMMA TickAftereffectStep ==
  ASSUME IInv, tick_aftereffect
  PROVE  IInv'
<1> DEFINE n == Least(Ticked.value, life[Call.f])
<1>1. /\ todo # <<>> /\ Call.f \in Fighters /\ Ticked.value \in Nat
      /\ Rest \in Seq(Calls(DOMAIN effects))
  BY TickIs DEF tick_aftereffect, Ticking, Ticked, Rest, Effect
<1>2. n \in Nat
  BY <1>1 DEF Least, IInv, Fighting
<1>3. /\ effects' = [effects EXCEPT ![First(Call.ids)].value = n]
      /\ remove_life(Call.f, n, Ticked.caster, fire_passives({Call.f}) \o Rest)
      /\ entered' = entered /\ actor' = actor /\ suffered' = suffered /\ launched' = launched
  BY Zenon DEF tick_aftereffect, lists
<1> HIDE DEF n
<1>4. DOMAIN effects' = DOMAIN effects
  BY <1>3, Zenon
<1>5. \A e \in DOMAIN effects :
        effects'[e] = IF e = First(Call.ids) THEN [effects[e] EXCEPT !.value = n] ELSE effects[e]
  BY <1>3
<1>6. \A r \in Effect : LET s == [r EXCEPT !.value = n]
                        IN s \in Effect /\ s.target = r.target /\ s.caster = r.caster
  BY <1>2 DEF Effect
<1>7. \A e \in DOMAIN effects : /\ effects'[e] \in Effect
                                /\ effects'[e].target = effects[e].target
                                /\ effects'[e].caster = effects[e].caster
  BY <1>5, <1>6, Zenon DEF IInv, Arena
<1>8. Arena(effects')
  BY <1>4, <1>7, Zenon DEF IInv, Arena
<1>9. Agree(effects', suffered, launched)
  BY <1>4, <1>7, SameEnds, Zenon DEF IInv
<1>10. fire_passives({Call.f}) \o Rest \in Seq(Calls(DOMAIN effects'))
  BY <1>1, <1>4, PassivesCalls, Sequences, Zenon
<1>11. life' \in [Fighters -> 0 .. MaxLife] /\ Calling'
  BY <1>1, <1>2, <1>3, <1>4, <1>10, RemoveLife DEF IInv
<1>12. Agree(effects', suffered', launched')
  BY <1>3, <1>9, Zenon
<1> QED BY <1>3, <1>8, <1>11, <1>12, Zenon DEF IInv, Fighting, Arena, Agree

LEMMA TickOtherStep ==
  ASSUME IInv, tick_other \/ dies_ticking
  PROVE  IInv'
<1>1. todo # <<>> /\ Rest \in Seq(Calls(DOMAIN effects))
  BY TickIs, Zenon DEF tick_other, dies_ticking, Ticking, Rest
<1>2. Frame /\ UNCHANGED <<entered, actor>> /\ life' \in [Fighters -> 0 .. MaxLife]
  BY DEF tick_other, dies_ticking, Frame, IInv, Fighting
<1>3. Then(Rest) \/ Then(<<>>)
  BY DEF tick_other, dies_ticking
<1> QED BY <1>1, <1>2, <1>3, HandOver, Sequences, Zenon

LEMMA ExpireStep ==
  ASSUME IInv, expire
  PROVE  IInv'
<1> DEFINE f == Call.f
           fx == [e \in DOMAIN effects |->
                    IF e \in launched[f] THEN Aged(effects[e]) ELSE effects[e]]
           gone == { e \in launched[f] : fx[e].turns = 0 }
<1>1. todo # <<>> /\ f \in Fighters
  BY TickIs, Zenon DEF expire
<1>2. UNCHANGED <<entered, actor>> /\ life' \in [Fighters -> 0 .. MaxLife] /\ Then(<<>>)
  BY DEF expire, IInv, Fighting
<1>3. /\ effects' = fx
      /\ launched' = [launched EXCEPT ![f] = @ \ gone]
      /\ suffered' = [g \in Fighters |-> suffered[g] \ { e \in gone : fx[e].target = g }]
  BY Zenon DEF expire
<1>4. \A r \in Effect : Aged(r) \in Effect /\ Aged(r).target = r.target /\ Aged(r).caster = r.caster
  BY DEF Aged, Effect
<1>5. DOMAIN effects' = DOMAIN effects
  BY <1>3, Zenon
<1>6. \A e \in DOMAIN effects : /\ effects'[e] \in Effect
                                /\ effects'[e].target = effects[e].target
                                /\ effects'[e].caster = effects[e].caster
  BY <1>3, <1>4, Zenon DEF IInv, Arena
<1>7. Arena(effects')
  BY <1>5, <1>6, Zenon DEF IInv, Arena
<1>8. gone \in SUBSET launched[f]
  OBVIOUS
<1> HIDE DEF gone
<1>9. \A e \in gone : fx[e].target = effects[e].target
  BY <1>1, <1>3, <1>6, <1>8 DEF IInv, Agree
<1>10. suffered' = [g \in Fighters |-> suffered[g] \ { e \in gone : effects[e].target = g }]
  <2>1. \A g : { e \in gone : fx[e].target = g } = { e \in gone : effects[e].target = g }
    BY <1>9, Zenon
  <2> HIDE DEF fx
  <2> QED BY <1>3, <2>1
<1> HIDE DEF f, fx
<1>11. Agree(effects, suffered', launched')
  BY <1>1, <1>3, <1>8, <1>10, Expired, Zenon DEF IInv
<1>12. Agree(effects', suffered', launched')
  BY <1>5, <1>6, <1>11, SameEnds, Zenon
<1> QED BY <1>1, <1>2, <1>5, <1>7, <1>12, ListsStep, Sequences, Zenon

LEMMA SpreadGoesOn ==
  ASSUME NEW D, NEW f \in Fighters, NEW ids \in SUBSET D
  PROVE  spread(f, ids) \in Seq(Calls(D))
<1> DEFINE call == [op |-> "spread", f |-> f, ids |-> ids]
<1>1. ids # {} => ids \in Some(D)
  BY DEF Some
<1>2. ids # {} => call \in SpreadCalls(D)
  BY <1>1 DEF SpreadCalls
<1>3. ids # {} => call \in Calls(D)
  BY <1>2, Zenon DEF Calls
<1> QED BY <1>3, WhileCalls, Zenon DEF spread

LEMMA InfectGoesOn ==
  ASSUME NEW D, NEW ei \in D, NEW who \in SUBSET Fighters
  PROVE  infect(ei, who) \in Seq(Calls(D))
<1> DEFINE call == [op |-> "infect", ei |-> ei, who |-> who]
<1>1. who # {} => who \in Some(Fighters)
  BY DEF Some
<1>2. who # {} => call \in InfectCalls(D)
  BY <1>1 DEF InfectCalls
<1>3. who # {} => call \in Calls(D)
  BY <1>2, Zenon DEF Calls
<1> QED BY <1>3, WhileCalls, Zenon DEF infect

LEMMA EndTurnStep ==
  ASSUME IInv, end_entity_turn
  PROVE  IInv'
<1> DEFINE ids == { e \in suffered[actor] : effects[e].line.propagates }
<1>1. actor \in Fighters
  BY DEF end_entity_turn, IInv, Fighting
<1>2. ids \in SUBSET DOMAIN effects
  BY <1>1 DEF IInv, Agree
<1>3. todo' = IF alive(actor) THEN spread(actor, ids) ELSE <<>>
  BY Zenon DEF end_entity_turn
<1> HIDE DEF ids
<1>4. todo' \in Seq(Calls(DOMAIN effects))
  BY <1>1, <1>2, <1>3, SpreadGoesOn, Sequences, Zenon
<1>5. Frame /\ life' \in [Fighters -> 0 .. MaxLife] /\ entered' \subseteq Fighters /\ actor' \in Fighters \cup {0}
  BY DEF end_entity_turn, Frame, IInv, Fighting
<1> QED BY <1>4, <1>5, StartCalls, Zenon

LEMMA PropagateStep ==
  ASSUME IInv, propagate_effects
  PROVE  IInv'
<1> DEFINE e == First(Call.ids)
           C == Calls(DOMAIN effects)
<1>1. Call \in SpreadCalls(DOMAIN effects) /\ todo # <<>>
  BY CallIs, Zenon DEF IInv, propagate_effects, Running
<1>2. Call.f \in Fighters /\ Call.ids \in SUBSET DOMAIN effects /\ Call.ids # {}
  BY <1>1 DEF SpreadCalls, Some
<1>3. e \in DOMAIN effects
  BY <1>2, FirstId DEF IInv
<1>4. PICK around \in SUBSET (Living \ {Call.f}) :
        Then(infect(e, around) \o spread(Call.f, Call.ids \ {e}))
  BY Zenon DEF propagate_effects
<1>5. Frame /\ UNCHANGED <<entered, actor>> /\ life' \in [Fighters -> 0 .. MaxLife]
  BY DEF propagate_effects, Frame, IInv, Fighting
<1> HIDE DEF e, C
<1>6. infect(e, around) \in Seq(C)
  BY <1>3, InfectGoesOn DEF Living, C
<1>7. spread(Call.f, Call.ids \ {e}) \in Seq(C)
  BY <1>2, SpreadGoesOn DEF C
<1>8. infect(e, around) \o spread(Call.f, Call.ids \ {e}) \in Seq(C)
  BY <1>6, <1>7, Sequences, Zenon
<1> QED BY <1>1, <1>4, <1>5, <1>8, HandOver, Zenon DEF C

LEMMA InfectStep ==
  ASSUME IInv, infect_next
  PROVE  IInv'
<1> DEFINE f == First(Call.who)
           e == effects[Call.ei]
           C == Calls(DOMAIN effects)
           line == SpreadLine(e.line)
           one == IF "not_replaceable" \in e.line.propagation /\ has_effect(f, e.item) THEN <<>>
                  ELSE <<create_effect(line, e.item, e.caster, f)>>
<1>1. Call \in InfectCalls(DOMAIN effects) /\ todo # <<>>
  BY CallIs, Zenon DEF IInv, infect_next, Running
<1>2. Call.ei \in DOMAIN effects /\ Call.who \in SUBSET Fighters /\ Call.who # {}
  BY <1>1 DEF InfectCalls, Some
<1>3. f \in Fighters
  BY <1>2, FirstFighter
<1>4. line \in EffectParams /\ e.item \in Origins /\ e.caster \in Fighters
  BY <1>2, SpreadLineIsOne DEF IInv, Arena, Effect
<1>5. Frame /\ UNCHANGED <<entered, actor>> /\ life' \in [Fighters -> 0 .. MaxLife]
  BY DEF infect_next, Frame, IInv, Fighting
<1>6. Then(one \o infect(Call.ei, Call.who \ {f}))
  BY Zenon DEF infect_next
<1> HIDE DEF f, e, line, C
<1>7. <<create_effect(line, e.item, e.caster, f)>> \in Seq(C)
  BY <1>3, <1>4, CreateCall DEF C
<1>8. one \in Seq(C)
  BY <1>7, Sequences, Zenon
<1> HIDE DEF one
<1>9. infect(Call.ei, Call.who \ {f}) \in Seq(C)
  BY <1>2, InfectGoesOn DEF C
<1>10. one \o infect(Call.ei, Call.who \ {f}) \in Seq(C)
  BY <1>8, <1>9, Sequences, Zenon
<1> QED BY <1>1, <1>5, <1>6, <1>10, HandOver, Zenon DEF C
-----------------------------------------------------------------------------
LEMMA Initially == Init => IInv
<1> SUFFICES ASSUME Init PROVE IInv
  OBVIOUS
<1>1. DOMAIN effects = {} /\ Arena(effects) /\ Agree(effects, suffered, launched)
  BY DEF Init, Arena, Agree
<1>2. Fighting
  BY BoundsAssumption DEF Init, Fighting, Leeks
<1>3. Calling
  BY Sequences DEF Init, Calling
<1> QED BY <1>1, <1>2, <1>3 DEF IInv

LEMMA Step == IInv /\ [Next]_vars => IInv'
<1> SUFFICES ASSUME IInv, [Next]_vars PROVE IInv'
  OBVIOUS
<1>1. CASE UNCHANGED vars \/ finished
  <2>1. UNCHANGED <<life, entered, effects, suffered, launched, actor, todo>>
    BY <1>1 DEF vars, lists, finished
  <2> QED BY <2>1, Zenon DEF IInv, Arena, Agree, Fighting, Calling
<1>2. CASE create \/ store_merged \/ store_new \/ store_nothing
  BY <1>2, CreateStep, MergeStep, StoreStep, StoreNothingStep, Zenon
<1>3. CASE apply_damage \/ apply_effect_poison \/ apply_effect_heal \/ apply_aftereffect
  BY <1>3, DamageStep, PoisonStep, HealStep, AftereffectStep, Zenon
<1>4. CASE apply_effect_stat_carrier \/ apply_add_state \/ reduce_effects \/ clear_poisons
  BY <1>4, CarrierStep, AddStateStep, ReduceStep, AntidoteStep, Zenon
<1>5. CASE life_steal \/ return_damage \/ activate_passive \/ dies
  BY <1>5, StealStep, ReturnStep, PassiveStep, DieStep, Zenon
<1>6. CASE next_line \/ next_target
  BY <1>6, LineStep, TargetStep, Zenon
<1>7. ASSUME NEW f \in Fighters, start_turn(f) \/ summon(f) \/ resurrect(f)
      PROVE  IInv'
  BY <1>7, StartTurnStep, SummonStep, Zenon
<1>8. ASSUME NEW item \in DOMAIN Items, NEW area \in Areas, use_item(item, area)
      PROVE  IInv'
  BY <1>8, UseStep, Zenon
<1>9. CASE tick_poison \/ tick_heal \/ tick_aftereffect \/ tick_other \/ dies_ticking \/ expire
  BY <1>9, TickPoisonStep, TickHealStep, TickAftereffectStep, TickOtherStep, ExpireStep, Zenon
<1>10. CASE end_entity_turn \/ propagate_effects \/ infect_next
  BY <1>10, EndTurnStep, PropagateStep, InfectStep, Zenon
<1> QED
  BY <1>1, <1>2, <1>3, <1>4, <1>5, <1>6, <1>7, <1>8, <1>9, <1>10, Zenon DEF Next

(* The lists of the target and of the caster agree in every fight.          *)
THEOREM ListsAlwaysAgree == Spec => []ListsAgree
<1>1. IInv => ListsAgree
  BY Zenon DEF IInv, Agree, ListsAgree
<1> QED BY Initially, Step, <1>1, PTL DEF Spec
-----------------------------------------------------------------------------
(***************************************************************************)
(* The dead.  A heal without turns is the one call that raises a life      *)
(* without asking whether there is one: the targets of its line were alive *)
(* when they were collected, and nothing runs between the first of them    *)
(* being healed and the last.                                              *)
(***************************************************************************)
(* The calls that heal at once, and those that do not.                      *)
Healing(c) ==
  /\ c.op \in {"create", "apply", "targets"}
  /\ c.line.effect = "heal" /\ c.line.turns = 0

Calm == { c \in Calls(Ids) : ~Healing(c) }

(* A heal whose targets are collected is on top, or right under the one     *)
(* that it is about; they live, and nothing else heals at once.             *)
Collected(s) ==
  /\ s # <<>> /\ Healing(Head(s)) /\ Head(s).op = "targets"
  /\ Head(s).who \subseteq Living
  /\ Tail(s) \in Seq(Calm)

Healed(s) ==
  /\ s # <<>> /\ Healing(Head(s)) /\ Head(s).op # "targets"
  /\ Head(s).to \in Living
  /\ Tail(s) \in Seq(Calm) \/ Collected(Tail(s))

HealsTheLiving == todo \in Seq(Calm) \/ Collected(todo) \/ Healed(todo)

(* What is stored has turns to last: what spreads heals nobody at once.     *)
Lasting == \A e \in DOMAIN effects : effects[e].line.turns # 0

DeadInv == IInv /\ HealsTheLiving /\ Lasting

(* What most steps do to lives, and to lines.                               *)
RaisesNobody == \A f \in Fighters : life'[f] > 0 => life[f] > 0

SameLines ==
  /\ DOMAIN effects' \subseteq DOMAIN effects
  /\ \A e \in DOMAIN effects' : effects'[e].line = effects[e].line
-----------------------------------------------------------------------------
(* Calm calls.                                                              *)
LEMMA CalmOne ==
  ASSUME NEW D \in SUBSET Ids, NEW c, c \in Calls(D), ~Healing(c)
  PROVE  c \in Calm /\ <<c>> \in Seq(Calm)
<1>1. c \in Calls(Ids)
  BY MoreIds
<1>2. c \in Calm
  BY <1>1, Zenon DEF Calm
<1> QED BY <1>2, Sequences, Zenon

LEMMA CalmSome ==
  ASSUME NEW D \in SUBSET Ids, NEW left, NEW call,
         While(left, call) \in Seq(Calls(D)), ~Healing(call)
  PROVE  While(left, call) \in Seq(Calm)
<1>1. CASE left = {}
  BY <1>1, Sequences, Zenon DEF While
<1>2. CASE left # {}
  <2>1. While(left, call) = <<call>>
    BY <1>2 DEF While
  <2>2. <<call>> \in Seq(Calls(D))
    BY <2>1
  <2>3. call \in Calls(D)
    BY <2>2
  <2> QED BY <2>1, <2>3, CalmOne, Zenon
<1> QED BY <1>1, <1>2

LEMMA CalmPassives ==
  ASSUME NEW who
  PROVE  fire_passives(who) \in Seq(Calm)
<1>1. fire_passives(who) \in Seq(Calls(Ids))
  BY PassivesCalls
<1>2. ~Healing([op |-> "passives", who |-> who \cap Armed])
  BY DEF Healing
<1>3. While(who \cap Armed, [op |-> "passives", who |-> who \cap Armed]) \in Seq(Calls(Ids))
  BY <1>1, Zenon DEF fire_passives
<1> QED BY <1>2, <1>3, CalmSome, Zenon DEF fire_passives

LEMMA CalmDie ==
  ASSUME NEW who \in SUBSET Fighters
  PROVE  die(who) \in Seq(Calm)
<1>1. die(who) \in Seq(Calls(Ids))
  BY DieCalls
<1>2. ~Healing([op |-> "die", who |-> who])
  BY DEF Healing
<1>3. While(who, [op |-> "die", who |-> who]) \in Seq(Calls(Ids))
  BY <1>1, Zenon DEF die
<1> QED BY <1>2, <1>3, CalmSome, Zenon DEF die

LEMMA CalmCreate ==
  ASSUME NEW line \in EffectParams, NEW item \in Origins, NEW by \in Fighters,
         NEW to \in Fighters, line.turns # 0
  PROVE  <<create_effect(line, item, by, to)>> \in Seq(Calm)
<1>1. create_effect(line, item, by, to) \in LineCalls
  BY DEF create_effect, LineCalls
<1>2. create_effect(line, item, by, to) \in Calls(Ids)
  BY <1>1, Zenon DEF Calls
<1>3. ~Healing(create_effect(line, item, by, to))
  BY DEF create_effect, Healing
<1> QED BY <1>2, <1>3, CalmOne, Zenon

LEMMA CalmStore ==
  ASSUME Call \in LineCalls, NEW n \in Nat
  PROVE  <<Store(n)>> \in Seq(Calm)
<1>1. Store(n) \in StoreCalls /\ ~Healing(Store(n))
  BY DEF Store, StoreCalls, LineCalls, Healing
<1>2. Store(n) \in Calls(Ids)
  BY <1>1, Zenon DEF Calls
<1> QED BY <1>1, <1>2, CalmOne, Zenon

LEMMA CalmTick ==
  ASSUME NEW f \in Fighters, NEW ids \in SUBSET Ids
  PROVE  <<tick(f, ids)>> \in Seq(Calm)
<1>1. tick(f, ids) \in TickCalls(Ids) /\ ~Healing(tick(f, ids))
  BY DEF tick, TickCalls, Healing
<1>2. tick(f, ids) \in Calls(Ids)
  BY <1>1, Zenon DEF Calls
<1> QED BY <1>1, <1>2, CalmOne, Zenon

LEMMA TopCalm ==
  ASSUME HealsTheLiving, todo # <<>>, ~Healing(Call)
  PROVE  Tail(todo) \in Seq(Calm)
<1>1. todo \in Seq(Calm)
  BY DEF HealsTheLiving, Collected, Healed, Call
<1> QED BY <1>1, HeadTailProperties

(* A call that does not heal at once gives way to such calls.               *)
LEMMA CalmThen ==
  ASSUME HealsTheLiving, todo # <<>>, ~Healing(Call), NEW calls \in Seq(Calm), Then(calls)
  PROVE  HealsTheLiving'
<1>2. Tail(todo) \in Seq(Calm)
  BY TopCalm
<1>3. todo' = calls \o Tail(todo)
  BY Zenon DEF Then
<1>4. todo' \in Seq(Calm)
  BY <1>2, <1>3, Sequences, Zenon
<1>5. Calm' = Calm
  BY DEF Calm, Healing
<1> QED BY <1>4, <1>5, Zenon DEF HealsTheLiving

LEMMA CalmAgain ==
  ASSUME HealsTheLiving, todo # <<>>, ~Healing(Call), Then(<<>>)
  PROVE  HealsTheLiving'
BY CalmThen, Sequences, Zenon

LEMMA LinesLast == Lasting /\ SameLines => Lasting'
BY DEF Lasting, SameLines

LEMMA Untouched == effects' = effects => SameLines
BY DEF SameLines

LEMMA LifeStays == life' = life => RaisesNobody
BY DEF RaisesNobody

LEMMA CalmBlow ==
  ASSUME IInv, HealsTheLiving, todo # <<>>, ~Healing(Call),
         NEW f \in Fighters, NEW amount \in Int, NEW attacker,
         amount >= 0 \/ amount >= life[f] \/ life[f] > 0,
         NEW after \in Seq(Calm), remove_life(f, amount, attacker, after)
  PROVE  HealsTheLiving' /\ RaisesNobody
<1> DEFINE falls == IF alive(f) /\ amount >= life[f]
                    THEN on_player_die(f, attacker) \o die({f}) ELSE <<>>
<1>1. on_player_die(f, attacker) \in Seq(Calm)
  BY CalmPassives, Sequences, Zenon DEF on_player_die
<1>2. die({f}) \in Seq(Calm)
  BY CalmDie
<1>3. falls \in Seq(Calm)
  BY <1>1, <1>2, Sequences, Zenon
<1>4. Then(falls \o after) /\ life' = [life EXCEPT ![f] = @ - Least(amount, @)]
  BY Zenon DEF remove_life
<1> HIDE DEF falls
<1>5. falls \o after \in Seq(Calm)
  BY <1>3, Sequences, Zenon
<1>6. HealsTheLiving'
  BY <1>4, <1>5, CalmThen, Zenon
<1>7. RaisesNobody
  <2>1. life \in [Fighters -> Int]
    BY DEF IInv, Fighting
  <2>2. life'[f] = life[f] - Least(amount, life[f]) /\ life[f] \in Int
    BY <1>4, <2>1
  <2>3. life'[f] > 0 => life[f] > 0
    BY <2>2 DEF Least
  <2>4. \A g \in Fighters : g # f => life'[g] = life[g]
    BY <1>4, <2>1
  <2> QED BY <2>3, <2>4 DEF RaisesNobody
<1> QED BY <1>6, <1>7
-----------------------------------------------------------------------------
(* The calls that never heal at once.                                       *)
LEMMA AppliedCalmly ==
  ASSUME IInv, NEW kinds, Applying(kinds), "heal" \notin kinds
  PROVE  Call \in LineCalls /\ Call.by \in Fighters /\ Call.to \in Fighters /\ todo # <<>>
         /\ ~Healing(Call)
BY Applied, LineFields DEF Applying, Healing

LEMMA DamageCalm ==
  ASSUME DeadInv, apply_damage
  PROVE  HealsTheLiving' /\ RaisesNobody /\ SameLines
<1> DEFINE steal(n) == [op |-> "steal", f |-> Call.by, n |-> n]
           return == [op |-> "return", f |-> Call.by, by |-> Call.to]
           after(n) == fire_passives({Call.to}) \o
             IF Call.to = Call.by THEN <<>> ELSE <<steal(n), return>>
<1>1. Call \in LineCalls /\ Call.by \in Fighters /\ Call.to \in Fighters /\ todo # <<>>
      /\ ~Healing(Call)
  BY AppliedCalmly DEF DeadInv, apply_damage
<1>2. PICK n \in 0 .. Least(MaxAmount, life[Call.to]) : remove_life(Call.to, n, Call.by, after(n))
  BY Zenon DEF apply_damage
<1>3. life[Call.to] \in Int /\ n \in Int /\ n >= 0
  BY <1>1, BoundsAssumption DEF Least, DeadInv, IInv, Fighting
<1>4. steal(n) \in StealCalls /\ return \in ReturnCalls
  BY <1>1, <1>3 DEF StealCalls, ReturnCalls
<1>5. ~Healing(steal(n)) /\ ~Healing(return)
  BY DEF Healing
<1> HIDE DEF steal, return
<1>6. steal(n) \in Calls(Ids) /\ return \in Calls(Ids)
  BY <1>4, Zenon DEF Calls
<1>7. steal(n) \in Calm /\ return \in Calm
  BY <1>5, <1>6, Zenon DEF Calm
<1>8. \A a, b \in Calm : <<a, b>> \in Seq(Calm)
  OBVIOUS
<1>9. after(n) \in Seq(Calm)
  BY <1>7, <1>8, CalmPassives, Sequences, Zenon
<1> HIDE DEF after
<1>10. HealsTheLiving' /\ RaisesNobody
  BY <1>1, <1>2, <1>3, <1>9, CalmBlow, Zenon DEF DeadInv
<1> QED BY <1>10, Untouched DEF apply_damage

LEMMA AftereffectCalm ==
  ASSUME DeadInv, apply_aftereffect
  PROVE  HealsTheLiving' /\ RaisesNobody /\ SameLines
<1>1. Call \in LineCalls /\ Call.by \in Fighters /\ Call.to \in Fighters /\ todo # <<>>
      /\ ~Healing(Call)
  BY AppliedCalmly DEF DeadInv, apply_aftereffect
<1>2. PICK n \in Amounts :
        remove_life(Call.to, Least(n, life[Call.to]), Call.by,
                    fire_passives({Call.to}) \o <<Store(Least(n, life[Call.to]))>>)
  BY Zenon DEF apply_aftereffect
<1> DEFINE value == Least(n, life[Call.to])
<1>3. life[Call.to] \in Nat /\ n \in Nat
  BY <1>1, BoundsAssumption DEF Amounts, DeadInv, IInv, Fighting
<1>4. value \in Nat /\ value \in Int /\ (value >= 0 \/ value >= life[Call.to])
  BY <1>3 DEF Least
<1>5. remove_life(Call.to, value, Call.by, fire_passives({Call.to}) \o <<Store(value)>>)
  BY <1>2
<1> HIDE DEF value
<1>6. fire_passives({Call.to}) \o <<Store(value)>> \in Seq(Calm)
  BY <1>1, <1>4, CalmStore, CalmPassives, Sequences, Zenon
<1>7. HealsTheLiving' /\ RaisesNobody
  BY <1>1, <1>4, <1>5, <1>6, CalmBlow, Zenon DEF DeadInv
<1> QED BY <1>7, Untouched DEF apply_aftereffect

LEMMA StoringCalm ==
  ASSUME DeadInv, apply_effect_poison \/ apply_effect_stat_carrier \/ apply_add_state
  PROVE  HealsTheLiving' /\ RaisesNobody /\ SameLines
<1>1. Call \in LineCalls /\ todo # <<>> /\ ~Healing(Call)
  BY AppliedCalmly DEF DeadInv, apply_effect_poison, apply_effect_stat_carrier, apply_add_state,
                       Carriers
<1>2. \E n \in Nat : Then(<<Store(n)>>)
  BY AmountsAreNumbers DEF apply_effect_poison, apply_effect_stat_carrier, apply_add_state
<1>3. HealsTheLiving'
  BY <1>1, <1>2, CalmStore, CalmThen DEF DeadInv
<1>4. life' = life /\ effects' = effects
  BY DEF apply_effect_poison, apply_effect_stat_carrier, apply_add_state
<1> QED BY <1>3, <1>4, Untouched, LifeStays

LEMMA CuringCalm ==
  ASSUME DeadInv, reduce_effects \/ clear_poisons
  PROVE  HealsTheLiving' /\ RaisesNobody /\ SameLines
<1>1. todo # <<>> /\ ~Healing(Call) /\ Then(<<>>) /\ life' = life
  BY AppliedCalmly DEF DeadInv, reduce_effects, clear_poisons
<1>2. HealsTheLiving' /\ RaisesNobody
  BY <1>1, CalmAgain, LifeStays DEF DeadInv
<1>3. SameLines
  <2>1. CASE clear_poisons
    BY <2>1, Untouched DEF clear_poisons
  <2>2. CASE reduce_effects
    <3> DEFINE reduced == { e \in suffered[Call.to] :
                            effects[e].line.irreductible => Call.line.effect = "total_debuff" }
    <3>1. PICK total \in BOOLEAN :
            effects' = [e \in DOMAIN effects |->
                          IF e \in reduced THEN reduce_effect(effects[e], total) ELSE effects[e]]
      BY <2>2, Zenon DEF reduce_effects
    <3>2. \A r \in Effect : reduce_effect(r, total).line = r.line
      BY DEF reduce_effect, Effect
    <3>3. \A e \in DOMAIN effects : effects[e] \in Effect
      BY DEF DeadInv, IInv, Arena
    <3> HIDE DEF reduced
    <3> QED BY <3>1, <3>2, <3>3 DEF SameLines
  <2> QED BY <2>1, <2>2
<1> QED BY <1>2, <1>3

(* A stored effect has turns, a merged one keeps its line.                  *)
LEMMA StoreLasts ==
  ASSUME DeadInv, store_merged \/ store_new \/ store_nothing
  PROVE  HealsTheLiving' /\ RaisesNobody /\ Lasting'
<1>1. todo # <<>> /\ ~Healing(Call) /\ Then(<<>>) /\ life' = life
  BY DEF store_merged, store_new, store_nothing, Running, Call, Healing
<1>2. HealsTheLiving' /\ RaisesNobody
  BY <1>1, CalmAgain, LifeStays DEF DeadInv
<1>3. \A e \in DOMAIN effects : effects[e] \in Effect
  BY DEF DeadInv, IInv, Arena
<1>4. CASE store_merged
  <2>1. effects' = [effects EXCEPT ![First(Same)].value = @ + Call.value]
    BY <1>4 DEF store_merged
  <2>2. \A r \in Effect : [r EXCEPT !.value = @ + Call.value].line = r.line
    BY DEF Effect
  <2>3. SameLines
    BY <1>3, <2>1, <2>2 DEF SameLines
  <2> QED BY <1>2, <2>3, LinesLast DEF DeadInv
<1>5. CASE store_new
  <2> DEFINE r == [line |-> Call.line, item |-> Call.item, turns |-> Call.line.turns,
                   value |-> Call.value, caster |-> Call.by, target |-> Call.to]
  <2>1. Call.line.turns # 0
    BY <1>5 DEF store_new
  <2>2. r.line.turns # 0
    BY <2>1
  <2>3. PICK e \in NewId :
          effects' = [i \in DOMAIN effects \cup {e} |-> IF i = e THEN r ELSE effects[i]]
    BY <1>5, Zenon DEF store_new
  <2> HIDE DEF r
  <2>4. Lasting'
    BY <2>2, <2>3 DEF DeadInv, Lasting
  <2> QED BY <1>2, <2>4
<1>6. CASE store_nothing
  BY <1>2, <1>6, Untouched, LinesLast DEF store_nothing, DeadInv
<1> QED BY <1>4, <1>5, <1>6

LEMMA StealCalm ==
  ASSUME DeadInv, life_steal
  PROVE  HealsTheLiving' /\ RaisesNobody /\ SameLines
<1>1. Call \in StealCalls /\ todo # <<>> /\ ~Healing(Call) /\ Then(<<>>)
  BY CallIs DEF DeadInv, IInv, life_steal, Running, Call, Healing
<1>2. PICK n \in 0 .. (IF alive(Call.f) THEN Call.n ELSE 0) : add_life(Call.f, n)
  BY Zenon DEF life_steal
<1>3. Call.f \in Fighters /\ Call.n \in Int /\ life \in [Fighters -> Int]
  BY <1>1 DEF StealCalls, DeadInv, IInv, Fighting
<1>4. RaisesNobody
  <2>1. life'[Call.f] = Least(life[Call.f] + n, MaxLife) /\ life[Call.f] \in Int
    BY <1>2, <1>3 DEF add_life
  <2>2. life[Call.f] > 0 \/ n = 0
    BY <1>2, <1>3 DEF alive
  <2>3. life'[Call.f] > 0 => life[Call.f] > 0
    <3>1. \A a, b \in Int : Least(a, b) > 0 => a > 0
      BY DEF Least
    <3>2. life[Call.f] + n \in Int /\ (n = 0 => life[Call.f] + n = life[Call.f])
      BY <1>2, <2>1, <1>3
    <3>3. MaxLife \in Int
      BY BoundsAssumption
    <3>4. life'[Call.f] > 0 => life[Call.f] + n > 0
      BY <2>1, <3>1, <3>2, <3>3
    <3> QED BY <2>2, <3>2, <3>4
  <2>4. \A g \in Fighters : g # Call.f => life'[g] = life[g]
    BY <1>2, <1>3 DEF add_life
  <2> QED BY <2>3, <2>4 DEF RaisesNobody
<1>5. HealsTheLiving'
  BY <1>1, CalmAgain DEF DeadInv
<1> QED BY <1>4, <1>5, Untouched DEF life_steal

LEMMA ReturnCalm ==
  ASSUME DeadInv, return_damage
  PROVE  HealsTheLiving' /\ RaisesNobody /\ SameLines
<1>1. Call \in ReturnCalls /\ todo # <<>> /\ ~Healing(Call)
  BY CallIs DEF DeadInv, IInv, return_damage, Running, Call, Healing
<1>2. Call.f \in Fighters /\ life[Call.f] \in Int
  BY <1>1 DEF ReturnCalls, DeadInv, IInv, Fighting
<1>3. PICK n \in 0 .. Least(MaxAmount, life[Call.f]) :
        remove_life(Call.f, n, Call.by, fire_passives({Call.f}))
  BY Zenon DEF return_damage
<1>4. n \in Int /\ n >= 0
  BY <1>2, BoundsAssumption DEF Least
<1>5. HealsTheLiving' /\ RaisesNobody
  BY <1>1, <1>2, <1>3, <1>4, CalmPassives, CalmBlow, Zenon DEF DeadInv
<1> QED BY <1>5, Untouched DEF return_damage

LEMMA PassivesCalm ==
  ASSUME DeadInv, activate_passive
  PROVE  HealsTheLiving' /\ RaisesNobody /\ SameLines
<1> DEFINE f == First(Call.who)
           one == IF alive(f) THEN <<create_effect(PassiveLine, "passive", f, f)>> ELSE <<>>
<1>1. Call \in CrowdCalls /\ todo # <<>> /\ ~Healing(Call)
  BY CallIs DEF DeadInv, IInv, activate_passive, Running, Call, Healing
<1>2. f \in Fighters
  BY <1>1, FirstFighter DEF CrowdCalls, Some
<1>3. Then(one \o fire_passives(Call.who \ {f}))
  BY Zenon DEF activate_passive
<1>4. "passive" \in Origins /\ PassiveLine.turns # 0
  BY DEF Origins, PassiveLine
<1> HIDE DEF f
<1>5. one \in Seq(Calm)
  BY <1>2, <1>4, PassiveLineIsOne, CalmCreate, Sequences, Zenon
<1> HIDE DEF one
<1>6. one \o fire_passives(Call.who \ {f}) \in Seq(Calm)
  BY <1>5, CalmPassives, Sequences, Zenon
<1>7. HealsTheLiving'
  BY <1>1, <1>3, <1>6, CalmThen, Zenon DEF DeadInv
<1> QED BY <1>7, Untouched, LifeStays DEF activate_passive

LEMMA DiesCalm ==
  ASSUME DeadInv, dies
  PROVE  HealsTheLiving' /\ RaisesNobody /\ SameLines
<1> DEFINE f == First(Call.who)
           summons == { g \in entered \ {f} : alive(g) /\ Summoner[g] = f }
<1>1. Call \in CrowdCalls /\ todo # <<>> /\ ~Healing(Call)
  BY CallIs DEF DeadInv, IInv, dies, Running, Call, Healing
<1>2. Call.who \in SUBSET Fighters /\ f \in Fighters
  BY <1>1, FirstFighter DEF CrowdCalls, Some
<1>3. /\ effects' = effects /\ life' = [life EXCEPT ![f] = 0]
      /\ Then(die(summons) \o die(Call.who \ {f}))
  BY Zenon DEF dies, Call
<1> HIDE DEF f
<1>4. RaisesNobody
  BY <1>2, <1>3 DEF RaisesNobody, DeadInv, IInv, Fighting
<1>5. summons \in SUBSET Fighters /\ Call.who \ {f} \in SUBSET Fighters
  BY <1>2 DEF DeadInv, IInv, Fighting
<1> HIDE DEF summons
<1>6. die(summons) \o die(Call.who \ {f}) \in Seq(Calm)
  BY <1>5, CalmDie, Sequences, Zenon
<1>7. HealsTheLiving'
  BY <1>1, <1>3, <1>6, CalmThen, Zenon DEF DeadInv
<1> QED BY <1>3, <1>4, <1>7, Untouched
-----------------------------------------------------------------------------
LEMMA Regroup == \A a, b, c \in Seq(Calls(Ids)) : (a \o b) \o c = a \o (b \o c)
<1> DEFINE S == Calls(Ids)
<1> HIDE DEF S
<1>1. \A a, b, c \in Seq(S) : (a \o b) \o c = a \o (b \o c)
  BY ConcatAssociative
<1> QED BY <1>1 DEF S

LEMMA HeadTailOfConcat ==
  ASSUME NEW S, NEW c \in S, NEW t \in Seq(S)
  PROVE  <<c>> \o t # <<>> /\ Head(<<c>> \o t) = c /\ Tail(<<c>> \o t) = t
OBVIOUS

(* The way of a heal, from the line that collects its targets on.           *)
LEMMA CalmLines ==
  ASSUME NEW by \in Fighters, NEW item \in Origins, NEW rest \in Seq(EffectParams),
         NEW area \in SUBSET Fighters
  PROVE  lines(by, item, rest, area) \in Seq(Calm)
<1> DEFINE call == [op |-> "lines", by |-> by, item |-> item, rest |-> rest, area |-> area]
           left == { i \in DOMAIN rest : TRUE }
<1>1. lines(by, item, rest, area) \in Seq(Calls(Ids))
  BY LinesGoOn
<1>2. ~Healing(call)
  BY DEF Healing
<1>3. While(left, call) \in Seq(Calls(Ids))
  BY <1>1, Zenon DEF lines
<1> QED BY <1>2, <1>3, CalmSome, Zenon DEF lines

(* Nobody is left to heal, or those who are live.                           *)
LEMMA Collects ==
  ASSUME NEW line \in EffectParams, NEW item \in Origins, NEW by \in Fighters,
         NEW who \in SUBSET Living, NEW rest \in Seq(Calm)
  PROVE  LET s == over_targets(line, item, by, who) \o rest
         IN s \in Seq(Calm) \/ Collected(s)
<1> DEFINE call == [op |-> "targets", line |-> line, item |-> item, by |-> by, who |-> who]
           s == over_targets(line, item, by, who) \o rest
<1>1. CASE who = {}
  <2>1. over_targets(line, item, by, who) = <<>>
    BY <1>1 DEF over_targets, While
  <2> QED BY <2>1, Sequences, Zenon
<1>2. CASE who # {}
  <2>1. over_targets(line, item, by, who) = <<call>>
    BY <1>2 DEF over_targets, While
  <2>2. over_targets(line, item, by, who) \in Seq(Calls(Ids))
    BY OverTargets DEF Living
  <2>3. call \in Calls(Ids)
    BY <2>1, <2>2
  <2>4. CASE Healing(call)
    <3>1. s # <<>> /\ Head(s) = call /\ Tail(s) = rest
      <4>1. rest \in Seq(Calls(Ids))
        BY SeqMonotonic DEF Calm
      <4>2. s = <<call>> \o rest
        BY <2>1
      <4> HIDE DEF call, s
      <4> QED BY <2>3, <4>1, <4>2, HeadTailOfConcat, Zenon
    <3>2. call.op = "targets" /\ call.who = who
      OBVIOUS
    <3> HIDE DEF call, s
    <3>3. Collected(s)
      BY <2>4, <3>1, <3>2, Zenon DEF Collected
    <3> QED BY <3>3 DEF s
  <2>5. CASE ~Healing(call)
    <3>1. <<call>> \in Seq(Calm)
      BY <2>3, <2>5, CalmOne
    <3> QED BY <2>1, <3>1, Sequences, Zenon
  <2> QED BY <2>4, <2>5
<1> QED BY <1>1, <1>2

LEMMA LivingServed ==
  ASSUME Living \subseteq Living', todo' \in Seq(Calm) \/ Collected(todo') \/ Healed(todo')
  PROVE  HealsTheLiving'
<1>1. Calm' = Calm
  BY DEF Calm, Healing
<1> QED BY <1>1 DEF HealsTheLiving, Collected, Healed, Healing

LEMMA LineCollects ==
  ASSUME DeadInv, next_line
  PROVE  HealsTheLiving' /\ RaisesNobody /\ SameLines
<1> DEFINE line == Head(Call.rest)
           who == IF alive(Call.by) THEN Reached(line) ELSE {}
           more == lines(Call.by, Call.item, Tail(Call.rest), Call.area)
<1>1. Call \in LinesCalls /\ todo # <<>> /\ ~Healing(Call)
  BY CallIs DEF DeadInv, IInv, next_line, Running, Call, Healing
<1>2. /\ Call.by \in Fighters /\ Call.item \in Origins /\ Call.area \in SUBSET Fighters
      /\ Call.rest \in Seq(EffectParams) /\ Call.rest # <<>>
  BY <1>1 DEF LinesCalls
<1>3. line \in EffectParams /\ Tail(Call.rest) \in Seq(EffectParams)
  BY <1>2, HeadTailProperties
<1>4. who \in SUBSET Living
  BY <1>2 DEF Reached, Living
<1>5. Then(over_targets(line, Call.item, Call.by, who) \o more)
  BY Zenon DEF next_line
<1> HIDE DEF line, who
<1>6. more \in Seq(Calm) /\ Tail(todo) \in Seq(Calm)
  BY <1>1, <1>2, <1>3, CalmLines, TopCalm DEF DeadInv
<1>7. over_targets(line, Call.item, Call.by, who) \in Seq(Calls(Ids))
  BY <1>2, <1>3, <1>4, OverTargets DEF Living
<1> HIDE DEF more
<1>8. todo' = over_targets(line, Call.item, Call.by, who) \o (more \o Tail(todo))
  <2>1. Calm \in SUBSET Calls(Ids)
    BY DEF Calm
  <2>2. more \in Seq(Calls(Ids)) /\ Tail(todo) \in Seq(Calls(Ids))
    BY <1>6, <2>1, SeqMonotonic, Zenon
  <2>3. todo' = (over_targets(line, Call.item, Call.by, who) \o more) \o Tail(todo)
    BY <1>5, Zenon DEF Then
  <2> QED BY <1>7, <2>2, <2>3, Regroup, Zenon
<1>9. more \o Tail(todo) \in Seq(Calm)
  BY <1>6, Sequences, Zenon
<1>10. todo' \in Seq(Calm) \/ Collected(todo')
  BY <1>2, <1>3, <1>4, <1>8, <1>9, Collects, Zenon
<1>11. life' = life /\ effects' = effects
  BY DEF next_line
<1>12. HealsTheLiving'
  BY <1>10, <1>11, LivingServed DEF Living, alive
<1> QED BY <1>11, <1>12, Untouched, LifeStays

LEMMA TargetServed ==
  ASSUME DeadInv, next_target
  PROVE  HealsTheLiving' /\ RaisesNobody /\ SameLines
<1> DEFINE f == First(Call.who)
           one == create_effect(Call.line, Call.item, Call.by, f)
           rest == over_targets(Call.line, Call.item, Call.by, Call.who \ {f})
<1>1. Call \in TargetsCalls /\ todo # <<>> /\ Call.op = "targets"
  BY CallIs DEF DeadInv, IInv, next_target, Running, Call
<1>2. /\ Call.line \in EffectParams /\ Call.item \in Origins /\ Call.by \in Fighters
      /\ Call.who \in SUBSET Fighters /\ Call.who # {}
  BY <1>1 DEF TargetsCalls, Some
<1>3. f \in Call.who /\ f \in Fighters
  BY <1>2, FirstFighter
<1>4. Then(<<one>> \o rest)
  BY Zenon DEF next_target
<1>5. /\ one.op = "create" /\ one.line = Call.line /\ one.to = f
      /\ Healing(one) <=> Healing(Call)
  BY <1>1 DEF create_effect, Healing
<1>6. one \in Calls(Ids)
  <2>1. one \in LineCalls
    BY <1>2, <1>3 DEF create_effect, LineCalls
  <2> QED BY <2>1, Zenon DEF Calls
<1>7. rest \in Seq(Calls(Ids))
  BY <1>2, OverTargets
<1>8. life' = life /\ effects' = effects
  BY DEF next_target
<1> HIDE DEF f, one
<1>9. CASE ~Healing(Call)
  <2>1. <<one>> \in Seq(Calm)
    BY <1>5, <1>6, <1>9, CalmOne
  <2>2. ~Healing([op |-> "targets", line |-> Call.line, item |-> Call.item, by |-> Call.by,
                  who |-> Call.who \ {f}])
    BY <1>1, <1>9 DEF Healing
  <2>3. rest \in Seq(Calm)
    BY <1>7, <2>2, CalmSome, Zenon DEF over_targets
  <2> HIDE DEF rest
  <2>4. <<one>> \o rest \in Seq(Calm)
    BY <2>1, <2>3, Sequences, Zenon
  <2>5. HealsTheLiving'
    BY <1>1, <1>4, <1>9, <2>4, CalmThen, Zenon DEF DeadInv
  <2> QED BY <1>8, <2>5, Untouched, LifeStays
<1>10. CASE Healing(Call)
  <2>1. Collected(todo)
    <3>1. todo \notin Seq(Calm)
      <4>1. todo \in Seq(Calm) => Call \in Calm
        BY <1>1, HeadTailProperties DEF Call
      <4> QED BY <4>1, <1>10 DEF Calm
    <3>2. ~Healed(todo)
      BY <1>1 DEF Healed, Call
    <3> QED BY <3>1, <3>2 DEF DeadInv, HealsTheLiving
  <2>2. Call.who \subseteq Living /\ Tail(todo) \in Seq(Calm)
    BY <2>1 DEF Collected, Call
  <2>3. rest \o Tail(todo) \in Seq(Calm) \/ Collected(rest \o Tail(todo))
    <3>1. Call.who \ {f} \in SUBSET Living
      BY <2>2
    <3> QED BY <1>2, <2>2, <3>1, Collects
  <2> HIDE DEF rest
  <2>4. todo' = <<one>> \o (rest \o Tail(todo))
    <3>1. Tail(todo) \in Seq(Calls(Ids))
      <4>1. Calm \in SUBSET Calls(Ids)
        BY DEF Calm
      <4> QED BY <2>2, <4>1, SeqMonotonic, Zenon
    <3>2. <<one>> \in Seq(Calls(Ids))
      BY <1>6, Sequences, Zenon
    <3>3. todo' = (<<one>> \o rest) \o Tail(todo)
      BY <1>4, Zenon DEF Then
    <3> QED BY <1>7, <3>1, <3>2, <3>3, Regroup, Zenon
  <2>5. rest \o Tail(todo) \in Seq(Calls(Ids))
    <3>1. Tail(todo) \in Seq(Calls(Ids))
      <4>1. Calm \in SUBSET Calls(Ids)
        BY DEF Calm
      <4> QED BY <2>2, <4>1, SeqMonotonic, Zenon
    <3> QED BY <1>7, <3>1, ConcatProperties, Zenon
  <2>6. todo' # <<>> /\ Head(todo') = one /\ Tail(todo') = rest \o Tail(todo)
    BY <1>6, <2>4, <2>5, HeadTailOfConcat, Zenon
  <2>7. Healed(todo')
    <3>1. one.to \in Living
      BY <1>3, <1>5, <2>2
    <3> QED BY <1>5, <1>10, <2>3, <2>6, <3>1 DEF Healed
  <2>8. HealsTheLiving'
    BY <1>8, <2>7, LivingServed DEF Living, alive
  <2> QED BY <1>8, <2>8, Untouched, LifeStays
<1> QED BY <1>9, <1>10

(* The one call on top of a heal is about one of the living.                *)
LEMMA TopHeals ==
  ASSUME DeadInv, todo # <<>>, Healing(Call), Call.op # "targets"
  PROVE  Call.to \in Living /\ (Tail(todo) \in Seq(Calm) \/ Collected(Tail(todo)))
<1>1. todo \notin Seq(Calm)
  <2>1. todo \in Seq(Calm) => Call \in Calm
    BY HeadTailProperties DEF Call
  <2> QED BY <2>1 DEF Calm
<1>2. ~Collected(todo)
  BY DEF Collected, Call
<1> QED BY <1>1, <1>2 DEF DeadInv, HealsTheLiving, Healed, Call

LEMMA CreateServed ==
  ASSUME DeadInv, create
  PROVE  HealsTheLiving' /\ RaisesNobody /\ SameLines
<1> DEFINE call == [Call EXCEPT !.op = "apply"]
<1>1. Call \in LineCalls /\ todo # <<>> /\ Call.op = "create"
  BY CallIs DEF DeadInv, IInv, create, Running, Call
<1>2. Then(<<call>>) /\ life' = life /\ effects' = effects
  BY Zenon DEF create
<1>3. /\ call \in LineCalls /\ call.op = "apply" /\ call.to = Call.to
      /\ Healing(call) <=> Healing(Call)
  BY <1>1 DEF LineCalls, Healing
<1>4. call \in Calls(Ids)
  BY <1>3, Zenon DEF Calls
<1> HIDE DEF call
<1>5. CASE ~Healing(Call)
  <2>1. <<call>> \in Seq(Calm)
    BY <1>3, <1>4, <1>5, CalmOne
  <2>2. HealsTheLiving'
    BY <1>1, <1>2, <1>5, <2>1, CalmThen DEF DeadInv
  <2> QED BY <1>2, <2>2, Untouched, LifeStays
<1>6. CASE Healing(Call)
  <2>1. Call.to \in Living /\ (Tail(todo) \in Seq(Calm) \/ Collected(Tail(todo)))
    BY <1>1, <1>6, TopHeals
  <2>2. Tail(todo) \in Seq(Calls(DOMAIN effects)) /\ DOMAIN effects \subseteq Ids
    BY <1>1, HeadTailProperties DEF DeadInv, IInv, Calling, Arena
  <2>3. Tail(todo) \in Seq(Calls(Ids))
    BY <2>2, MoreIds, SeqMonotonic
  <2>4. todo' = <<call>> \o Tail(todo)
    BY <1>2, Zenon DEF Then
  <2>5. todo' # <<>> /\ Head(todo') = call /\ Tail(todo') = Tail(todo)
    BY <1>4, <2>3, <2>4, HeadTailOfConcat, Zenon
  <2>6. Healed(todo')
    BY <1>3, <1>6, <2>1, <2>5 DEF Healed
  <2>7. HealsTheLiving'
    BY <1>2, <2>6, LivingServed DEF Living, alive
  <2> QED BY <1>2, <2>7, Untouched, LifeStays
<1> QED BY <1>5, <1>6

LEMMA HealServed ==
  ASSUME DeadInv, apply_effect_heal
  PROVE  HealsTheLiving' /\ RaisesNobody /\ SameLines
<1>1. /\ Call \in LineCalls /\ Call.to \in Fighters /\ todo # <<>>
      /\ Call.op = "apply" /\ Call.line.effect = "heal"
  BY Applied DEF DeadInv, apply_effect_heal, Applying, Running, Call
<1>2. PICK n \in Amounts :
        IF Call.line.turns = 0 THEN add_life(Call.to, n) /\ Then(<<>>)
                               ELSE Then(<<Store(n)>>) /\ UNCHANGED life
  BY Zenon DEF apply_effect_heal
<1>3. n \in Nat
  BY BoundsAssumption DEF Amounts
<1>4. effects' = effects
  BY DEF apply_effect_heal
<1>5. CASE Call.line.turns # 0
  <2>1. ~Healing(Call) /\ Then(<<Store(n)>>) /\ life' = life
    BY <1>2, <1>5 DEF Healing
  <2>2. HealsTheLiving'
    BY <1>1, <1>3, <2>1, CalmStore, CalmThen, Zenon DEF DeadInv
  <2> QED BY <1>4, <2>1, <2>2, Untouched, LifeStays
<1>6. CASE Call.line.turns = 0
  <2>1. Call.to \in Living /\ (Tail(todo) \in Seq(Calm) \/ Collected(Tail(todo)))
    BY <1>1, <1>6, TopHeals DEF Healing
  <2>2. add_life(Call.to, n) /\ Then(<<>>)
    BY <1>2, <1>6
  <2>3. life \in [Fighters -> Int] /\ MaxLife \in Int /\ MaxLife > 0
    BY BoundsAssumption DEF DeadInv, IInv, Fighting
  <2>4. life'[Call.to] > 0
    <3>1. life[Call.to] > 0 /\ life[Call.to] \in Int
      BY <1>1, <2>1, <2>3 DEF Living, alive
    <3>2. life'[Call.to] = Least(life[Call.to] + n, MaxLife)
      BY <1>1, <2>2, <2>3 DEF add_life
    <3> QED BY <1>3, <2>3, <3>1, <3>2 DEF Least
  <2>5. \A g \in Fighters : g # Call.to => life'[g] = life[g]
    BY <2>2, <2>3 DEF add_life
  <2>6. Living \subseteq Living' /\ RaisesNobody
    BY <2>1, <2>4, <2>5 DEF Living, alive, RaisesNobody
  <2>7. todo' = Tail(todo)
    <3>1. Tail(todo) \in Seq(Calls(DOMAIN effects))
      BY <1>1, HeadTailProperties DEF DeadInv, IInv, Calling
    <3> QED BY <2>2, <3>1, ConcatEmptySeq DEF Then
  <2>8. HealsTheLiving'
    BY <2>1, <2>6, <2>7, LivingServed
  <2> QED BY <1>4, <2>6, <2>8, Untouched
<1> QED BY <1>5, <1>6
-----------------------------------------------------------------------------
(* Turns.                                                                   *)
LEMMA TickIsCalm ==
  ASSUME DeadInv, Running("tick")
  PROVE  /\ todo # <<>> /\ ~Healing(Call) /\ Call.f \in Fighters /\ life[Call.f] \in Int
         /\ Rest \in Seq(Calm)
         /\ Call.ids # {} => effects[First(Call.ids)] \in Effect
<1>1. todo # <<>> /\ Call.f \in Fighters /\ Call.ids \in SUBSET DOMAIN effects
      /\ (Call.ids # {} => effects[First(Call.ids)] \in Effect)
  BY TickIs DEF DeadInv
<1>2. ~Healing(Call)
  BY DEF Running, Call, Healing
<1>3. Call.ids \ {First(Call.ids)} \in SUBSET Ids
  BY <1>1 DEF DeadInv, IInv, Arena
<1>4. Rest \in Seq(Calm)
  BY <1>1, <1>3, CalmTick DEF Rest
<1> QED BY <1>1, <1>2, <1>4 DEF DeadInv, IInv, Fighting

LEMMA TickingCalm ==
  ASSUME DeadInv, tick_poison \/ tick_aftereffect
  PROVE  HealsTheLiving' /\ RaisesNobody /\ SameLines
<1>1. /\ todo # <<>> /\ ~Healing(Call) /\ Call.f \in Fighters /\ life[Call.f] \in Int
      /\ Rest \in Seq(Calm) /\ Ticked \in Effect /\ life[Call.f] > 0
  BY TickIsCalm DEF tick_poison, tick_aftereffect, Ticking, Ticked, alive
<1>2. Ticked.value \in Int
  BY <1>1 DEF Effect
<1>3. \E n \in Int :
        remove_life(Call.f, n, Ticked.caster, fire_passives({Call.f}) \o Rest)
  <2>1. Least(Ticked.value, life[Call.f]) \in Int /\ 0 \in Int
    BY <1>1, <1>2 DEF Least
  <2>2. CASE tick_poison
    BY <2>1, <2>2 DEF tick_poison
  <2>3. CASE tick_aftereffect
    BY <2>1, <2>3 DEF tick_aftereffect
  <2> QED BY <2>2, <2>3
<1>4. fire_passives({Call.f}) \o Rest \in Seq(Calm)
  BY <1>1, CalmPassives, Sequences, Zenon
<1>5. HealsTheLiving' /\ RaisesNobody
  BY <1>1, <1>3, <1>4, CalmBlow DEF DeadInv
<1>6. SameLines
  <2>1. CASE tick_poison
    BY <2>1, Untouched DEF tick_poison
  <2>2. CASE tick_aftereffect
    <3>1. \E n : effects' = [effects EXCEPT ![First(Call.ids)].value = n]
      BY <2>2, Zenon DEF tick_aftereffect
    <3>2. \A e \in DOMAIN effects : effects[e] \in Effect
      BY DEF DeadInv, IInv, Arena
    <3>3. \A n : \A r \in Effect : [r EXCEPT !.value = n].line = r.line
      BY DEF Effect
    <3> QED BY <3>1, <3>2, <3>3 DEF SameLines
  <2> QED BY <2>1, <2>2
<1> QED BY <1>5, <1>6

LEMMA TickHealCalm ==
  ASSUME DeadInv, tick_heal
  PROVE  HealsTheLiving' /\ RaisesNobody /\ SameLines
<1>1. /\ todo # <<>> /\ ~Healing(Call) /\ Call.f \in Fighters /\ Rest \in Seq(Calm)
      /\ life[Call.f] > 0
  BY TickIsCalm DEF tick_heal, Ticking, alive
<1>2. HealsTheLiving'
  BY <1>1, CalmThen DEF tick_heal, DeadInv
<1>3. \A g \in Fighters : g # Call.f => life'[g] = life[g]
  BY DEF tick_heal, add_life, DeadInv, IInv, Fighting
<1>4. RaisesNobody
  BY <1>1, <1>3 DEF RaisesNobody
<1> QED BY <1>2, <1>4, Untouched DEF tick_heal

LEMMA AgingCalm ==
  ASSUME DeadInv, tick_other \/ dies_ticking \/ expire
  PROVE  HealsTheLiving' /\ RaisesNobody /\ SameLines
<1>1. todo # <<>> /\ ~Healing(Call) /\ Rest \in Seq(Calm)
  BY TickIsCalm DEF tick_other, dies_ticking, expire, Ticking
<1>2. life' = life /\ (Then(Rest) \/ Then(<<>>))
  BY DEF tick_other, dies_ticking, expire
<1>3. HealsTheLiving' /\ RaisesNobody
  BY <1>1, <1>2, CalmThen, CalmAgain, LifeStays DEF DeadInv
<1>4. SameLines
  <2>1. CASE tick_other \/ dies_ticking
    BY <2>1, Untouched DEF tick_other, dies_ticking
  <2>2. CASE expire
    <3>1. effects' = [e \in DOMAIN effects |->
                        IF e \in launched[Call.f] THEN Aged(effects[e]) ELSE effects[e]]
      BY <2>2, Zenon DEF expire
    <3>2. \A r \in Effect : Aged(r).line = r.line
      BY DEF Aged, Effect
    <3>3. \A e \in DOMAIN effects : effects[e] \in Effect
      BY DEF DeadInv, IInv, Arena
    <3> QED BY <3>1, <3>2, <3>3 DEF SameLines
  <2> QED BY <2>1, <2>2
<1> QED BY <1>3, <1>4
LEMMA PropagateCalm ==
  ASSUME DeadInv, propagate_effects
  PROVE  HealsTheLiving' /\ RaisesNobody /\ SameLines
<1> DEFINE e == First(Call.ids)
<1>1. Call \in SpreadCalls(DOMAIN effects) /\ todo # <<>> /\ ~Healing(Call)
  BY CallIs DEF DeadInv, IInv, propagate_effects, Running, Call, Healing
<1>2. Call.f \in Fighters /\ Call.ids \in SUBSET DOMAIN effects /\ Call.ids # {}
  BY <1>1 DEF SpreadCalls, Some
<1>3. e \in Ids /\ Call.ids \ {e} \in SUBSET Ids
  BY <1>2, FirstId DEF DeadInv, IInv, Arena
<1>4. PICK around \in SUBSET (Living \ {Call.f}) :
        Then(infect(e, around) \o spread(Call.f, Call.ids \ {e}))
  BY Zenon DEF propagate_effects
<1> HIDE DEF e
<1>5. infect(e, around) \in Seq(Calm)
  <2>1. infect(e, around) \in Seq(Calls(Ids))
    BY <1>3, InfectGoesOn DEF Living
  <2>2. ~Healing([op |-> "infect", ei |-> e, who |-> around])
    BY DEF Healing
  <2> QED BY <2>1, <2>2, CalmSome, Zenon DEF infect
<1>6. spread(Call.f, Call.ids \ {e}) \in Seq(Calm)
  <2>1. spread(Call.f, Call.ids \ {e}) \in Seq(Calls(Ids))
    BY <1>2, <1>3, SpreadGoesOn
  <2>2. ~Healing([op |-> "spread", f |-> Call.f, ids |-> Call.ids \ {e}])
    BY DEF Healing
  <2> QED BY <2>1, <2>2, CalmSome, Zenon DEF spread
<1>7. infect(e, around) \o spread(Call.f, Call.ids \ {e}) \in Seq(Calm)
  BY <1>5, <1>6, Sequences, Zenon
<1>8. HealsTheLiving'
  BY <1>1, <1>4, <1>7, CalmThen, Zenon DEF DeadInv
<1> QED BY <1>8, Untouched, LifeStays DEF propagate_effects

(* What spreads is what was stored, and has turns.                          *)
LEMMA InfectCalm ==
  ASSUME DeadInv, infect_next
  PROVE  HealsTheLiving' /\ RaisesNobody /\ SameLines
<1> DEFINE f == First(Call.who)
           e == effects[Call.ei]
           line == SpreadLine(e.line)
           one == IF "not_replaceable" \in e.line.propagation /\ has_effect(f, e.item) THEN <<>>
                  ELSE <<create_effect(line, e.item, e.caster, f)>>
<1>1. Call \in InfectCalls(DOMAIN effects) /\ todo # <<>> /\ ~Healing(Call)
  BY CallIs DEF DeadInv, IInv, infect_next, Running, Call, Healing
<1>2. Call.ei \in DOMAIN effects /\ Call.who \in SUBSET Fighters /\ Call.who # {}
  BY <1>1 DEF InfectCalls, Some
<1>3. f \in Fighters /\ Call.ei \in Ids
  BY <1>2, FirstFighter DEF DeadInv, IInv, Arena
<1>4. line \in EffectParams /\ e.item \in Origins /\ e.caster \in Fighters /\ line.turns # 0
  BY <1>2, SpreadLineIsOne DEF DeadInv, IInv, Arena, Effect, Lasting
<1>5. Then(one \o infect(Call.ei, Call.who \ {f}))
  BY Zenon DEF infect_next
<1> HIDE DEF f, e, line
<1>6. <<create_effect(line, e.item, e.caster, f)>> \in Seq(Calm)
  BY <1>3, <1>4, CalmCreate
<1>7. one \in Seq(Calm)
  BY <1>6, Sequences, Zenon
<1> HIDE DEF one
<1>8. infect(Call.ei, Call.who \ {f}) \in Seq(Calm)
  <2>1. infect(Call.ei, Call.who \ {f}) \in Seq(Calls(Ids))
    BY <1>2, <1>3, InfectGoesOn
  <2>2. ~Healing([op |-> "infect", ei |-> Call.ei, who |-> Call.who \ {f}])
    BY DEF Healing
  <2> QED BY <2>1, <2>2, CalmSome, Zenon DEF infect
<1>9. one \o infect(Call.ei, Call.who \ {f}) \in Seq(Calm)
  BY <1>7, <1>8, Sequences, Zenon
<1>10. HealsTheLiving'
  BY <1>1, <1>5, <1>9, CalmThen, Zenon DEF DeadInv
<1> QED BY <1>10, Untouched, LifeStays DEF infect_next
-----------------------------------------------------------------------------
(* Between calls.                                                           *)
LEMMA CalmStart ==
  ASSUME todo' \in Seq(Calm)
  PROVE  HealsTheLiving'
<1>1. Calm' = Calm
  BY DEF Calm, Healing
<1> QED BY <1>1, Zenon DEF HealsTheLiving

LEMMA StartTurnCalm ==
  ASSUME DeadInv, NEW f \in Fighters, start_turn(f)
  PROVE  todo = <<>> /\ HealsTheLiving' /\ SameLines
<1>1. todo = <<>> /\ todo' = <<tick(f, suffered[f])>>
  BY DEF start_turn
<1>2. suffered[f] \in SUBSET Ids
  BY DEF DeadInv, IInv, Arena, Agree
<1>3. HealsTheLiving'
  BY <1>1, <1>2, CalmTick, CalmStart
<1>4. UNION { suffered[g] \cup launched[g] : g \in Fighters } \subseteq DOMAIN effects
  BY DEF DeadInv, IInv, Agree
<1>5. effects' = [e \in UNION { suffered[g] \cup launched[g] : g \in Fighters } |-> effects[e]]
  BY DEF start_turn
<1>6. SameLines
  BY <1>4, <1>5 DEF SameLines
<1> QED BY <1>1, <1>3, <1>6

LEMMA AppearsCalm ==
  ASSUME DeadInv, NEW f \in Fighters, summon(f) \/ resurrect(f)
  PROVE  todo = <<>> /\ HealsTheLiving' /\ SameLines
<1>1. todo = <<>> /\ Appears(f)
  BY DEF summon, resurrect, Acts
<1> DEFINE pinned == [n \in 1 .. Pins[f] |-> SummonState]
<1>2. effects' = effects /\ todo' = lines(f, "innate", pinned, {f})
  BY <1>1, Zenon DEF Appears
<1>3. "innate" \in Origins /\ pinned \in Seq(EffectParams) /\ {f} \in SUBSET Fighters
  BY PinnedAre DEF Origins
<1> HIDE DEF pinned
<1>4. HealsTheLiving'
  BY <1>2, <1>3, CalmLines, CalmStart
<1> QED BY <1>1, <1>2, <1>4, Untouched

LEMMA UseCalm ==
  ASSUME DeadInv, NEW item \in DOMAIN Items, NEW area \in Areas, use_item(item, area)
  PROVE  todo = <<>> /\ HealsTheLiving' /\ SameLines
<1>1. actor \in Fighters /\ item \in Origins /\ Items[item] \in Seq(EffectParams)
      /\ area \cap Living \in SUBSET Fighters
  BY CatalogAssumption DEF use_item, Acts, DeadInv, IInv, Fighting, Origins, Living
<1>2. todo' = lines(actor, item, Items[item], area \cap Living)
  BY DEF use_item
<1>3. HealsTheLiving'
  BY <1>1, <1>2, CalmLines, CalmStart
<1> QED BY <1>3, Untouched DEF use_item, Acts

LEMMA EndTurnCalm ==
  ASSUME DeadInv, end_entity_turn
  PROVE  todo = <<>> /\ HealsTheLiving' /\ SameLines
<1> DEFINE ids == { e \in suffered[actor] : effects[e].line.propagates }
<1>1. actor \in Fighters /\ todo = <<>> /\ effects' = effects
  BY DEF end_entity_turn, DeadInv, IInv, Fighting
<1>2. ids \in SUBSET Ids
  BY <1>1 DEF DeadInv, IInv, Agree, Arena
<1>3. todo' = IF alive(actor) THEN spread(actor, ids) ELSE <<>>
  BY Zenon DEF end_entity_turn
<1> HIDE DEF ids
<1>4. spread(actor, ids) \in Seq(Calls(Ids))
  BY <1>1, <1>2, SpreadGoesOn
<1>5. ~Healing([op |-> "spread", f |-> actor, ids |-> ids])
  BY DEF Healing
<1>6. spread(actor, ids) \in Seq(Calm)
  BY <1>4, <1>5, CalmSome, Zenon DEF spread
<1>7. todo' \in Seq(Calm)
  BY <1>3, <1>6, Sequences, Zenon
<1> QED BY <1>1, <1>7, CalmStart, Untouched
-----------------------------------------------------------------------------
LEMMA DeadInitially == Init => DeadInv
<1> SUFFICES ASSUME Init PROVE DeadInv
  OBVIOUS
<1>1. todo \in Seq(Calm) /\ Lasting
  BY Sequences DEF Init, Lasting
<1> QED BY <1>1, Initially DEF DeadInv, HealsTheLiving

LEMMA DeadStep ==
  ASSUME DeadInv, [Next]_vars
  PROVE  HealsTheLiving' /\ Lasting' /\ (RaisesNobody \/ todo = <<>>)
<1>1. CASE UNCHANGED vars \/ finished
  <2>1. UNCHANGED <<life, effects, todo>>
    BY <1>1 DEF vars, finished
  <2>2. HealsTheLiving'
    BY <2>1, LivingServed DEF DeadInv, HealsTheLiving, Living, alive
  <2> QED BY <2>1, <2>2, Untouched, LifeStays, LinesLast DEF DeadInv
<1>2. CASE store_merged \/ store_new \/ store_nothing
  BY <1>2, StoreLasts
<1>3. ASSUME HealsTheLiving', SameLines, RaisesNobody \/ todo = <<>>
      PROVE  HealsTheLiving' /\ Lasting' /\ (RaisesNobody \/ todo = <<>>)
  BY <1>3, LinesLast DEF DeadInv
<1>4. CASE create \/ apply_damage \/ apply_effect_poison \/ apply_effect_heal
  BY <1>3, <1>4, CreateServed, DamageCalm, StoringCalm, HealServed, Zenon
<1>5. CASE apply_aftereffect \/ apply_effect_stat_carrier \/ apply_add_state
  BY <1>3, <1>5, AftereffectCalm, StoringCalm, Zenon
<1>6. CASE reduce_effects \/ clear_poisons \/ life_steal \/ return_damage
  BY <1>3, <1>6, CuringCalm, StealCalm, ReturnCalm, Zenon
<1>7. CASE activate_passive \/ dies \/ next_line \/ next_target
  BY <1>3, <1>7, PassivesCalm, DiesCalm, LineCollects, TargetServed, Zenon
<1>8. ASSUME NEW f \in Fighters, start_turn(f) \/ summon(f) \/ resurrect(f)
      PROVE  HealsTheLiving' /\ Lasting' /\ (RaisesNobody \/ todo = <<>>)
  BY <1>3, <1>8, StartTurnCalm, AppearsCalm, Zenon
<1>9. ASSUME NEW item \in DOMAIN Items, NEW area \in Areas, use_item(item, area)
      PROVE  HealsTheLiving' /\ Lasting' /\ (RaisesNobody \/ todo = <<>>)
  BY <1>3, <1>9, UseCalm, Zenon
<1>10. CASE tick_poison \/ tick_heal \/ tick_aftereffect \/ tick_other \/ dies_ticking \/ expire
  BY <1>3, <1>10, TickingCalm, TickHealCalm, AgingCalm, Zenon
<1>11. CASE end_entity_turn \/ propagate_effects \/ infect_next
  BY <1>3, <1>11, EndTurnCalm, PropagateCalm, InfectCalm, Zenon
<1> QED
  BY <1>1, <1>2, <1>4, <1>5, <1>6, <1>7, <1>8, <1>9, <1>10, <1>11, Zenon DEF Next

(* The dead stay dead until a resurrection, in every fight.                 *)
THEOREM TheDeadAlwaysStayDead == Spec => DeadStayDead
<1> DEFINE Stay == \A f \in Fighters : f \in entered /\ ~alive(f) /\ life'[f] > 0 => todo = <<>>
<1>1. DeadInv /\ [Next]_vars => DeadInv'
  BY DeadStep, Step DEF DeadInv
<1>2. DeadInv /\ [Next]_vars => [Stay]_vars
  BY DeadStep DEF RaisesNobody, alive
<1>3. DeadStayDead <=> [][Stay]_vars
  BY DEF DeadStayDead
<1> HIDE DEF Stay
<1> QED BY <1>1, <1>2, <1>3, DeadInitially, PTL DEF Spec
-----------------------------------------------------------------------------
(***************************************************************************)
(* What the dead have launched.  Between the blow that kills a fighter and *)
(* its die call, which drops what it has launched, other calls run; none   *)
(* of them stores an effect in its name, because whatever is on its way to *)
(* be stored waits on top of the stack, under calls that hurt nobody, and  *)
(* was called for one of the living.                                       *)
(***************************************************************************)
(* What may be stored, but for an aftereffect, and the calls that may lead  *)
(* there.                                                                   *)
Storable == Carriers \cup {"poison", "heal", "add_state"}
LineOps == {"create", "apply", "store", "targets"}

Storing(c) ==
  \/ c.op \in LineOps /\ c.line.effect \in Storable
  \/ c.op \in {"spread", "infect"}

(* They are made for the living, those that spread an effect for whom cast  *)
(* it.                                                                      *)
Spreads(e) ==
  e \in DOMAIN effects /\ effects[e].line.effect \in Storable /\ effects[e].caster \in Living

Backed(c) ==
  \/ c.op \in LineOps /\ c.line.effect \in Storable /\ c.by \in Living
  \/ c.op = "infect" /\ Spreads(c.ei)
  \/ c.op = "spread" /\ \A e \in c.ids : Spreads(e)

Gentle == { c \in Calls(Ids) : Backed(c) }

Rough == { c \in Calls(Ids) : ~Storing(c) /\ (c.op = "store" => c.line.effect = "aftereffect") }

(* Gentle calls stand above the others.                                     *)
Stacked(s) == \E a \in Seq(Gentle), b \in Seq(Rough) : s = a \o b

Stocked == \A e \in DOMAIN effects : effects[e].line.effect \in Storable \cup {"aftereffect"}

(* The dead have launched nothing but aftereffects, or their die call is to *)
(* come.                                                                    *)
Awaits(s, f) == \E k \in DOMAIN s : s[k].op = "die" /\ f \in s[k].who

Mourned ==
  \A f \in Fighters : \A e \in launched[f] :
    f \in Living \/ effects[e].line.effect = "aftereffect" \/ Awaits(todo, f)

Mourning == Stacked(todo) /\ Stocked /\ Mourned

MournInv == DeadInv /\ Mourning
-----------------------------------------------------------------------------
(* Gentle and rough calls.                                                  *)
LEMMA BackedStores == \A c : Backed(c) => Storing(c)
BY DEF Backed, Storing

LEMMA RoughOne ==
  ASSUME NEW c, c \in Calls(Ids), ~Storing(c), c.op = "store" => c.line.effect = "aftereffect"
  PROVE  c \in Rough /\ <<c>> \in Seq(Rough)
<1>1. c \in Rough
  BY Zenon DEF Rough
<1> QED BY <1>1, Sequences, Zenon

LEMMA GentleOne ==
  ASSUME NEW c, c \in Calls(Ids), Backed(c)
  PROVE  c \in Gentle /\ <<c>> \in Seq(Gentle)
<1>1. c \in Gentle
  BY Zenon DEF Gentle
<1> QED BY <1>1, Sequences, Zenon

LEMMA OneOf ==
  ASSUME NEW S, NEW left, NEW call, While(left, call) \in Seq(S), left # {}
  PROVE  call \in S
<1>1. <<call>> \in Seq(S)
  BY DEF While
<1> QED BY <1>1

LEMMA RoughPassives ==
  ASSUME NEW who
  PROVE  fire_passives(who) \in Seq(Rough)
<1> DEFINE call == [op |-> "passives", who |-> who \cap Armed]
<1>1. While(who \cap Armed, call) \in Seq(Calls(Ids))
  BY PassivesCalls, Zenon DEF fire_passives
<1>2. ~Storing(call) /\ call.op # "store"
  BY DEF Storing, LineOps
<1> HIDE DEF call
<1>3. who \cap Armed # {} => call \in Rough
  BY <1>1, <1>2, OneOf, RoughOne, Zenon
<1> QED BY <1>3, WhileCalls, Zenon DEF fire_passives, call

LEMMA RoughDie ==
  ASSUME NEW who \in SUBSET Fighters
  PROVE  die(who) \in Seq(Rough)
<1> DEFINE call == [op |-> "die", who |-> who]
<1>1. While(who, call) \in Seq(Calls(Ids))
  BY DieCalls, Zenon DEF die
<1>2. ~Storing(call) /\ call.op # "store"
  BY DEF Storing, LineOps
<1> HIDE DEF call
<1>3. who # {} => call \in Rough
  BY <1>1, <1>2, OneOf, RoughOne, Zenon
<1> QED BY <1>3, WhileCalls, Zenon DEF die, call

LEMMA RoughLines ==
  ASSUME NEW by \in Fighters, NEW item \in Origins, NEW rest \in Seq(EffectParams),
         NEW area \in SUBSET Fighters
  PROVE  lines(by, item, rest, area) \in Seq(Rough)
<1> DEFINE call == [op |-> "lines", by |-> by, item |-> item, rest |-> rest, area |-> area]
           left == { i \in DOMAIN rest : TRUE }
<1>1. While(left, call) \in Seq(Calls(Ids))
  BY LinesGoOn, Zenon DEF lines
<1>2. ~Storing(call) /\ call.op # "store"
  BY DEF Storing, LineOps
<1> HIDE DEF call
<1>3. left # {} => call \in Rough
  BY <1>1, <1>2, OneOf, RoughOne, Zenon
<1> QED BY <1>3, WhileCalls, Zenon DEF lines, call

LEMMA RoughTick ==
  ASSUME NEW f \in Fighters, NEW ids \in SUBSET Ids
  PROVE  <<tick(f, ids)>> \in Seq(Rough)
<1>1. <<tick(f, ids)>> \in Seq(Calls(Ids))
  BY TickCall
<1>2. tick(f, ids) \in Calls(Ids)
  BY <1>1
<1>3. ~Storing(tick(f, ids)) /\ tick(f, ids).op # "store"
  BY DEF Storing, LineOps, tick
<1> QED BY <1>2, <1>3, RoughOne, Zenon

(* A line over its targets, and the creation of one effect of it, are one   *)
(* or the other.                                                            *)
LEMMA CreateIs ==
  ASSUME NEW line \in EffectParams, NEW item \in Origins, NEW by \in Fighters,
         NEW to \in Fighters
  PROVE  /\ line.effect \in Storable /\ by \in Living =>
              <<create_effect(line, item, by, to)>> \in Seq(Gentle)
         /\ line.effect \notin Storable => <<create_effect(line, item, by, to)>> \in Seq(Rough)
<1> DEFINE call == create_effect(line, item, by, to)
<1>1. <<call>> \in Seq(Calls(Ids))
  BY CreateCall
<1>2. call \in Calls(Ids)
  BY <1>1
<1>3. /\ line.effect \in Storable /\ by \in Living => Backed(call)
      /\ line.effect \notin Storable => ~Storing(call)
      /\ call.op # "store"
  BY DEF create_effect, Backed, Storing, LineOps
<1> HIDE DEF call
<1> QED BY <1>2, <1>3, GentleOne, RoughOne, Zenon DEF call

LEMMA TargetsAre ==
  ASSUME NEW line \in EffectParams, NEW item \in Origins, NEW by \in Fighters,
         NEW who \in SUBSET Fighters
  PROVE  /\ line.effect \in Storable /\ (who # {} => by \in Living) =>
              over_targets(line, item, by, who) \in Seq(Gentle)
         /\ line.effect \notin Storable => over_targets(line, item, by, who) \in Seq(Rough)
<1> DEFINE call == [op |-> "targets", line |-> line, item |-> item, by |-> by, who |-> who]
<1>1. While(who, call) \in Seq(Calls(Ids))
  BY OverTargets, Zenon DEF over_targets
<1>2. /\ line.effect \in Storable /\ by \in Living => Backed(call)
      /\ line.effect \notin Storable => ~Storing(call)
      /\ call.op # "store"
  BY DEF Backed, Storing, LineOps
<1> HIDE DEF call
<1>3. who # {} => call \in Calls(Ids)
  BY <1>1, OneOf, Zenon
<1>4. line.effect \in Storable /\ (who # {} => by \in Living) => While(who, call) \in Seq(Gentle)
  BY <1>2, <1>3, GentleOne, WhileCalls, Zenon
<1>5. line.effect \notin Storable => While(who, call) \in Seq(Rough)
  BY <1>2, <1>3, RoughOne, WhileCalls, Zenon
<1> QED BY <1>4, <1>5, Zenon DEF over_targets, call

LEMMA StoreIsOne ==
  ASSUME Call \in LineCalls, NEW n \in Nat
  PROVE  /\ Call.line.effect \in Storable /\ Call.by \in Living => <<Store(n)>> \in Seq(Gentle)
         /\ Call.line.effect = "aftereffect" => <<Store(n)>> \in Seq(Rough)
<1>1. Store(n) \in StoreCalls /\ Store(n).op = "store"
      /\ Store(n).line = Call.line /\ Store(n).by = Call.by
  BY DEF Store, StoreCalls, LineCalls
<1>2. Store(n) \in Calls(Ids)
  BY <1>1, Zenon DEF Calls
<1>3. "aftereffect" \notin Storable
  BY DEF Storable, Carriers
<1>4. /\ Call.line.effect \in Storable /\ Call.by \in Living => Backed(Store(n))
      /\ Call.line.effect = "aftereffect" => ~Storing(Store(n))
  BY <1>1, <1>3 DEF Backed, Storing, LineOps
<1> QED BY <1>1, <1>2, <1>4, GentleOne, RoughOne, Zenon

LEMMA SpreadGentle ==
  ASSUME NEW f \in Fighters, NEW ids \in SUBSET Ids, \A e \in ids : Spreads(e)
  PROVE  spread(f, ids) \in Seq(Gentle)
<1> DEFINE call == [op |-> "spread", f |-> f, ids |-> ids]
<1>1. While(ids, call) \in Seq(Calls(Ids))
  BY SpreadGoesOn, Zenon DEF spread
<1>2. Backed(call)
  BY DEF Backed
<1> HIDE DEF call
<1>3. ids # {} => call \in Gentle
  BY <1>1, <1>2, OneOf, GentleOne, Zenon
<1> QED BY <1>3, WhileCalls, Zenon DEF spread, call

LEMMA InfectGentle ==
  ASSUME NEW ei \in Ids, NEW who \in SUBSET Fighters, Spreads(ei)
  PROVE  infect(ei, who) \in Seq(Gentle)
<1> DEFINE call == [op |-> "infect", ei |-> ei, who |-> who]
<1>1. While(who, call) \in Seq(Calls(Ids))
  BY InfectGoesOn, Zenon DEF infect
<1>2. Backed(call)
  BY DEF Backed
<1> HIDE DEF call
<1>3. who # {} => call \in Gentle
  BY <1>1, <1>2, OneOf, GentleOne, Zenon
<1> QED BY <1>3, WhileCalls, Zenon DEF infect, call
-----------------------------------------------------------------------------
(* Gentle calls above rough ones.                                           *)
LEMMA GentleAndRough ==
  ASSUME NEW s, Stacked(s)
  PROVE  s \in Seq(Calls(Ids))
<1>1. PICK a \in Seq(Gentle), b \in Seq(Rough) : s = a \o b
  BY Zenon DEF Stacked
<1>2. Gentle \in SUBSET Calls(Ids) /\ Rough \in SUBSET Calls(Ids)
  BY DEF Gentle, Rough
<1>3. a \in Seq(Calls(Ids)) /\ b \in Seq(Calls(Ids))
  BY <1>2, SeqMonotonic, Zenon
<1> QED BY <1>1, <1>3, Sequences, Zenon

LEMMA HeadTailOfAppend ==
  ASSUME NEW S, NEW a \in Seq(S), NEW b \in Seq(S), a # <<>>
  PROVE  Head(a \o b) = Head(a) /\ Tail(a \o b) = Tail(a) \o b
<1>1. Head(a) \in S /\ Tail(a) \in Seq(S)
  BY HeadTailProperties
<1>2. a = <<Head(a)>> \o Tail(a)
  BY <1>1
<1>3. <<Head(a)>> \in Seq(S)
  BY <1>1
<1>4. a \o b = <<Head(a)>> \o (Tail(a) \o b)
  BY <1>1, <1>2, <1>3, ConcatAssociative
<1>5. Tail(a) \o b \in Seq(S)
  BY <1>1, ConcatProperties
<1> QED BY <1>1, <1>4, <1>5, HeadTailOfConcat

(* What is under the call on top.                                           *)
LEMMA Under ==
  ASSUME todo # <<>>, Stacked(todo)
  PROVE  \/ Call \in Rough /\ Tail(todo) \in Seq(Rough)
         \/ Call \in Gentle /\ Stacked(Tail(todo))
<1>1. PICK a \in Seq(Gentle), b \in Seq(Rough) : todo = a \o b
  BY Zenon DEF Stacked
<1>2. CASE a = <<>>
  <2>1. todo = b
    BY <1>1, <1>2, ConcatEmptySeq
  <2> QED BY <2>1, HeadTailProperties DEF Call
<1>3. CASE a # <<>>
  <2>1. Gentle \in SUBSET Calls(Ids) /\ Rough \in SUBSET Calls(Ids)
    BY DEF Gentle, Rough
  <2>2. a \in Seq(Calls(Ids)) /\ b \in Seq(Calls(Ids))
    BY <2>1, SeqMonotonic, Zenon
  <2>3. Head(todo) = Head(a) /\ Tail(todo) = Tail(a) \o b
    BY <1>1, <1>3, <2>2, HeadTailOfAppend, Zenon
  <2>4. Head(a) \in Gentle /\ Tail(a) \in Seq(Gentle)
    BY <1>3, HeadTailProperties
  <2>5. Stacked(Tail(todo))
    BY <2>3, <2>4, Zenon DEF Stacked
  <2> QED BY <2>3, <2>4, <2>5 DEF Call
<1> QED BY <1>2, <1>3

LEMMA UnderRough ==
  ASSUME todo # <<>>, Stacked(todo), ~Storing(Call)
  PROVE  Call \in Rough /\ Tail(todo) \in Seq(Rough)
<1>1. Call \notin Gentle
  BY BackedStores DEF Gentle
<1> QED BY <1>1, Under

LEMMA OnTopGentle ==
  ASSUME todo # <<>>, Stacked(todo), Storing(Call)
  PROVE  Backed(Call) /\ Stacked(Tail(todo))
<1>1. Call \notin Rough
  BY DEF Rough
<1> QED BY <1>1, Under DEF Gentle

(* A rough call gives way to gentle calls above rough ones.                 *)
LEMMA MixedThen ==
  ASSUME todo # <<>>, Stacked(todo), ~Storing(Call),
         NEW a \in Seq(Gentle'), NEW b \in Seq(Rough), Then(a \o b)
  PROVE  Stacked(todo)'
<1>1. Tail(todo) \in Seq(Rough)
  BY UnderRough
<1>2. Gentle' \in SUBSET Calls(Ids) /\ Rough \in SUBSET Calls(Ids)
  BY DEF Gentle, Rough, Calls, LineCalls, StoreCalls, CrowdCalls, StealCalls, ReturnCalls,
         TargetsCalls, LinesCalls, TickCalls, SpreadCalls, InfectCalls
<1>3. a \in Seq(Calls(Ids)) /\ b \in Seq(Calls(Ids)) /\ Tail(todo) \in Seq(Calls(Ids))
  BY <1>1, <1>2, SeqMonotonic, Zenon
<1>4. todo' = a \o (b \o Tail(todo))
  <2>1. todo' = (a \o b) \o Tail(todo)
    BY Zenon DEF Then
  <2> QED BY <1>3, <2>1, Regroup, Zenon
<1>5. b \o Tail(todo) \in Seq(Rough)
  BY <1>1, Sequences, Zenon
<1>6. \E x \in Seq(Gentle'), y \in Seq(Rough) : todo' = x \o y
  BY <1>4, <1>5, Zenon
<1>7. Rough' = Rough
  BY DEF Rough, Storing
<1> QED BY <1>6, <1>7, Zenon DEF Stacked

LEMMA RoughThen ==
  ASSUME todo # <<>>, Stacked(todo), ~Storing(Call), NEW b \in Seq(Rough), Then(b)
  PROVE  Stacked(todo)'
<1>1. <<>> \in Seq(Gentle') /\ <<>> \o b = b
  BY ConcatEmptySeq
<1> QED BY <1>1, MixedThen, Zenon

(* Any call may give way to gentle ones, when those under it stay so.       *)
LEMMA GentleThen ==
  ASSUME todo # <<>>, Stacked(todo), Gentle \subseteq Gentle', NEW calls \in Seq(Gentle'),
         Then(calls)
  PROVE  Stacked(todo)'
<1>1. Stacked(Tail(todo))
  <2>1. CASE Tail(todo) \in Seq(Rough)
    <3>1. <<>> \in Seq(Gentle) /\ <<>> \o Tail(todo) = Tail(todo)
      BY <2>1, ConcatEmptySeq
    <3> QED BY <2>1, <3>1, Zenon DEF Stacked
  <2> QED BY <2>1, Under
<1>2. PICK a \in Seq(Gentle), b \in Seq(Rough) : Tail(todo) = a \o b
  BY <1>1, Zenon DEF Stacked
<1>3. a \in Seq(Gentle')
  BY SeqMonotonic, Zenon
<1>4. Gentle' \in SUBSET Calls(Ids) /\ Rough \in SUBSET Calls(Ids)
  BY DEF Gentle, Rough, Calls, LineCalls, StoreCalls, CrowdCalls, StealCalls, ReturnCalls,
         TargetsCalls, LinesCalls, TickCalls, SpreadCalls, InfectCalls
<1>5. a \in Seq(Calls(Ids)) /\ b \in Seq(Calls(Ids)) /\ calls \in Seq(Calls(Ids))
  BY <1>3, <1>4, SeqMonotonic, Zenon
<1>6. todo' = (calls \o a) \o b
  <2>1. todo' = calls \o (a \o b)
    BY <1>2, Zenon DEF Then
  <2> QED BY <1>5, <2>1, Regroup, Zenon
<1>7. calls \o a \in Seq(Gentle')
  BY <1>3, Sequences, Zenon
<1>8. \E x \in Seq(Gentle'), y \in Seq(Rough) : todo' = x \o y
  BY <1>6, <1>7, Zenon
<1>9. Rough' = Rough
  BY DEF Rough, Storing
<1> QED BY <1>8, <1>9, Zenon DEF Stacked

(* Those under it stay so when nobody dies and effects keep their lines and *)
(* their casters.                                                           *)
Kept ==
  /\ Living \subseteq Living' /\ DOMAIN effects \subseteq DOMAIN effects'
  /\ \A e \in DOMAIN effects : /\ effects'[e].line = effects[e].line
                               /\ effects'[e].caster = effects[e].caster

LEMMA StillGentle ==
  ASSUME Kept
  PROVE  Gentle \subseteq Gentle'
<1>1. \A e : Spreads(e) => Spreads(e)'
  BY DEF Kept, Spreads
<1>2. \A c : Backed(c) => Backed(c)'
  BY <1>1 DEF Backed, Kept
<1>3. Calls(Ids)' = Calls(Ids)
  BY DEF Calls, LineCalls, StoreCalls, CrowdCalls, StealCalls, ReturnCalls,
         TargetsCalls, LinesCalls, TickCalls, SpreadCalls, InfectCalls
<1> QED BY <1>2, <1>3 DEF Gentle

LEMMA NothingMoves ==
  ASSUME life' = life, effects' = effects
  PROVE  Kept /\ Gentle' = Gentle
<1>1. Kept
  BY DEF Kept, Living, alive
<1>2. Calls(Ids)' = Calls(Ids)
  BY DEF Calls, LineCalls, StoreCalls, CrowdCalls, StealCalls, ReturnCalls,
         TargetsCalls, LinesCalls, TickCalls, SpreadCalls, InfectCalls
<1>3. \A c : Backed(c)' <=> Backed(c)
  BY DEF Backed, Spreads, Living, alive
<1> QED BY <1>1, <1>2, <1>3, Zenon DEF Gentle
-----------------------------------------------------------------------------
(* Die calls to come.                                                       *)
LEMMA AwaitsEither ==
  ASSUME NEW S, NEW s \in Seq(S), NEW t \in Seq(S), NEW f, Awaits(s, f) \/ Awaits(t, f)
  PROVE  Awaits(s \o t, f)
<1>1. CASE Awaits(s, f)
  <2>1. PICK k \in DOMAIN s : s[k].op = "die" /\ f \in s[k].who
    BY <1>1, Zenon DEF Awaits
  <2>2. k \in DOMAIN (s \o t) /\ (s \o t)[k] = s[k]
    BY ConcatProperties, LenProperties
  <2> QED BY <2>1, <2>2, Zenon DEF Awaits
<1>2. CASE Awaits(t, f)
  <2>1. PICK k \in DOMAIN t : t[k].op = "die" /\ f \in t[k].who
    BY <1>2, Zenon DEF Awaits
  <2>2. Len(s) + k \in DOMAIN (s \o t) /\ (s \o t)[Len(s) + k] = t[k]
    BY ConcatProperties, LenProperties
  <2> QED BY <2>1, <2>2, Zenon DEF Awaits
<1> QED BY <1>1, <1>2

LEMMA AwaitsUnder ==
  ASSUME NEW S, NEW s \in Seq(S), s # <<>>, NEW f, Awaits(s, f)
  PROVE  Awaits(Tail(s), f) \/ (Head(s).op = "die" /\ f \in Head(s).who)
<1>1. PICK k \in DOMAIN s : s[k].op = "die" /\ f \in s[k].who
  BY Zenon DEF Awaits
<1>2. CASE k = 1
  BY <1>1, <1>2
<1>3. CASE k # 1
  <2>1. k - 1 \in DOMAIN Tail(s) /\ Tail(s)[k - 1] = s[k]
    BY <1>3
  <2> QED BY <1>1, <2>1, Zenon DEF Awaits
<1> QED BY <1>2, <1>3

(* What a fighter has launched is an aftereffect, or it was launched        *)
(* before, and if its caster falls its die call is among those made.        *)
Accounted(calls) ==
  \A f \in Fighters : \A e \in launched'[f] :
    \/ f \in Living' \/ effects'[e].line.effect = "aftereffect"
    \/ /\ e \in launched[f] /\ effects'[e].line = effects[e].line
       /\ f \in Living => Awaits(calls, f)
       /\ Call.op = "die" /\ f \in Call.who => Awaits(calls, f)

LEMMA MournThen ==
  ASSUME todo # <<>>, todo \in Seq(Calls(Ids)), Mourned,
         NEW calls \in Seq(Calls(Ids)), Then(calls), Accounted(calls)
  PROVE  Mourned'
<1>1. Tail(todo) \in Seq(Calls(Ids))
  BY HeadTailProperties
<1>2. todo' = calls \o Tail(todo)
  BY Zenon DEF Then
<1>3. \A f : Awaits(calls, f) \/ Awaits(Tail(todo), f) => Awaits(todo', f)
  BY <1>1, <1>2, AwaitsEither, Zenon
<1>4. \A f : Awaits(todo, f) => Awaits(Tail(todo), f) \/ (Call.op = "die" /\ f \in Call.who)
  BY AwaitsUnder, Zenon DEF Call
<1>5. ASSUME NEW f \in Fighters, NEW e \in launched'[f]
      PROVE  \/ f \in Living' \/ effects'[e].line.effect = "aftereffect" \/ Awaits(todo', f)
  BY <1>3, <1>4 DEF Accounted, Mourned
<1>6. \A s, f : Awaits(s, f)' <=> Awaits(s, f)
  BY DEF Awaits
<1> QED BY <1>5 DEF Mourned, Awaits

(* Between the calls, the same effects and the same living.                 *)
LEMMA MournStart ==
  ASSUME todo = <<>>, Mourned, Living \subseteq Living', launched' = launched,
         \A f \in Fighters : \A e \in launched[f] : effects'[e].line = effects[e].line
  PROVE  Mourned'
<1>1. \A f \in Fighters : ~Awaits(todo, f)
  BY DEF Awaits
<1>2. \A f \in Fighters : \A e \in launched[f] :
        f \in Living \/ effects[e].line.effect = "aftereffect"
  BY <1>1, Zenon DEF Mourned
<1>3. \A f \in Fighters : \A e \in launched'[f] :
        f \in Living' \/ effects'[e].line.effect = "aftereffect"
  BY <1>2
<1> QED BY <1>3, Zenon DEF Mourned

LEMMA StillStocked == Stocked /\ SameLines => Stocked'
BY DEF Stocked, SameLines, Storable

(* A step that kills nobody, nor drops the die calls.                       *)
LEMMA Spared ==
  ASSUME IInv, IInv', SameLines, Living \subseteq Living', NEW calls, ~Running("die"), todo # <<>>,
         \A f \in Fighters : launched'[f] \subseteq launched[f]
  PROVE  Accounted(calls)
<1>1. \A f \in Fighters : \A e \in launched'[f] : effects'[e].line = effects[e].line
  BY DEF IInv, Agree, SameLines
<1> QED BY <1>1 DEF Accounted, Running, Call
-----------------------------------------------------------------------------
(* The steps of a rough call, and those that make way for gentle ones.      *)
LEMMA RoughStep ==
  ASSUME MournInv, todo # <<>>, ~Storing(Call), SameLines,
         NEW calls \in Seq(Rough), Then(calls), Accounted(calls)
  PROVE  Mourning'
<1>1. Stacked(todo)'
  BY RoughThen DEF MournInv, Mourning
<1>2. calls \in Seq(Calls(Ids)) /\ todo \in Seq(Calls(Ids))
  <2>1. Rough \in SUBSET Calls(Ids)
    BY DEF Rough
  <2> QED BY <2>1, SeqMonotonic, GentleAndRough, Zenon DEF MournInv, Mourning
<1>3. Mourned'
  BY <1>2, MournThen, Zenon DEF MournInv, Mourning
<1>4. Stocked'
  BY StillStocked, Zenon DEF MournInv, Mourning
<1> QED BY <1>1, <1>3, <1>4, Zenon DEF Mourning

LEMMA GentleStep ==
  ASSUME MournInv, IInv', todo # <<>>, ~Running("die"), Kept, SameLines,
         NEW calls \in Seq(Gentle'), Then(calls),
         \A f \in Fighters : launched'[f] \subseteq launched[f]
  PROVE  Mourning'
<1>1. Stacked(todo)'
  BY StillGentle, GentleThen, Zenon DEF MournInv, Mourning
<1>2. calls \in Seq(Calls(Ids)) /\ todo \in Seq(Calls(Ids))
  <2>1. Gentle' \in SUBSET Calls(Ids)
    BY DEF Gentle, Calls, LineCalls, StoreCalls, CrowdCalls, StealCalls, ReturnCalls,
           TargetsCalls, LinesCalls, TickCalls, SpreadCalls, InfectCalls
  <2> QED BY <2>1, SeqMonotonic, GentleAndRough, Zenon DEF MournInv, Mourning
<1>3. Accounted(calls)
  BY Spared, Zenon DEF Kept, MournInv, DeadInv
<1>4. Mourned'
  BY <1>2, <1>3, MournThen, Zenon DEF MournInv, Mourning
<1>5. Stocked'
  BY StillStocked, Zenon DEF MournInv, Mourning
<1> QED BY <1>1, <1>4, <1>5, Zenon DEF Mourning

(* A blow that kills calls the death of whom it kills.                      *)
LEMMA RoughBlow ==
  ASSUME MournInv, IInv', todo # <<>>, ~Storing(Call), ~Running("die"), SameLines,
         launched' = launched, NEW f \in Fighters, NEW amount \in Int, NEW attacker,
         NEW after \in Seq(Rough), remove_life(f, amount, attacker, after)
  PROVE  Mourning'
<1> DEFINE falls == IF alive(f) /\ amount >= life[f]
                    THEN on_player_die(f, attacker) \o die({f}) ELSE <<>>
<1>1. on_player_die(f, attacker) \in Seq(Rough) /\ die({f}) \in Seq(Rough)
  BY RoughPassives, RoughDie, Sequences, Zenon DEF on_player_die
<1>2. falls \in Seq(Rough)
  BY <1>1, Sequences, Zenon
<1>3. alive(f) /\ amount >= life[f] => Awaits(falls, f)
  <2>1. Awaits(die({f}), f)
    BY DEF Awaits, die, While
  <2> QED BY <1>1, <2>1, AwaitsEither, Zenon
<1>4. Then(falls \o after) /\ life' = [life EXCEPT ![f] = @ - Least(amount, @)]
  BY Zenon DEF remove_life
<1>5. life \in [Fighters -> Int]
  BY DEF MournInv, DeadInv, IInv, Fighting
<1> HIDE DEF falls
<1>6. alive(f) => life'[f] > 0 \/ Awaits(falls, f)
  <2>1. life'[f] = life[f] - Least(amount, life[f]) /\ life[f] \in Int
    BY <1>4, <1>5
  <2> QED BY <1>3, <2>1 DEF alive, Least
<1>7. \A g \in Fighters : g # f => life'[g] = life[g]
  BY <1>4, <1>5
<1>8. \A g \in Fighters : g \in Living => g \in Living' \/ Awaits(falls \o after, g)
  <2>1. Awaits(falls, f) => Awaits(falls \o after, f)
    BY <1>2, AwaitsEither, Zenon
  <2> QED BY <1>6, <1>7, <2>1 DEF Living, alive
<1>9. \A g \in Fighters : \A e \in launched[g] : effects'[e].line = effects[e].line
  BY DEF IInv, Agree, SameLines
<1>10. Accounted(falls \o after)
  BY <1>8, <1>9 DEF Accounted, Running, Call
<1>11. falls \o after \in Seq(Rough)
  BY <1>2, Sequences, Zenon
<1> QED BY <1>4, <1>10, <1>11, RoughStep, Zenon

LEMMA DamageMourned ==
  ASSUME MournInv, IInv', apply_damage
  PROVE  Mourning'
<1> DEFINE steal(n) == [op |-> "steal", f |-> Call.by, n |-> n]
           return == [op |-> "return", f |-> Call.by, by |-> Call.to]
           after(n) == fire_passives({Call.to}) \o
             IF Call.to = Call.by THEN <<>> ELSE <<steal(n), return>>
<1>1. /\ Call \in LineCalls /\ Call.by \in Fighters /\ Call.to \in Fighters /\ todo # <<>>
      /\ ~Storing(Call) /\ ~Running("die") /\ SameLines
  BY Applied, LineFields, DamageCalm DEF MournInv, DeadInv, apply_damage, Applying, Running, Call, Storing, Storable,
     Carriers, LineOps
<1>2. PICK n \in 0 .. Least(MaxAmount, life[Call.to]) : remove_life(Call.to, n, Call.by, after(n))
  BY Zenon DEF apply_damage
<1>3. n \in Nat /\ n \in Int
  BY <1>1 DEF Least, MournInv, DeadInv, IInv, Fighting
<1>4. steal(n) \in StealCalls /\ return \in ReturnCalls
  BY <1>1, <1>3 DEF StealCalls, ReturnCalls
<1>5. ~Storing(steal(n)) /\ ~Storing(return) /\ steal(n).op # "store" /\ return.op # "store"
  BY DEF Storing, LineOps
<1> HIDE DEF steal, return
<1>6. steal(n) \in Calls(Ids) /\ return \in Calls(Ids)
  BY <1>4, Zenon DEF Calls
<1>7. steal(n) \in Rough /\ return \in Rough
  BY <1>5, <1>6, RoughOne, Zenon
<1>8. \A a, b \in Rough : <<a, b>> \in Seq(Rough)
  OBVIOUS
<1>9. after(n) \in Seq(Rough)
  BY <1>7, <1>8, RoughPassives, Sequences, Zenon
<1> HIDE DEF after
<1>10. launched' = launched
  BY DEF apply_damage, lists
<1> QED BY <1>1, <1>2, <1>3, <1>9, <1>10, RoughBlow, Zenon

LEMMA AftereffectMourned ==
  ASSUME MournInv, IInv', apply_aftereffect
  PROVE  Mourning'
<1>1. /\ Call \in LineCalls /\ Call.by \in Fighters /\ Call.to \in Fighters /\ todo # <<>>
      /\ ~Storing(Call) /\ ~Running("die") /\ SameLines /\ Call.line.effect = "aftereffect"
  BY Applied, LineFields, AftereffectCalm DEF MournInv, DeadInv, apply_aftereffect, Applying, Running, Call,
     Storing, Storable, Carriers, LineOps
<1>2. PICK n \in Amounts :
        remove_life(Call.to, Least(n, life[Call.to]), Call.by,
                    fire_passives({Call.to}) \o <<Store(Least(n, life[Call.to]))>>)
  BY Zenon DEF apply_aftereffect
<1> DEFINE value == Least(n, life[Call.to])
<1>3. value \in Nat /\ value \in Int
  BY <1>1, AmountsAreNumbers DEF Least, MournInv, DeadInv, IInv, Fighting
<1>4. remove_life(Call.to, value, Call.by, fire_passives({Call.to}) \o <<Store(value)>>)
  BY <1>2
<1> HIDE DEF value
<1>5. <<Store(value)>> \in Seq(Rough)
  BY <1>1, <1>3, StoreIsOne
<1>6. fire_passives({Call.to}) \o <<Store(value)>> \in Seq(Rough)
  BY <1>5, RoughPassives, Sequences, Zenon
<1>7. launched' = launched
  BY DEF apply_aftereffect, lists
<1> QED BY <1>1, <1>3, <1>4, <1>6, <1>7, RoughBlow, Zenon

LEMMA ReturnMourned ==
  ASSUME MournInv, IInv', return_damage
  PROVE  Mourning'
<1>1. Call \in ReturnCalls /\ todo # <<>> /\ ~Storing(Call) /\ ~Running("die") /\ SameLines
  BY CallIs, ReturnCalm DEF MournInv, DeadInv, IInv, return_damage, Running, Call, Storing, LineOps
<1>2. Call.f \in Fighters /\ life[Call.f] \in Int
  BY <1>1 DEF ReturnCalls, MournInv, DeadInv, IInv, Fighting
<1>3. PICK n \in 0 .. Least(MaxAmount, life[Call.f]) :
        remove_life(Call.f, n, Call.by, fire_passives({Call.f}))
  BY Zenon DEF return_damage
<1>4. n \in Int
  BY <1>2, BoundsAssumption DEF Least
<1>5. launched' = launched
  BY DEF return_damage, lists
<1> QED BY <1>1, <1>2, <1>3, <1>4, <1>5, RoughPassives, RoughBlow, Zenon
-----------------------------------------------------------------------------
LEMMA StoringMourned ==
  ASSUME MournInv, IInv', apply_effect_poison \/ apply_effect_stat_carrier \/ apply_add_state
  PROVE  Mourning'
<1>1. /\ Call \in LineCalls /\ todo # <<>> /\ Storing(Call) /\ ~Running("die") /\ SameLines
      /\ Call.op = "apply" /\ Call.line.effect \in Storable
  BY Applied, StoringCalm DEF MournInv, DeadInv, apply_effect_poison, apply_effect_stat_carrier,
     apply_add_state, Applying, Running, Call, Storing, Storable, Carriers, LineOps
<1>2. Call.by \in Living
  BY <1>1, OnTopGentle DEF MournInv, Mourning, Backed, LineOps
<1>3. PICK n \in Nat : Then(<<Store(n)>>)
  BY AmountsAreNumbers DEF apply_effect_poison, apply_effect_stat_carrier, apply_add_state
<1>4. life' = life /\ effects' = effects /\ launched' = launched
  BY DEF apply_effect_poison, apply_effect_stat_carrier, apply_add_state, lists
<1>5. Kept /\ Gentle' = Gentle
  BY <1>4, NothingMoves
<1>6. <<Store(n)>> \in Seq(Gentle')
  BY <1>1, <1>2, <1>5, StoreIsOne
<1> QED BY <1>1, <1>3, <1>4, <1>5, <1>6, GentleStep

LEMMA HealMourned ==
  ASSUME MournInv, IInv', apply_effect_heal
  PROVE  Mourning'
<1>1. /\ Call \in LineCalls /\ todo # <<>> /\ Storing(Call) /\ ~Running("die") /\ SameLines
      /\ Call.op = "apply" /\ Call.line.effect \in Storable /\ Call.to \in Fighters
  BY Applied, LineFields, HealServed DEF MournInv, DeadInv, apply_effect_heal, Applying, Running,
     Call, Storing, Storable, Carriers, LineOps
<1>2. Call.by \in Living
  BY <1>1, OnTopGentle DEF MournInv, Mourning, Backed, LineOps
<1>3. PICK n \in Amounts :
        IF Call.line.turns = 0 THEN add_life(Call.to, n) /\ Then(<<>>)
                               ELSE Then(<<Store(n)>>) /\ UNCHANGED life
  BY Zenon DEF apply_effect_heal
<1>4. n \in Nat
  BY AmountsAreNumbers
<1>5. effects' = effects /\ launched' = launched
  BY DEF apply_effect_heal, lists
<1>6. CASE Call.line.turns # 0
  <2>1. Then(<<Store(n)>>) /\ life' = life
    BY <1>3, <1>6
  <2>2. Kept /\ Gentle' = Gentle
    BY <1>5, <2>1, NothingMoves
  <2>3. <<Store(n)>> \in Seq(Gentle')
    BY <1>1, <1>2, <1>4, <2>2, StoreIsOne
  <2> QED BY <1>1, <1>5, <2>1, <2>2, <2>3, GentleStep
<1>7. CASE Call.line.turns = 0
  <2>1. add_life(Call.to, n) /\ Then(<<>>)
    BY <1>3, <1>7
  <2>2. life \in [Fighters -> Int] /\ MaxLife \in Int /\ MaxLife > 0
    BY BoundsAssumption DEF MournInv, DeadInv, IInv, Fighting
  <2>3. \A g \in Fighters : life[g] > 0 => life'[g] > 0
    <3>1. life'[Call.to] = Least(life[Call.to] + n, MaxLife) /\ life[Call.to] \in Int
      BY <1>1, <2>1, <2>2 DEF add_life
    <3>2. life[Call.to] > 0 => life'[Call.to] > 0
      BY <1>4, <2>2, <3>1 DEF Least
    <3>3. \A g \in Fighters : g # Call.to => life'[g] = life[g]
      BY <2>1, <2>2 DEF add_life
    <3> QED BY <3>2, <3>3
  <2>4. Kept
    BY <1>5, <2>3 DEF Kept, Living, alive
  <2>5. <<>> \in Seq(Gentle')
    OBVIOUS
  <2> QED BY <1>1, <1>5, <2>1, <2>4, <2>5, GentleStep
<1> QED BY <1>6, <1>7

(* A rough call that makes none, takes no life, and drops what it will.     *)
LEMMA EndsRoughly ==
  ASSUME MournInv, IInv', todo # <<>>, ~Storing(Call), ~Running("die"), SameLines,
         Living \subseteq Living', NEW calls \in Seq(Rough), Then(calls),
         \A f \in Fighters : launched'[f] \subseteq launched[f]
  PROVE  Mourning'
<1>1. Accounted(calls)
  BY Spared DEF MournInv, DeadInv
<1> QED BY <1>1, RoughStep

LEMMA SameLiving == life' = life => Living \subseteq Living'
BY DEF Living, alive

LEMMA CuringMourned ==
  ASSUME MournInv, IInv', reduce_effects \/ clear_poisons
  PROVE  Mourning'
<1>1. /\ todo # <<>> /\ ~Storing(Call) /\ ~Running("die") /\ SameLines /\ Then(<<>>)
      /\ life' = life
  BY Applied, CuringCalm DEF MournInv, DeadInv, reduce_effects, clear_poisons, Applying, Running,
     Call, Storing, Storable, Carriers, LineOps
<1>2. \A f \in Fighters : launched'[f] \subseteq launched[f]
  <2>1. \E gone, fx : remove_effects(Call.to, gone, fx)
    BY Zenon DEF reduce_effects, clear_poisons
  <2> QED BY <2>1 DEF remove_effects
<1>3. <<>> \in Seq(Rough)
  OBVIOUS
<1> QED BY <1>1, <1>2, <1>3, SameLiving, EndsRoughly

LEMMA StealMourned ==
  ASSUME MournInv, IInv', life_steal
  PROVE  Mourning'
<1>1. /\ Call \in StealCalls /\ todo # <<>> /\ ~Storing(Call) /\ ~Running("die") /\ SameLines
      /\ Then(<<>>) /\ launched' = launched
  BY CallIs, StealCalm DEF MournInv, DeadInv, IInv, life_steal, Running, Call, Storing, LineOps, lists
<1>2. PICK n \in 0 .. (IF alive(Call.f) THEN Call.n ELSE 0) : add_life(Call.f, n)
  BY Zenon DEF life_steal
<1>3. Call.f \in Fighters /\ n \in Nat /\ life \in [Fighters -> Int] /\ MaxLife \in Int /\ MaxLife > 0
  BY <1>1, BoundsAssumption DEF StealCalls, MournInv, DeadInv, IInv, Fighting
<1>4. Living \subseteq Living'
  <2>1. life'[Call.f] = Least(life[Call.f] + n, MaxLife) /\ life[Call.f] \in Int
    BY <1>2, <1>3 DEF add_life
  <2>2. life[Call.f] > 0 => life'[Call.f] > 0
    BY <1>3, <2>1 DEF Least
  <2>3. \A g \in Fighters : g # Call.f => life'[g] = life[g]
    BY <1>2, <1>3 DEF add_life
  <2> QED BY <2>2, <2>3 DEF Living, alive
<1>5. <<>> \in Seq(Rough)
  OBVIOUS
<1> QED BY <1>1, <1>4, <1>5, EndsRoughly

(* What is stored is an aftereffect, or was made for one of the living.     *)
LEMMA StoresForTheLiving ==
  ASSUME MournInv, Running("store")
  PROVE  /\ todo # <<>> /\ ~Running("die")
         /\ Call.line.effect \in Storable \cup {"aftereffect"}
         /\ Call.by \in Living \/ Call.line.effect = "aftereffect"
<1>1. todo # <<>> /\ ~Running("die") /\ Call.op = "store"
  BY DEF Running, Call
<1>2. CASE Storing(Call)
  BY <1>1, <1>2, OnTopGentle DEF MournInv, Mourning, Backed, LineOps
<1>3. CASE ~Storing(Call)
  BY <1>1, <1>3, UnderRough DEF MournInv, Mourning, Rough
<1> QED BY <1>1, <1>2, <1>3

LEMMA StoredMourned ==
  ASSUME MournInv, IInv', store_merged \/ store_nothing
  PROVE  Mourning'
<1>1. todo # <<>> /\ ~Running("die")
  BY StoresForTheLiving DEF store_merged, store_nothing
<1>2. life' = life /\ launched' = launched /\ Then(<<>>)
  BY DEF store_merged, store_nothing, lists
<1>3. /\ DOMAIN effects' = DOMAIN effects
      /\ \A e \in DOMAIN effects : /\ effects'[e].line = effects[e].line
                                   /\ effects'[e].caster = effects[e].caster
  <2>1. CASE store_merged
    <3>1. effects' = [effects EXCEPT ![First(Same)].value = @ + Call.value]
      BY <2>1 DEF store_merged
    <3>2. \A e \in DOMAIN effects : effects[e] \in Effect
      BY DEF MournInv, DeadInv, IInv, Arena
    <3>3. \A r \in Effect : /\ [r EXCEPT !.value = @ + Call.value].line = r.line
                            /\ [r EXCEPT !.value = @ + Call.value].caster = r.caster
      BY DEF Effect
    <3> QED BY <3>1, <3>2, <3>3
  <2>2. CASE store_nothing
    BY <2>2 DEF store_nothing
  <2> QED BY <2>1, <2>2
<1>4. Kept /\ SameLines
  BY <1>2, <1>3 DEF Kept, SameLines, Living, alive
<1>5. <<>> \in Seq(Gentle')
  OBVIOUS
<1> QED BY <1>1, <1>2, <1>4, <1>5, GentleStep

LEMMA StoreNewMourned ==
  ASSUME MournInv, IInv', store_new
  PROVE  Mourning'
<1> DEFINE r == [line |-> Call.line, item |-> Call.item, turns |-> Call.line.turns,
                 value |-> Call.value, caster |-> Call.by, target |-> Call.to]
<1>1. /\ todo # <<>> /\ ~Running("die") /\ Call.line.effect \in Storable \cup {"aftereffect"}
      /\ Call.by \in Living \/ Call.line.effect = "aftereffect"
  BY StoresForTheLiving DEF store_new
<1>2. life' = life /\ Then(<<>>)
  BY DEF store_new
<1>3. PICK e \in NewId :
        /\ effects' = [i \in DOMAIN effects \cup {e} |-> IF i = e THEN r ELSE effects[i]]
        /\ launched' = [launched EXCEPT ![Call.by] = @ \cup {e}]
  BY Zenon DEF store_new
<1>4. e \in Ids /\ e \notin DOMAIN effects
  BY DEF NewId, Ids
<1>5. r.line = Call.line
  OBVIOUS
<1> HIDE DEF r
<1>6. /\ DOMAIN effects' = DOMAIN effects \cup {e} /\ effects'[e].line = Call.line
      /\ \A i \in DOMAIN effects : effects'[i] = effects[i]
  BY <1>3, <1>4, <1>5
<1>7. Kept
  BY <1>2, <1>6 DEF Kept, Living, alive
<1>8. <<>> \in Seq(Gentle') /\ <<>> \in Seq(Calls(Ids))
  OBVIOUS
<1>9. Stacked(todo)'
  BY <1>1, <1>2, <1>7, <1>8, StillGentle, GentleThen DEF MournInv, Mourning
<1>10. Stocked'
  BY <1>1, <1>6 DEF MournInv, Mourning, Stocked, Storable
<1>11. Accounted(<<>>)
  <2>1. Living' = Living
    BY <1>2 DEF Living, alive
  <2>2. launched \in [Fighters -> SUBSET DOMAIN effects]
    BY DEF MournInv, DeadInv, IInv, Agree
  <2>3. ASSUME NEW f \in Fighters, NEW i \in launched'[f]
        PROVE  \/ f = Call.by /\ i = e
               \/ i \in launched[f] /\ effects'[i].line = effects[i].line
    BY <1>3, <1>6, <2>2
  <2> QED BY <1>1, <1>6, <2>1, <2>3 DEF Accounted, Running, Call
<1>12. todo \in Seq(Calls(Ids))
  BY GentleAndRough DEF MournInv, Mourning
<1>13. Mourned'
  BY <1>1, <1>2, <1>8, <1>11, <1>12, MournThen, Zenon DEF MournInv, Mourning
<1> QED BY <1>9, <1>10, <1>13 DEF Mourning
-----------------------------------------------------------------------------
(* A rough call that makes gentle calls above rough ones.                   *)
LEMMA MixedStep ==
  ASSUME MournInv, IInv', todo # <<>>, ~Storing(Call), ~Running("die"), SameLines,
         life' = life, effects' = effects, launched' = launched,
         NEW a \in Seq(Gentle), NEW b \in Seq(Rough), Then(a \o b)
  PROVE  Mourning'
<1>1. a \in Seq(Gentle')
  BY NothingMoves
<1>2. Stacked(todo)'
  BY <1>1, MixedThen DEF MournInv, Mourning
<1>3. a \o b \in Seq(Calls(Ids)) /\ todo \in Seq(Calls(Ids))
  <2>1. Gentle \in SUBSET Calls(Ids) /\ Rough \in SUBSET Calls(Ids)
    BY DEF Gentle, Rough
  <2>2. a \in Seq(Calls(Ids)) /\ b \in Seq(Calls(Ids))
    BY <2>1, SeqMonotonic, Zenon
  <2> QED BY <2>2, GentleAndRough, Sequences, Zenon DEF MournInv, Mourning
<1>4. Accounted(a \o b)
  BY SameLiving, Spared DEF MournInv, DeadInv
<1>5. Mourned'
  BY <1>3, <1>4, MournThen, Zenon DEF MournInv, Mourning
<1>6. Stocked'
  BY StillStocked, Zenon DEF MournInv, Mourning
<1> QED BY <1>2, <1>5, <1>6, Zenon DEF Mourning

LEMMA PassiveMourned ==
  ASSUME MournInv, IInv', activate_passive
  PROVE  Mourning'
<1> DEFINE f == First(Call.who)
           one == IF alive(f) THEN <<create_effect(PassiveLine, "passive", f, f)>> ELSE <<>>
           more == fire_passives(Call.who \ {f})
<1>1. /\ Call \in CrowdCalls /\ todo # <<>> /\ ~Storing(Call) /\ ~Running("die") /\ SameLines
      /\ life' = life /\ effects' = effects /\ launched' = launched
  BY CallIs, PassivesCalm DEF MournInv, DeadInv, IInv, activate_passive, Running, Call, Storing,
     LineOps, lists
<1>2. f \in Fighters
  BY <1>1, FirstFighter DEF CrowdCalls, Some
<1>3. Then(one \o more)
  BY Zenon DEF activate_passive
<1>4. "passive" \in Origins /\ PassiveLine.effect \in Storable
  BY DEF Origins, PassiveLine, Storable, Carriers
<1> HIDE DEF f
<1>5. alive(f) => f \in Living
  BY <1>2 DEF Living
<1>6. one \in Seq(Gentle)
  BY <1>2, <1>4, <1>5, PassiveLineIsOne, CreateIs, Sequences, Zenon
<1>7. more \in Seq(Rough)
  BY RoughPassives, Zenon
<1> HIDE DEF one, more
<1> QED BY <1>1, <1>3, <1>6, <1>7, MixedStep, Zenon

LEMMA LineMourned ==
  ASSUME MournInv, IInv', next_line
  PROVE  Mourning'
<1> DEFINE line == Head(Call.rest)
           who == IF alive(Call.by) THEN Reached(line) ELSE {}
           over == over_targets(line, Call.item, Call.by, who)
           more == lines(Call.by, Call.item, Tail(Call.rest), Call.area)
<1>1. /\ Call \in LinesCalls /\ todo # <<>> /\ ~Storing(Call) /\ ~Running("die") /\ SameLines
      /\ life' = life /\ effects' = effects /\ launched' = launched
  BY CallIs, LineCollects DEF MournInv, DeadInv, IInv, next_line, Running, Call, Storing,
     LineOps, lists
<1>2. /\ Call.by \in Fighters /\ Call.item \in Origins /\ Call.area \in SUBSET Fighters
      /\ Call.rest \in Seq(EffectParams) /\ Call.rest # <<>>
  BY <1>1 DEF LinesCalls
<1>3. line \in EffectParams /\ Tail(Call.rest) \in Seq(EffectParams)
  BY <1>2, HeadTailProperties
<1>4. who \in SUBSET Fighters /\ (who # {} => Call.by \in Living)
  BY <1>2 DEF Reached, Living
<1>5. Then(over \o more)
  BY Zenon DEF next_line
<1>6. more \in Seq(Rough)
  BY <1>2, <1>3, RoughLines
<1> HIDE DEF line, who
<1>7. over \in Seq(Gentle) \/ over \in Seq(Rough)
  BY <1>2, <1>3, <1>4, TargetsAre
<1> HIDE DEF over, more
<1>8. CASE over \in Seq(Gentle)
  BY <1>1, <1>5, <1>6, <1>8, MixedStep, Zenon
<1>9. CASE over \in Seq(Rough)
  <2>1. over \o more \in Seq(Rough)
    BY <1>6, <1>9, Sequences, Zenon
  <2>2. Living \subseteq Living' /\ \A f \in Fighters : launched'[f] \subseteq launched[f]
    BY <1>1, SameLiving
  <2> QED BY <1>1, <1>5, <2>1, <2>2, EndsRoughly, Zenon
<1> QED BY <1>7, <1>8, <1>9

(* The creation of an effect is as gentle as the call over its targets.     *)
LEMMA LineHandedOn ==
  ASSUME MournInv, IInv', todo # <<>>, ~Running("die"), SameLines, Call.op \in LineOps,
         Call.op # "store",
         life' = life, effects' = effects, \A f \in Fighters : launched'[f] \subseteq launched[f],
         NEW calls, Then(calls),
         Call.line.effect \in Storable /\ Call.by \in Living => calls \in Seq(Gentle),
         Call.line.effect \notin Storable => calls \in Seq(Rough)
  PROVE  Mourning'
<1>1. CASE Storing(Call)
  <2>1. Call.line.effect \in Storable /\ Call.by \in Living
    BY <1>1, OnTopGentle DEF MournInv, Mourning, Backed, LineOps
  <2>2. Kept /\ calls \in Seq(Gentle')
    BY <2>1, NothingMoves
  <2> QED BY <2>2, GentleStep, Zenon
<1>2. CASE ~Storing(Call)
  <2>1. calls \in Seq(Rough)
    BY <1>2 DEF Storing
  <2>2. Living \subseteq Living'
    BY SameLiving
  <2> QED BY <1>2, <2>1, <2>2, EndsRoughly, Zenon
<1> QED BY <1>1, <1>2

LEMMA TargetMourned ==
  ASSUME MournInv, IInv', next_target
  PROVE  Mourning'
<1> DEFINE f == First(Call.who)
           one == <<create_effect(Call.line, Call.item, Call.by, f)>>
           rest == over_targets(Call.line, Call.item, Call.by, Call.who \ {f})
<1>1. /\ Call \in TargetsCalls /\ todo # <<>> /\ ~Running("die") /\ SameLines
      /\ Call.op \in LineOps /\ Call.op # "store"
      /\ life' = life /\ effects' = effects /\ launched' = launched
  BY CallIs, TargetServed DEF MournInv, DeadInv, IInv, next_target, Running, Call, LineOps, lists
<1>2. /\ Call.line \in EffectParams /\ Call.item \in Origins /\ Call.by \in Fighters
      /\ Call.who \in SUBSET Fighters /\ Call.who # {}
  BY <1>1 DEF TargetsCalls, Some
<1>3. f \in Fighters /\ Call.who \ {f} \in SUBSET Fighters
  BY <1>2, FirstFighter
<1>4. Then(one \o rest)
  BY Zenon DEF next_target
<1> HIDE DEF f
<1>5. /\ Call.line.effect \in Storable /\ Call.by \in Living =>
           one \in Seq(Gentle) /\ rest \in Seq(Gentle)
      /\ Call.line.effect \notin Storable => one \in Seq(Rough) /\ rest \in Seq(Rough)
  BY <1>2, <1>3, CreateIs, TargetsAre, Zenon
<1> HIDE DEF one, rest
<1>6. /\ Call.line.effect \in Storable /\ Call.by \in Living => one \o rest \in Seq(Gentle)
      /\ Call.line.effect \notin Storable => one \o rest \in Seq(Rough)
  BY <1>5, Sequences, Zenon
<1>7. \A g \in Fighters : launched'[g] \subseteq launched[g]
  BY <1>1
<1> QED BY <1>1, <1>4, <1>6, <1>7, LineHandedOn, Zenon

LEMMA CreateMourned ==
  ASSUME MournInv, IInv', create
  PROVE  Mourning'
<1> DEFINE call == [Call EXCEPT !.op = "apply"]
<1>1. /\ Call \in LineCalls /\ todo # <<>> /\ ~Running("die") /\ SameLines
      /\ Call.op \in LineOps /\ Call.op # "store"
  BY CallIs, CreateServed DEF MournInv, DeadInv, IInv, create, Running, Call, LineOps
<1>2. life' = life /\ effects' = effects /\ Then(<<call>>)
  BY Zenon DEF create
<1>3. \A f \in Fighters : launched'[f] \subseteq launched[f]
  <2>1. (\E gone, fx : remove_effects(Call.to, gone, fx)) \/ UNCHANGED <<lists, totals>>
    BY Zenon DEF create
  <2> QED BY <2>1 DEF remove_effects, lists
<1>4. /\ call \in LineCalls /\ call.op = "apply" /\ call.line = Call.line /\ call.by = Call.by
  BY <1>1 DEF LineCalls
<1>5. call \in Calls(Ids)
  BY <1>4, Zenon DEF Calls
<1> HIDE DEF call
<1>6. /\ Call.line.effect \in Storable /\ Call.by \in Living => Backed(call)
      /\ Call.line.effect \notin Storable => ~Storing(call)
      /\ call.op # "store"
  BY <1>4 DEF Backed, Storing, LineOps
<1>7. /\ Call.line.effect \in Storable /\ Call.by \in Living => <<call>> \in Seq(Gentle)
      /\ Call.line.effect \notin Storable => <<call>> \in Seq(Rough)
  BY <1>5, <1>6, GentleOne, RoughOne, Zenon
<1> QED BY <1>1, <1>2, <1>3, <1>7, LineHandedOn, Zenon

(* A death drops all that one fighter has launched.                         *)
LEMMA DiesMourned ==
  ASSUME MournInv, IInv', dies
  PROVE  Mourning'
<1> DEFINE f == First(Call.who)
           summons == { g \in entered \ {f} : alive(g) /\ Summoner[g] = f }
           left == Call.who \ {f}
<1>1. Call \in CrowdCalls /\ todo # <<>> /\ ~Storing(Call) /\ SameLines
  BY CallIs, DiesCalm DEF MournInv, DeadInv, IInv, dies, Running, Call, Storing, LineOps
<1>2. Call.who \in SUBSET Fighters /\ f \in Fighters
  BY <1>1, FirstFighter DEF CrowdCalls, Some
<1>3. /\ effects' = effects /\ life' = [life EXCEPT ![f] = 0] /\ launched' = FromCasters(f)
      /\ Then(die(summons) \o die(left))
  BY Zenon DEF dies, Call
<1>4. left \in SUBSET Fighters /\ summons \in SUBSET Fighters
  BY <1>2 DEF MournInv, DeadInv, IInv, Fighting
<1>5. \A g \in Call.who : g # f => g \in left
  OBVIOUS
<1> HIDE DEF f, summons, left
<1>6. die(summons) \in Seq(Rough) /\ die(left) \in Seq(Rough)
  BY <1>4, RoughDie
<1>7. die(summons) \o die(left) \in Seq(Rough)
  BY <1>6, Sequences, Zenon
<1>8. \A g \in left : Awaits(die(summons) \o die(left), g)
  <2>1. \A g \in left : Awaits(die(left), g)
    BY DEF Awaits, die, While
  <2> QED BY <1>6, <2>1, AwaitsEither, Zenon
<1>9. \A g \in Fighters : g # f => life'[g] = life[g]
  BY <1>3 DEF MournInv, DeadInv, IInv, Fighting
<1>10. \A g \in Fighters : \A e \in launched'[g] : g # f /\ e \in launched[g]
  BY <1>3 DEF FromCasters
<1>11. Accounted(die(summons) \o die(left))
  <2> DEFINE calls == die(summons) \o die(left)
  <2>1. \A g \in left : Awaits(calls, g)
    BY <1>8
  <2> HIDE DEF calls
  <2>2. Accounted(calls)
    BY <1>3, <1>5, <1>9, <1>10, <2>1 DEF Accounted, Living, alive
  <2> QED BY <2>2 DEF calls
<1> QED BY <1>1, <1>3, <1>7, <1>11, RoughStep, Zenon
-----------------------------------------------------------------------------
LEMMA TickIsRough ==
  ASSUME MournInv, Running("tick")
  PROVE  /\ todo # <<>> /\ ~Storing(Call) /\ ~Running("die") /\ Call.f \in Fighters
         /\ life[Call.f] \in Int /\ Rest \in Seq(Rough)
<1>1. todo # <<>> /\ Call.f \in Fighters /\ Call.ids \in SUBSET DOMAIN effects
  BY TickIs DEF MournInv, DeadInv
<1>2. ~Storing(Call) /\ ~Running("die")
  BY DEF Running, Call, Storing, LineOps
<1>3. Call.ids \ {First(Call.ids)} \in SUBSET Ids
  BY <1>1 DEF MournInv, DeadInv, IInv, Arena
<1>4. Rest \in Seq(Rough)
  BY <1>1, <1>3, RoughTick DEF Rest
<1> QED BY <1>1, <1>2, <1>4 DEF MournInv, DeadInv, IInv, Fighting

LEMMA TickingMourned ==
  ASSUME MournInv, IInv', tick_poison \/ tick_aftereffect
  PROVE  Mourning'
<1>1. /\ todo # <<>> /\ ~Storing(Call) /\ ~Running("die") /\ Call.f \in Fighters
      /\ life[Call.f] \in Int /\ Rest \in Seq(Rough)
  BY TickIsRough DEF tick_poison, tick_aftereffect, Ticking
<1>2. SameLines
  BY TickingCalm DEF MournInv
<1>3. Ticked.value \in Int
  BY TickIs DEF tick_poison, tick_aftereffect, Ticking, Ticked, Effect, MournInv, DeadInv
<1>4. PICK n \in Int :
        remove_life(Call.f, n, Ticked.caster, fire_passives({Call.f}) \o Rest)
  <2>1. Least(Ticked.value, life[Call.f]) \in Int /\ 0 \in Int
    BY <1>1, <1>3 DEF Least
  <2>2. CASE tick_poison
    BY <2>1, <2>2 DEF tick_poison
  <2>3. CASE tick_aftereffect
    BY <2>1, <2>3 DEF tick_aftereffect
  <2> QED BY <2>2, <2>3
<1>5. fire_passives({Call.f}) \o Rest \in Seq(Rough)
  BY <1>1, RoughPassives, Sequences, Zenon
<1>6. launched' = launched
  BY DEF tick_poison, tick_aftereffect, lists
<1> QED BY <1>1, <1>2, <1>4, <1>5, <1>6, RoughBlow, Zenon

LEMMA TickHealMourned ==
  ASSUME MournInv, IInv', tick_heal
  PROVE  Mourning'
<1>1. /\ todo # <<>> /\ ~Storing(Call) /\ ~Running("die") /\ Call.f \in Fighters
      /\ Rest \in Seq(Rough) /\ Then(Rest) /\ launched' = launched
  BY TickIsRough DEF tick_heal, Ticking, lists
<1>2. SameLines
  BY TickHealCalm DEF MournInv
<1>3. Ticked.value \in Nat
  BY TickIs DEF tick_heal, Ticking, Ticked, Effect, MournInv, DeadInv
<1>4. PICK n \in {Ticked.value} \cup (IF states[Call.f] > 0 THEN {0} ELSE {}) : add_life(Call.f, n)
  BY Zenon DEF tick_heal
<1>5. n \in Nat /\ life \in [Fighters -> Int] /\ MaxLife \in Int /\ MaxLife > 0
  BY <1>3, BoundsAssumption DEF MournInv, DeadInv, IInv, Fighting
<1>6. Living \subseteq Living'
  <2>1. life'[Call.f] = Least(life[Call.f] + n, MaxLife) /\ life[Call.f] \in Int
    BY <1>1, <1>4, <1>5 DEF add_life
  <2>2. life[Call.f] > 0 => life'[Call.f] > 0
    BY <1>5, <2>1 DEF Least
  <2>3. \A g \in Fighters : g # Call.f => life'[g] = life[g]
    BY <1>4, <1>5 DEF add_life
  <2> QED BY <2>2, <2>3 DEF Living, alive
<1>7. \A g \in Fighters : launched'[g] \subseteq launched[g]
  BY <1>1
<1> QED BY <1>1, <1>2, <1>6, <1>7, EndsRoughly, Zenon

LEMMA AgingMourned ==
  ASSUME MournInv, IInv', tick_other \/ dies_ticking \/ expire
  PROVE  Mourning'
<1>1. /\ todo # <<>> /\ ~Storing(Call) /\ ~Running("die") /\ Rest \in Seq(Rough)
      /\ Call.f \in Fighters
  BY TickIsRough DEF tick_other, dies_ticking, expire, Ticking
<1>2. SameLines
  BY AgingCalm DEF MournInv
<1>3. Living \subseteq Living'
  BY SameLiving DEF tick_other, dies_ticking, expire
<1>4. <<>> \in Seq(Rough) /\ (Then(Rest) \/ Then(<<>>))
  BY DEF tick_other, dies_ticking, expire
<1>5. \A g \in Fighters : launched'[g] \subseteq launched[g]
  <2>1. launched' = launched \/ \E gone : launched' = [launched EXCEPT ![Call.f] = @ \ gone]
    BY Zenon DEF tick_other, dies_ticking, expire, lists
  <2>2. launched \in [Fighters -> SUBSET DOMAIN effects]
    BY DEF MournInv, DeadInv, IInv, Agree
  <2> QED BY <2>1, <2>2
<1>6. PICK calls \in Seq(Rough) : Then(calls)
  BY <1>1, <1>4, Zenon
<1> QED BY <1>1, <1>2, <1>3, <1>5, <1>6, EndsRoughly, Zenon

(* What spreads is spread for the living.                                   *)
LEMMA PropagateMourned ==
  ASSUME MournInv, IInv', propagate_effects
  PROVE  Mourning'
<1> DEFINE e == First(Call.ids)
<1>1. Call \in SpreadCalls(DOMAIN effects) /\ todo # <<>> /\ Call.op = "spread"
      /\ ~Running("die") /\ SameLines
  BY CallIs, PropagateCalm DEF MournInv, DeadInv, IInv, propagate_effects, Running, Call
<1>2. Call.f \in Fighters /\ Call.ids \in SUBSET DOMAIN effects /\ Call.ids # {}
  BY <1>1 DEF SpreadCalls, Some
<1>3. \A i \in Call.ids : Spreads(i)
  BY <1>1, OnTopGentle DEF MournInv, Mourning, Storing, Backed, LineOps
<1>4. e \in Call.ids /\ e \in Ids /\ Call.ids \ {e} \in SUBSET Ids
  BY <1>2, FirstId DEF MournInv, DeadInv, IInv, Arena
<1>5. PICK around \in SUBSET (Living \ {Call.f}) :
        Then(infect(e, around) \o spread(Call.f, Call.ids \ {e}))
  BY Zenon DEF propagate_effects
<1>6. life' = life /\ effects' = effects /\ launched' = launched
  BY DEF propagate_effects, lists
<1> HIDE DEF e
<1>7. infect(e, around) \in Seq(Gentle)
  BY <1>3, <1>4, InfectGentle DEF Living
<1>8. spread(Call.f, Call.ids \ {e}) \in Seq(Gentle)
  BY <1>2, <1>3, <1>4, SpreadGentle
<1>9. infect(e, around) \o spread(Call.f, Call.ids \ {e}) \in Seq(Gentle)
  BY <1>7, <1>8, Sequences, Zenon
<1>10. Kept /\ infect(e, around) \o spread(Call.f, Call.ids \ {e}) \in Seq(Gentle')
  BY <1>6, <1>9, NothingMoves
<1>11. \A f \in Fighters : launched'[f] \subseteq launched[f]
  BY <1>6
<1> QED BY <1>1, <1>5, <1>10, <1>11, GentleStep, Zenon

LEMMA InfectMourned ==
  ASSUME MournInv, IInv', infect_next
  PROVE  Mourning'
<1> DEFINE f == First(Call.who)
           e == effects[Call.ei]
           line == SpreadLine(e.line)
           one == IF "not_replaceable" \in e.line.propagation /\ has_effect(f, e.item) THEN <<>>
                  ELSE <<create_effect(line, e.item, e.caster, f)>>
           more == infect(Call.ei, Call.who \ {f})
<1>1. Call \in InfectCalls(DOMAIN effects) /\ todo # <<>> /\ Call.op = "infect"
      /\ ~Running("die") /\ SameLines
  BY CallIs, InfectCalm DEF MournInv, DeadInv, IInv, infect_next, Running, Call
<1>2. Call.ei \in DOMAIN effects /\ Call.who \in SUBSET Fighters /\ Call.who # {}
  BY <1>1 DEF InfectCalls, Some
<1>3. f \in Fighters /\ Call.ei \in Ids /\ Call.who \ {f} \in SUBSET Fighters
  BY <1>2, FirstFighter DEF MournInv, DeadInv, IInv, Arena
<1>4. Spreads(Call.ei)
  BY <1>1, OnTopGentle DEF MournInv, Mourning, Storing, Backed, LineOps
<1>5. /\ line \in EffectParams /\ e.item \in Origins /\ e.caster \in Fighters
      /\ line.effect \in Storable /\ e.caster \in Living
  BY <1>2, <1>4, SpreadLineIsOne DEF MournInv, DeadInv, IInv, Arena, Effect, Spreads
<1>6. Then(one \o more)
  BY Zenon DEF infect_next
<1>7. life' = life /\ effects' = effects /\ launched' = launched
  BY DEF infect_next, lists
<1> HIDE DEF f, e, line
<1>8. <<create_effect(line, e.item, e.caster, f)>> \in Seq(Gentle)
  BY <1>3, <1>5, CreateIs
<1>9. one \in Seq(Gentle)
  BY <1>8, Sequences, Zenon
<1>10. more \in Seq(Gentle)
  BY <1>3, <1>4, InfectGentle
<1> HIDE DEF one, more
<1>11. one \o more \in Seq(Gentle)
  BY <1>9, <1>10, Sequences, Zenon
<1>12. Kept /\ one \o more \in Seq(Gentle')
  BY <1>7, <1>11, NothingMoves
<1>13. \A g \in Fighters : launched'[g] \subseteq launched[g]
  BY <1>7
<1> QED BY <1>1, <1>6, <1>12, <1>13, GentleStep, Zenon
-----------------------------------------------------------------------------
(* Between the calls.                                                       *)
LEMMA StartsStacked ==
  ASSUME todo' \in Seq(Gentle') \/ todo' \in Seq(Rough)
  PROVE  Stacked(todo)'
<1>1. Rough' = Rough
  BY DEF Rough, Storing
<1>2. <<>> \in Seq(Gentle') /\ <<>> \in Seq(Rough)
  OBVIOUS
<1>3. todo' = <<>> \o todo' /\ todo' = todo' \o <<>>
  BY ConcatEmptySeq
<1>4. \E x \in Seq(Gentle'), y \in Seq(Rough) : todo' = x \o y
  BY <1>2, <1>3, Zenon
<1> QED BY <1>1, <1>4, Zenon DEF Stacked

LEMMA StartStep ==
  ASSUME MournInv, todo = <<>>, SameLines, Living \subseteq Living', launched' = launched,
         \A f \in Fighters : launched[f] \subseteq DOMAIN effects',
         todo' \in Seq(Gentle') \/ todo' \in Seq(Rough)
  PROVE  Mourning'
<1>1. Mourned'
  BY MournStart DEF MournInv, Mourning, SameLines
<1> QED BY <1>1, StartsStacked, StillStocked DEF MournInv, Mourning

LEMMA Listed ==
  ASSUME IInv, effects' = effects
  PROVE  \A f \in Fighters : launched[f] \subseteq DOMAIN effects'
BY DEF IInv, Agree

LEMMA StartTurnMourned ==
  ASSUME MournInv, NEW f \in Fighters, start_turn(f)
  PROVE  Mourning'
<1>1. /\ todo = <<>> /\ todo' = <<tick(f, suffered[f])>> /\ launched' = launched /\ life' = life
      /\ DOMAIN effects' = UNION { suffered[g] \cup launched[g] : g \in Fighters }
  BY DEF start_turn, lists
<1>2. SameLines
  BY StartTurnCalm DEF MournInv
<1>3. suffered[f] \in SUBSET Ids
  BY DEF MournInv, DeadInv, IInv, Arena, Agree
<1>4. todo' \in Seq(Rough)
  BY <1>1, <1>3, RoughTick
<1>5. \A g \in Fighters : launched[g] \subseteq DOMAIN effects'
  BY <1>1
<1> QED BY <1>1, <1>2, <1>4, <1>5, SameLiving, StartStep

LEMMA AppearsMourned ==
  ASSUME MournInv, NEW f \in Fighters, summon(f) \/ resurrect(f)
  PROVE  Mourning'
<1>1. todo = <<>> /\ Appears(f) /\ SameLines
  BY AppearsCalm DEF MournInv, summon, resurrect
<1> DEFINE pinned == [n \in 1 .. Pins[f] |-> SummonState]
<1>2. /\ effects' = effects /\ launched' = launched
      /\ todo' = lines(f, "innate", pinned, {f})
  BY <1>1, Zenon DEF Appears, lists
<1>3. Living \subseteq Living'
  BY <1>1 DEF Appears, Living, alive, MournInv, DeadInv, IInv, Fighting
<1>4. "innate" \in Origins /\ pinned \in Seq(EffectParams) /\ {f} \in SUBSET Fighters
  BY PinnedAre DEF Origins
<1> HIDE DEF pinned
<1>5. todo' \in Seq(Rough)
  BY <1>2, <1>4, RoughLines
<1>6. \A g \in Fighters : launched[g] \subseteq DOMAIN effects'
  BY <1>2, Listed DEF MournInv, DeadInv
<1> QED BY <1>1, <1>2, <1>3, <1>5, <1>6, StartStep

LEMMA UseMourned ==
  ASSUME MournInv, NEW item \in DOMAIN Items, NEW area \in Areas, use_item(item, area)
  PROVE  Mourning'
<1>1. todo = <<>> /\ SameLines
  BY UseCalm DEF MournInv
<1>2. actor \in Fighters /\ item \in Origins /\ Items[item] \in Seq(EffectParams)
      /\ area \cap Living \in SUBSET Fighters
  BY CatalogAssumption DEF use_item, Acts, MournInv, DeadInv, IInv, Fighting, Origins, Living
<1>3. /\ effects' = effects /\ launched' = launched /\ life' = life
      /\ todo' = lines(actor, item, Items[item], area \cap Living)
  BY DEF use_item, lists
<1>4. todo' \in Seq(Rough)
  BY <1>2, <1>3, RoughLines
<1>5. \A g \in Fighters : launched[g] \subseteq DOMAIN effects'
  BY <1>3, Listed DEF MournInv, DeadInv
<1> QED BY <1>1, <1>3, <1>4, <1>5, SameLiving, StartStep

(* An effect that spreads is no aftereffect: its caster lives.              *)
LEMMA EndTurnMourned ==
  ASSUME MournInv, end_entity_turn
  PROVE  Mourning'
<1> DEFINE ids == { e \in suffered[actor] : effects[e].line.propagates }
<1>1. actor \in Fighters /\ todo = <<>> /\ SameLines
  BY EndTurnCalm DEF end_entity_turn, MournInv, DeadInv, IInv, Fighting
<1>2. effects' = effects /\ launched' = launched /\ life' = life
  BY DEF end_entity_turn, lists
<1>3. ids \in SUBSET DOMAIN effects /\ ids \in SUBSET Ids
  BY <1>1 DEF MournInv, DeadInv, IInv, Agree, Arena
<1>4. ASSUME NEW e \in ids PROVE Spreads(e)
  <2>1. e \in DOMAIN effects /\ effects[e] \in Effect /\ e \in suffered[actor]
    BY <1>3, <1>4 DEF MournInv, DeadInv, IInv, Arena
  <2>2. effects[e].line.effect # "aftereffect"
    BY <1>4, <2>1 DEF Effect, EffectParams
  <2>3. effects[e].line.effect \in Storable
    BY <2>1, <2>2 DEF MournInv, Mourning, Stocked
  <2>4. effects[e].caster \in Fighters /\ e \in launched[effects[e].caster]
    BY <1>1, <2>1 DEF MournInv, DeadInv, IInv, Agree, Effect
  <2>5. ~Awaits(todo, effects[e].caster)
    BY <1>1 DEF Awaits
  <2>6. effects[e].caster \in Living
    BY <2>2, <2>4, <2>5 DEF MournInv, Mourning, Mourned
  <2> QED BY <2>1, <2>3, <2>6 DEF Spreads
<1>5. todo' = IF alive(actor) THEN spread(actor, ids) ELSE <<>>
  BY Zenon DEF end_entity_turn
<1> HIDE DEF ids
<1>6. spread(actor, ids) \in Seq(Gentle)
  BY <1>1, <1>3, <1>4, SpreadGentle
<1>7. todo' \in Seq(Gentle')
  <2>1. todo' \in Seq(Gentle)
    BY <1>5, <1>6, Sequences, Zenon
  <2> QED BY <1>2, <2>1, NothingMoves
<1>8. \A g \in Fighters : launched[g] \subseteq DOMAIN effects'
  BY <1>2, Listed DEF MournInv, DeadInv
<1> QED BY <1>1, <1>2, <1>7, <1>8, SameLiving, StartStep
-----------------------------------------------------------------------------
LEMMA MournInitially == Init => MournInv
<1> SUFFICES ASSUME Init PROVE MournInv
  OBVIOUS
<1>1. Stacked(todo)
  <2>1. todo \in Seq(Gentle) /\ <<>> \in Seq(Rough) /\ todo = todo \o <<>>
    BY ConcatEmptySeq DEF Init
  <2> QED BY <2>1, Zenon DEF Stacked
<1>2. Stocked /\ Mourned
  BY DEF Init, Stocked, Mourned
<1> QED BY <1>1, <1>2, DeadInitially DEF MournInv, Mourning

LEMMA MournStep ==
  ASSUME MournInv, IInv', [Next]_vars
  PROVE  Mourning'
<1>1. CASE UNCHANGED vars \/ finished
  <2>1. UNCHANGED <<life, effects, launched, todo>>
    BY <1>1 DEF vars, lists, finished
  <2>2. Gentle' = Gentle /\ Rough' = Rough
    BY <2>1, NothingMoves DEF Rough, Storing
  <2>3. Stacked(todo)'
    BY <2>1, <2>2, Zenon DEF MournInv, Mourning, Stacked
  <2>4. Stocked' /\ Mourned'
    BY <2>1 DEF MournInv, Mourning, Stocked, Mourned, Awaits, Living, alive, Storable
  <2> QED BY <2>3, <2>4 DEF Mourning
<1>2. CASE create \/ store_merged \/ store_new \/ store_nothing
  BY <1>2, CreateMourned, StoredMourned, StoreNewMourned, Zenon
<1>3. CASE apply_damage \/ apply_effect_poison \/ apply_effect_heal \/ apply_aftereffect
  BY <1>3, DamageMourned, StoringMourned, HealMourned, AftereffectMourned, Zenon
<1>4. CASE apply_effect_stat_carrier \/ apply_add_state \/ reduce_effects \/ clear_poisons
  BY <1>4, StoringMourned, CuringMourned, Zenon
<1>5. CASE life_steal \/ return_damage \/ activate_passive \/ dies
  BY <1>5, StealMourned, ReturnMourned, PassiveMourned, DiesMourned, Zenon
<1>6. CASE next_line \/ next_target
  BY <1>6, LineMourned, TargetMourned, Zenon
<1>7. ASSUME NEW f \in Fighters, start_turn(f) \/ summon(f) \/ resurrect(f)
      PROVE  Mourning'
  BY <1>7, StartTurnMourned, AppearsMourned, Zenon
<1>8. ASSUME NEW item \in DOMAIN Items, NEW area \in Areas, use_item(item, area)
      PROVE  Mourning'
  BY <1>8, UseMourned, Zenon
<1>9. CASE tick_poison \/ tick_heal \/ tick_aftereffect \/ tick_other \/ dies_ticking \/ expire
  BY <1>9, TickingMourned, TickHealMourned, AgingMourned, Zenon
<1>10. CASE end_entity_turn \/ propagate_effects \/ infect_next
  BY <1>10, EndTurnMourned, PropagateMourned, InfectMourned, Zenon
<1> QED
  BY <1>1, <1>2, <1>3, <1>4, <1>5, <1>6, <1>7, <1>8, <1>9, <1>10, Zenon DEF Next

(* Nobody suffers from what the dead have cast, but for the aftereffects    *)
(* stored as they fell, in every fight.                                     *)
THEOREM TheDeadNeverLaunch == Spec => []TheDeadLaunchNothing
<1>1. MournInv /\ [Next]_vars => MournInv'
  BY MournStep, DeadStep, Step DEF MournInv, DeadInv
<1>2. MournInv => TheDeadLaunchNothing
  <2> SUFFICES ASSUME MournInv, todo = <<>>, NEW f \in Fighters, ~alive(f), NEW e \in launched[f]
               PROVE  effects[e].line.effect = "aftereffect"
    BY DEF TheDeadLaunchNothing
  <2>1. ~Awaits(todo, f) /\ f \notin Living
    BY DEF Awaits, Living
  <2> QED BY <2>1 DEF MournInv, Mourning, Mourned
<1> QED BY <1>1, <1>2, MournInitially, PTL DEF Spec
=============================================================================
