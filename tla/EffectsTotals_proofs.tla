------------------------ MODULE EffectsTotals_proofs ------------------------
(***************************************************************************)
(* Proofs about Effects, for any fighters, catalog and bounds: the totals  *)
(* of a fighter are what the effects on it add up to, through everything   *)
(* that merges, halves, replaces and drops them.                           *)
(***************************************************************************)
EXTENDS Effects_proofs, FiniteSetTheorems

(* The sets that Carried and Pinned count.                                  *)
AllPips(fx, ids) == UNION { Pips(e, fx) : e \in { i \in ids : fx[i].line.effect \in Carriers } }
StatesIn(fx, ids) == { e \in ids : fx[e].line.effect = "add_state" }
-----------------------------------------------------------------------------
LEMMA PipsOfOne ==
  ASSUME NEW fx, NEW e, fx[e].value \in Nat
  PROVE  IsFiniteSet(Pips(e, fx)) /\ Cardinality(Pips(e, fx)) = fx[e].value
<1> DEFINE v == fx[e].value
<1>1. IsFiniteSet(1 .. v) /\ Cardinality(1 .. v) = v
  <2>1. v \in Nat
    OBVIOUS
  <2> HIDE DEF v
  <2>2. /\ IsFiniteSet(1 .. v)
        /\ Cardinality(1 .. v) = IF 1 > v THEN 0 ELSE v - 1 + 1
    BY <2>1, FS_Interval
  <2> QED BY <2>1, <2>2
<1>2. IsFiniteSet({e}) /\ Cardinality({e}) = 1
  BY FS_Singleton, Zenon
<1>3. IsFiniteSet({e} \X (1 .. v)) /\ Cardinality({e} \X (1 .. v)) = Cardinality({e}) * Cardinality(1 .. v)
  BY <1>1, <1>2, FS_Product, Zenon
<1>4. {e} \X (1 .. v) = Pips(e, fx)
  BY DEF Pips
<1> HIDE DEF v
<1>5. Cardinality({e}) * Cardinality(1 .. v) = v
  BY <1>1, <1>2 DEF v
<1> QED BY <1>3, <1>4, <1>5, Zenon DEF v

LEMMA IdsAreFinite ==
  ASSUME NEW ids \in SUBSET Ids
  PROVE  IsFiniteSet(ids)
<1>1. IsFiniteSet(Ids)
  BY FS_Interval, BoundsAssumption DEF Ids
<1> QED BY <1>1, FS_Subset

LEMMA PipIn ==
  ASSUME NEW fx, NEW ids, NEW p
  PROVE  p \in AllPips(fx, ids) <=> \E e \in ids : fx[e].line.effect \in Carriers /\ p \in Pips(e, fx)
BY Zenon DEF AllPips

LEMMA PipsAreFinite ==
  ASSUME NEW fx, Arena(fx), NEW ids \in SUBSET DOMAIN fx
  PROVE  /\ IsFiniteSet(AllPips(fx, ids)) /\ IsFiniteSet(StatesIn(fx, ids))
<1> DEFINE C == { i \in ids : fx[i].line.effect \in Carriers }
           F == [e \in C |-> Pips(e, fx)]
           T == { Pips(e, fx) : e \in C }
<1>1. IsFiniteSet(C) /\ IsFiniteSet(StatesIn(fx, ids))
  BY IdsAreFinite DEF Arena, StatesIn
<1>2. \A e \in C : IsFiniteSet(Pips(e, fx))
  BY PipsOfOne DEF Arena, Effect
<1> HIDE DEF C
<1>3. F \in Surjection(C, T)
  BY DEF Surjection
<1>4. IsFiniteSet(T)
  <2> HIDE DEF F, T
  <2> QED BY <1>1, <1>3, FS_Surjection
<1>5. \A t \in T : IsFiniteSet(t)
  BY <1>2
<1>6. IsFiniteSet(UNION T)
  <2> HIDE DEF T
  <2> QED BY <1>4, <1>5, FS_UNION
<1>7. UNION T = AllPips(fx, ids)
  BY DEF AllPips, C
<1> QED BY <1>1, <1>6, <1>7, Zenon

LEMMA TotalsAreNumbers ==
  ASSUME NEW fx, Arena(fx), NEW ids \in SUBSET DOMAIN fx
  PROVE  Carried(fx, ids) \in Nat /\ Pinned(fx, ids) \in Nat
<1>1. IsFiniteSet(AllPips(fx, ids)) /\ IsFiniteSet(StatesIn(fx, ids))
  BY PipsAreFinite
<1>2. Cardinality(AllPips(fx, ids)) \in Nat /\ Cardinality(StatesIn(fx, ids)) \in Nat
  BY <1>1, FS_CardinalityType
<1> QED BY <1>2, Zenon DEF Carried, AllPips, Pinned, StatesIn

(* One more effect counts for what it is worth.                             *)
LEMMA OneMore ==
  ASSUME NEW fx, Arena(fx), NEW ids \in SUBSET DOMAIN fx, NEW e \in DOMAIN fx, e \notin ids
  PROVE  /\ Carried(fx, ids \cup {e})
              = Carried(fx, ids) + (IF fx[e].line.effect \in Carriers THEN fx[e].value ELSE 0)
         /\ Pinned(fx, ids \cup {e})
              = Pinned(fx, ids) + (IF fx[e].line.effect = "add_state" THEN 1 ELSE 0)
<1> DEFINE S == AllPips(fx, ids)
           T == Pips(e, fx)
           P == StatesIn(fx, ids)
<1>1. IsFiniteSet(S) /\ IsFiniteSet(P)
  BY PipsAreFinite
<1>2. fx[e].value \in Nat
  BY DEF Arena, Effect
<1>3. IsFiniteSet(T) /\ Cardinality(T) = fx[e].value
  BY <1>2, PipsOfOne
<1>4. S \cap T = {}
  <2>1. \A p \in S : p[1] \in ids
    BY PipIn DEF Pips
  <2>2. \A p \in T : p[1] = e
    BY DEF Pips
  <2> HIDE DEF S, T
  <2> QED BY <2>1, <2>2
<1>5. AllPips(fx, ids \cup {e}) = IF fx[e].line.effect \in Carriers THEN S \cup T ELSE S
  BY Zenon DEF AllPips
<1>6. StatesIn(fx, ids \cup {e}) = IF fx[e].line.effect = "add_state" THEN P \cup {e} ELSE P
  BY DEF StatesIn
<1>7. e \notin P
  BY DEF StatesIn
<1> HIDE DEF S, T, P
<1>8. Cardinality(S) \in Nat /\ Cardinality(P) \in Nat
  BY <1>1, FS_CardinalityType
<1>9. Cardinality(S \cup T) = Cardinality(S) + fx[e].value
  <2>1. Cardinality(S \cup T) = Cardinality(S) + Cardinality(T) - Cardinality({})
    BY <1>1, <1>3, <1>4, FS_Union
  <2>2. Cardinality({}) = 0
    BY FS_EmptySet, Zenon
  <2> QED BY <1>2, <1>3, <1>8, <2>1, <2>2
<1>10. Cardinality(P \cup {e}) = Cardinality(P) + 1
  BY <1>1, <1>7, FS_AddElement
<1>11. /\ Carried(fx, ids) = Cardinality(S) /\ Pinned(fx, ids) = Cardinality(P)
       /\ Carried(fx, ids \cup {e}) = Cardinality(AllPips(fx, ids \cup {e}))
       /\ Pinned(fx, ids \cup {e}) = Cardinality(StatesIn(fx, ids \cup {e}))
  BY Zenon DEF Carried, AllPips, Pinned, StatesIn, S, P
<1>12. /\ Carried(fx, ids \cup {e}) = IF fx[e].line.effect \in Carriers
                                      THEN Cardinality(S \cup T) ELSE Cardinality(S)
       /\ Pinned(fx, ids \cup {e}) = IF fx[e].line.effect = "add_state"
                                     THEN Cardinality(P \cup {e}) ELSE Cardinality(P)
  BY <1>5, <1>6, <1>11, Zenon
<1> QED BY <1>8, <1>9, <1>10, <1>11, <1>12

(* Totals depend on what each effect is, and on what a carrier is worth.    *)
SameWorth(gx, fx, ids) ==
  \A e \in ids : /\ gx[e].line = fx[e].line
                 /\ fx[e].line.effect \in Carriers => gx[e].value = fx[e].value

LEMMA WorthTheSame ==
  ASSUME NEW fx, NEW gx, NEW ids, SameWorth(gx, fx, ids)
  PROVE  Carried(gx, ids) = Carried(fx, ids) /\ Pinned(gx, ids) = Pinned(fx, ids)
<1>1. \A e \in ids : gx[e].line.effect = fx[e].line.effect
  BY DEF SameWorth
<1>2. \A e \in ids : fx[e].line.effect \in Carriers => Pips(e, gx) = Pips(e, fx)
  BY Zenon DEF SameWorth, Pips
<1>3. \A e \in ids : fx[e].line.effect \in Carriers <=> gx[e].line.effect \in Carriers
  BY <1>1, Zenon
<1>4. AllPips(gx, ids) = AllPips(fx, ids)
  BY <1>2, <1>3, Zenon DEF AllPips
<1>5. StatesIn(gx, ids) = StatesIn(fx, ids)
  BY <1>1, Zenon DEF StatesIn
<1> QED BY <1>4, <1>5, Zenon DEF Carried, AllPips, Pinned, StatesIn
-----------------------------------------------------------------------------
(***************************************************************************)
(* The calls.  A line adds to a total and puts the call that will store it *)
(* on top, where nothing comes in between: below, only aftereffects wait   *)
(* to be stored, and they count in no total.                               *)
(***************************************************************************)
Counted == Carriers \cup {"add_state"}

Quiet == { c \in Calls(Ids) : c.op = "store" => c.line.effect = "aftereffect" }

Counting(s) == s # <<>> /\ Head(s).op = "store" /\ Head(s).line.effect \in Counted

LEMMA QuietOne ==
  ASSUME NEW c \in Calls(Ids), c.op # "store" \/ c.line.effect = "aftereffect"
  PROVE  c \in Quiet /\ <<c>> \in Seq(Quiet)
<1>1. c \in Quiet
  BY Zenon DEF Quiet
<1> QED BY <1>1, Sequences, Zenon

LEMMA QuietSome ==
  ASSUME NEW left, NEW call, While(left, call) \in Seq(Calls(Ids)), call.op # "store"
  PROVE  While(left, call) \in Seq(Quiet)
<1>1. CASE left = {}
  BY <1>1, Sequences, Zenon DEF While
<1>2. CASE left # {}
  <2>1. While(left, call) = <<call>>
    BY <1>2 DEF While
  <2>2. <<call>> \in Seq(Calls(Ids))
    BY <2>1
  <2>3. call \in Calls(Ids)
    BY <2>2
  <2> QED BY <2>1, <2>3, QuietOne, Zenon
<1> QED BY <1>1, <1>2

LEMMA QuietPassives ==
  ASSUME NEW who
  PROVE  fire_passives(who) \in Seq(Quiet)
<1> DEFINE call == [op |-> "passives", who |-> who \cap Armed]
<1>1. While(who \cap Armed, call) \in Seq(Calls(Ids))
  BY PassivesCalls, Zenon DEF fire_passives
<1>2. call.op # "store"
  OBVIOUS
<1> HIDE DEF call
<1>3. While(who \cap Armed, call) \in Seq(Quiet)
  BY <1>1, <1>2, QuietSome, Zenon
<1> QED BY <1>3, Zenon DEF fire_passives, call

LEMMA QuietDie ==
  ASSUME NEW who \in SUBSET Fighters
  PROVE  die(who) \in Seq(Quiet)
<1> DEFINE call == [op |-> "die", who |-> who]
<1>1. While(who, call) \in Seq(Calls(Ids))
  BY DieCalls, Zenon DEF die
<1>2. call.op # "store"
  OBVIOUS
<1> HIDE DEF call
<1>3. While(who, call) \in Seq(Quiet)
  BY <1>1, <1>2, QuietSome, Zenon
<1> QED BY <1>3, Zenon DEF die, call

LEMMA QuietCreate ==
  ASSUME NEW line \in EffectParams, NEW item \in Origins, NEW by \in Fighters, NEW to \in Fighters
  PROVE  <<create_effect(line, item, by, to)>> \in Seq(Quiet)
<1>1. create_effect(line, item, by, to) \in LineCalls /\ create_effect(line, item, by, to).op # "store"
  BY DEF create_effect, LineCalls
<1>2. create_effect(line, item, by, to) \in Calls(Ids)
  BY <1>1, Zenon DEF Calls
<1> QED BY <1>1, <1>2, QuietOne, Zenon

LEMMA QuietLines ==
  ASSUME NEW by \in Fighters, NEW item \in Origins, NEW rest \in Seq(EffectParams),
         NEW area \in SUBSET Fighters
  PROVE  lines(by, item, rest, area) \in Seq(Quiet)
<1> DEFINE call == [op |-> "lines", by |-> by, item |-> item, rest |-> rest, area |-> area]
           left == { i \in DOMAIN rest : TRUE }
<1>1. While(left, call) \in Seq(Calls(Ids))
  BY LinesGoOn, Zenon DEF lines
<1>2. call.op # "store"
  OBVIOUS
<1> HIDE DEF call, left
<1>3. While(left, call) \in Seq(Quiet)
  BY <1>1, <1>2, QuietSome, Zenon
<1> QED BY <1>3, Zenon DEF lines, call, left

LEMMA QuietTargets ==
  ASSUME NEW line \in EffectParams, NEW item \in Origins, NEW by \in Fighters,
         NEW who \in SUBSET Fighters
  PROVE  over_targets(line, item, by, who) \in Seq(Quiet)
<1> DEFINE call == [op |-> "targets", line |-> line, item |-> item, by |-> by, who |-> who]
<1>1. While(who, call) \in Seq(Calls(Ids))
  BY OverTargets, Zenon DEF over_targets
<1>2. call.op # "store"
  OBVIOUS
<1> HIDE DEF call
<1>3. While(who, call) \in Seq(Quiet)
  BY <1>1, <1>2, QuietSome, Zenon
<1> QED BY <1>3, Zenon DEF over_targets, call

LEMMA QuietTick ==
  ASSUME NEW f \in Fighters, NEW ids \in SUBSET Ids
  PROVE  <<tick(f, ids)>> \in Seq(Quiet)
<1>1. tick(f, ids) \in TickCalls(Ids) /\ tick(f, ids).op # "store"
  BY DEF tick, TickCalls
<1>2. tick(f, ids) \in Calls(Ids)
  BY <1>1, Zenon DEF Calls
<1> QED BY <1>1, <1>2, QuietOne, Zenon

LEMMA QuietSpread ==
  ASSUME NEW f \in Fighters, NEW ids \in SUBSET Ids
  PROVE  spread(f, ids) \in Seq(Quiet)
<1> DEFINE call == [op |-> "spread", f |-> f, ids |-> ids]
<1>1. While(ids, call) \in Seq(Calls(Ids))
  BY SpreadGoesOn, Zenon DEF spread
<1>2. call.op # "store"
  OBVIOUS
<1> HIDE DEF call
<1>3. While(ids, call) \in Seq(Quiet)
  BY <1>1, <1>2, QuietSome, Zenon
<1> QED BY <1>3, Zenon DEF spread, call

LEMMA QuietInfect ==
  ASSUME NEW ei \in Ids, NEW who \in SUBSET Fighters
  PROVE  infect(ei, who) \in Seq(Quiet)
<1> DEFINE call == [op |-> "infect", ei |-> ei, who |-> who]
<1>1. While(who, call) \in Seq(Calls(Ids))
  BY InfectGoesOn, Zenon DEF infect
<1>2. call.op # "store"
  OBVIOUS
<1> HIDE DEF call
<1>3. While(who, call) \in Seq(Quiet)
  BY <1>1, <1>2, QuietSome, Zenon
<1> QED BY <1>3, Zenon DEF infect, call
-----------------------------------------------------------------------------
(***************************************************************************)
(* What each step puts on top of the calls.                                *)
(***************************************************************************)
Below == todo # <<>> => Tail(todo) \in Seq(Quiet)

Passes == \E calls \in Seq(Quiet) : Then(calls)

LEMMA PassesQuietly ==
  ASSUME Below, todo # <<>>, Passes
  PROVE  todo' \in Seq(Quiet)
<1>1. PICK calls \in Seq(Quiet) : todo' = calls \o Tail(todo)
  BY Zenon DEF Passes, Then
<1>2. Tail(todo) \in Seq(Quiet)
  BY DEF Below
<1> QED BY <1>1, <1>2, Sequences, Zenon

LEMMA QuietBelow ==
  ASSUME NEW s \in Seq(Quiet)
  PROVE  ~Counting(s) /\ (s # <<>> => Tail(s) \in Seq(Quiet))
<1>1. s # <<>> => Head(s) \in Quiet /\ Tail(s) \in Seq(Quiet)
  BY HeadTailProperties
<1>2. "aftereffect" \notin Counted
  BY DEF Counted, Carriers
<1>3. \A c \in Quiet : c.op = "store" => c.line.effect \notin Counted
  BY <1>2, Zenon DEF Quiet
<1> QED BY <1>1, <1>3, Zenon DEF Counting

LEMMA BlowPasses ==
  ASSUME NEW f \in Fighters, NEW amount, NEW attacker, NEW after \in Seq(Quiet),
         remove_life(f, amount, attacker, after)
  PROVE  Passes
<1> DEFINE falls == IF alive(f) /\ amount >= life[f]
                    THEN on_player_die(f, attacker) \o die({f}) ELSE <<>>
<1>1. on_player_die(f, attacker) \in Seq(Quiet)
  BY QuietPassives, Sequences, Zenon DEF on_player_die
<1>2. die({f}) \in Seq(Quiet)
  BY QuietDie
<1>3. falls \in Seq(Quiet)
  BY <1>1, <1>2, Sequences, Zenon
<1>4. Then(falls \o after)
  BY Zenon DEF remove_life
<1> HIDE DEF falls
<1>5. falls \o after \in Seq(Quiet)
  BY <1>3, Sequences, Zenon
<1> QED BY <1>4, <1>5, Zenon DEF Passes

LEMMA NothingPasses == Then(<<>>) => Passes
BY Sequences, Zenon DEF Passes

LEMMA DamagePasses ==
  ASSUME IInv, apply_damage
  PROVE  Passes
<1>1. Call.by \in Fighters /\ Call.to \in Fighters
  BY Applied, Zenon DEF apply_damage
<1> DEFINE answers(n) == IF Call.to = Call.by THEN <<>>
                         ELSE <<[op |-> "steal", f |-> Call.by, n |-> n],
                                [op |-> "return", f |-> Call.by, by |-> Call.to]>>
<1>2. PICK n \in 0 .. Least(MaxAmount, life[Call.to]) :
        remove_life(Call.to, n, Call.by, fire_passives({Call.to}) \o answers(n))
  BY Zenon DEF apply_damage
<1>3. n \in Nat
  BY <1>1 DEF Least, IInv, Fighting
<1>4. /\ [op |-> "steal", f |-> Call.by, n |-> n] \in Quiet
      /\ [op |-> "return", f |-> Call.by, by |-> Call.to] \in Quiet
  <2>1. /\ [op |-> "steal", f |-> Call.by, n |-> n] \in StealCalls
        /\ [op |-> "return", f |-> Call.by, by |-> Call.to] \in ReturnCalls
    BY <1>1, <1>3 DEF StealCalls, ReturnCalls
  <2>2. /\ [op |-> "steal", f |-> Call.by, n |-> n] \in Calls(Ids)
        /\ [op |-> "return", f |-> Call.by, by |-> Call.to] \in Calls(Ids)
    BY <2>1, Zenon DEF Calls
  <2>3. /\ [op |-> "steal", f |-> Call.by, n |-> n].op # "store"
        /\ [op |-> "return", f |-> Call.by, by |-> Call.to].op # "store"
    OBVIOUS
  <2> QED BY <2>2, <2>3, QuietOne, Zenon
<1>5. \A a, b \in Quiet : <<a, b>> \in Seq(Quiet)
  OBVIOUS
<1>6. answers(n) \in Seq(Quiet)
  BY <1>4, <1>5, Sequences, Zenon
<1> HIDE DEF answers
<1>7. fire_passives({Call.to}) \o answers(n) \in Seq(Quiet)
  BY <1>6, QuietPassives, Sequences, Zenon
<1> QED BY <1>1, <1>2, <1>7, BlowPasses, Zenon

LEMMA AftereffectPasses ==
  ASSUME IInv, apply_aftereffect
  PROVE  Passes
<1>1. Call \in LineCalls /\ Call.to \in Fighters /\ Call.line.effect = "aftereffect"
  BY Applied, Zenon DEF apply_aftereffect, Applying
<1>2. PICK n \in Amounts :
        remove_life(Call.to, Least(n, life[Call.to]), Call.by,
                    fire_passives({Call.to}) \o <<Store(Least(n, life[Call.to]))>>)
  BY Zenon DEF apply_aftereffect
<1> DEFINE value == Least(n, life[Call.to])
<1>3. value \in Nat
  BY <1>1, AmountsAreNumbers DEF Least, IInv, Fighting
<1> HIDE DEF value
<1>4. Store(value) \in StoreCalls /\ Store(value).line.effect = "aftereffect"
  BY <1>1, <1>3 DEF Store, StoreCalls, LineCalls
<1>5. Store(value) \in Calls(Ids)
  BY <1>4, Zenon DEF Calls
<1>6. fire_passives({Call.to}) \o <<Store(value)>> \in Seq(Quiet)
  BY <1>4, <1>5, QuietOne, QuietPassives, Sequences, Zenon
<1>7. remove_life(Call.to, value, Call.by, fire_passives({Call.to}) \o <<Store(value)>>)
  BY <1>2 DEF value
<1> QED BY <1>1, <1>6, <1>7, BlowPasses, Zenon

LEMMA ReturnPasses ==
  ASSUME IInv, return_damage
  PROVE  Passes
<1>1. Call \in ReturnCalls
  BY CallIs, Zenon DEF IInv, return_damage
<1>2. Call.f \in Fighters
  BY <1>1 DEF ReturnCalls
<1>3. \E n : remove_life(Call.f, n, Call.by, fire_passives({Call.f}))
  BY Zenon DEF return_damage
<1> QED BY <1>2, <1>3, BlowPasses, QuietPassives, Zenon

LEMMA PassivePasses ==
  ASSUME IInv, activate_passive
  PROVE  Passes
<1>1. Call \in CrowdCalls
  BY CallIs, Zenon DEF IInv, activate_passive
<1> DEFINE f == First(Call.who)
           one == IF alive(f) THEN <<create_effect(PassiveLine, "passive", f, f)>> ELSE <<>>
<1>2. f \in Fighters
  BY <1>1, FirstFighter DEF CrowdCalls, Some
<1>3. Then(one \o fire_passives(Call.who \ {f}))
  BY Zenon DEF activate_passive
<1>4. "passive" \in Origins
  BY DEF Origins
<1> HIDE DEF f
<1>5. one \in Seq(Quiet)
  BY <1>2, <1>4, PassiveLineIsOne, QuietCreate, Sequences, Zenon
<1> HIDE DEF one
<1>6. one \o fire_passives(Call.who \ {f}) \in Seq(Quiet)
  BY <1>5, QuietPassives, Sequences, Zenon
<1> QED BY <1>3, <1>6, Zenon DEF Passes

LEMMA DiesPasses ==
  ASSUME IInv, dies
  PROVE  Passes
<1>1. Call \in CrowdCalls
  BY CallIs, Zenon DEF IInv, dies
<1> DEFINE f == First(Call.who)
           summons == { g \in entered \ {f} : alive(g) /\ Summoner[g] = f }
<1>2. Call.who \in SUBSET Fighters
  BY <1>1 DEF CrowdCalls, Some
<1>3. Then(die(summons) \o die(Call.who \ {f}))
  BY Zenon DEF dies, Call
<1> HIDE DEF f
<1>4. summons \in SUBSET Fighters /\ Call.who \ {f} \in SUBSET Fighters
  BY <1>2 DEF IInv, Fighting
<1> HIDE DEF summons
<1>5. die(summons) \o die(Call.who \ {f}) \in Seq(Quiet)
  BY <1>4, QuietDie, Sequences, Zenon
<1> QED BY <1>3, <1>5, Zenon DEF Passes

LEMMA LinePasses ==
  ASSUME IInv, next_line
  PROVE  Passes
<1> DEFINE line == Head(Call.rest)
           who == IF alive(Call.by) THEN Reached(line) ELSE {}
<1>1. Call \in LinesCalls
  BY CallIs, Zenon DEF IInv, next_line
<1>2. /\ Call.by \in Fighters /\ Call.item \in Origins /\ Call.area \in SUBSET Fighters
      /\ Call.rest \in Seq(EffectParams) /\ Call.rest # <<>>
  BY <1>1 DEF LinesCalls
<1>3. line \in EffectParams /\ Tail(Call.rest) \in Seq(EffectParams)
  BY <1>2, HeadTailProperties
<1>4. who \in SUBSET Fighters
  BY <1>2 DEF Reached
<1>5. Then(over_targets(line, Call.item, Call.by, who)
             \o lines(Call.by, Call.item, Tail(Call.rest), Call.area))
  BY Zenon DEF next_line
<1> HIDE DEF line, who
<1>6. over_targets(line, Call.item, Call.by, who)
        \o lines(Call.by, Call.item, Tail(Call.rest), Call.area) \in Seq(Quiet)
  BY <1>2, <1>3, <1>4, QuietTargets, QuietLines, Sequences, Zenon
<1> QED BY <1>5, <1>6, Zenon DEF Passes

LEMMA TargetPasses ==
  ASSUME IInv, next_target
  PROVE  Passes
<1> DEFINE f == First(Call.who)
<1>1. Call \in TargetsCalls
  BY CallIs, Zenon DEF IInv, next_target
<1>2. /\ Call.line \in EffectParams /\ Call.item \in Origins /\ Call.by \in Fighters
      /\ Call.who \in SUBSET Fighters /\ Call.who # {}
  BY <1>1 DEF TargetsCalls, Some
<1>3. f \in Fighters /\ Call.who \ {f} \in SUBSET Fighters
  BY <1>2, FirstFighter
<1>4. Then(<<create_effect(Call.line, Call.item, Call.by, f)>>
             \o over_targets(Call.line, Call.item, Call.by, Call.who \ {f}))
  BY Zenon DEF next_target
<1> HIDE DEF f
<1>5. <<create_effect(Call.line, Call.item, Call.by, f)>>
        \o over_targets(Call.line, Call.item, Call.by, Call.who \ {f}) \in Seq(Quiet)
  BY <1>2, <1>3, QuietCreate, QuietTargets, Sequences, Zenon
<1> QED BY <1>4, <1>5, Zenon DEF Passes

LEMMA RestIsQuiet ==
  ASSUME IInv, Running("tick")
  PROVE  Rest \in Seq(Quiet) /\ Call.f \in Fighters
<1>1. Call.f \in Fighters /\ Call.ids \in SUBSET DOMAIN effects
  BY TickIs, Zenon
<1>2. Call.ids \ {First(Call.ids)} \in SUBSET Ids
  BY <1>1 DEF IInv, Arena
<1> QED BY <1>1, <1>2, QuietTick, Zenon DEF Rest

LEMMA TickingPasses ==
  ASSUME IInv, tick_poison \/ tick_heal \/ tick_aftereffect \/ tick_other \/ dies_ticking
  PROVE  Passes
<1>1. Running("tick")
  BY DEF tick_poison, tick_heal, tick_aftereffect, tick_other, dies_ticking, Ticking
<1>2. Rest \in Seq(Quiet) /\ Call.f \in Fighters
  BY <1>1, RestIsQuiet
<1>3. fire_passives({Call.f}) \o Rest \in Seq(Quiet)
  BY <1>2, QuietPassives, Sequences, Zenon
<1>4. CASE tick_poison \/ tick_aftereffect
  <2>1. \E n, attacker : remove_life(Call.f, n, attacker, fire_passives({Call.f}) \o Rest)
    BY <1>4, Zenon DEF tick_poison, tick_aftereffect
  <2> QED BY <1>2, <1>3, <2>1, BlowPasses, Zenon
<1>5. CASE tick_heal \/ tick_other \/ dies_ticking
  BY <1>2, <1>5, NothingPasses, Zenon DEF tick_heal, tick_other, dies_ticking, Passes
<1> QED BY <1>4, <1>5

LEMMA PropagatePasses ==
  ASSUME IInv, propagate_effects
  PROVE  Passes
<1> DEFINE e == First(Call.ids)
<1>1. Call \in SpreadCalls(DOMAIN effects)
  BY CallIs, Zenon DEF IInv, propagate_effects
<1>2. Call.f \in Fighters /\ Call.ids \in SUBSET DOMAIN effects /\ Call.ids # {}
  BY <1>1 DEF SpreadCalls, Some
<1>3. e \in Ids /\ Call.ids \ {e} \in SUBSET Ids
  BY <1>2, FirstId DEF IInv, Arena
<1>4. PICK around \in SUBSET (Living \ {Call.f}) :
        Then(infect(e, around) \o spread(Call.f, Call.ids \ {e}))
  BY Zenon DEF propagate_effects
<1>5. around \in SUBSET Fighters
  BY DEF Living
<1> HIDE DEF e
<1>6. infect(e, around) \o spread(Call.f, Call.ids \ {e}) \in Seq(Quiet)
  BY <1>2, <1>3, <1>5, QuietInfect, QuietSpread, Sequences, Zenon
<1> QED BY <1>4, <1>6, Zenon DEF Passes

LEMMA InfectPasses ==
  ASSUME IInv, infect_next
  PROVE  Passes
<1> DEFINE f == First(Call.who)
           e == effects[Call.ei]
           line == SpreadLine(e.line)
           one == IF "not_replaceable" \in e.line.propagation /\ has_effect(f, e.item) THEN <<>>
                  ELSE <<create_effect(line, e.item, e.caster, f)>>
<1>1. Call \in InfectCalls(DOMAIN effects)
  BY CallIs, Zenon DEF IInv, infect_next
<1>2. Call.ei \in DOMAIN effects /\ Call.who \in SUBSET Fighters /\ Call.who # {}
  BY <1>1 DEF InfectCalls, Some
<1>3. f \in Fighters /\ Call.ei \in Ids /\ Call.who \ {f} \in SUBSET Fighters
  BY <1>2, FirstFighter DEF IInv, Arena
<1>4. line \in EffectParams /\ e.item \in Origins /\ e.caster \in Fighters
  BY <1>2, SpreadLineIsOne DEF IInv, Arena, Effect
<1>5. Then(one \o infect(Call.ei, Call.who \ {f}))
  BY Zenon DEF infect_next
<1> HIDE DEF f, e, line
<1>6. one \in Seq(Quiet)
  BY <1>3, <1>4, QuietCreate, Sequences, Zenon
<1> HIDE DEF one
<1>7. one \o infect(Call.ei, Call.who \ {f}) \in Seq(Quiet)
  BY <1>3, <1>6, QuietInfect, Sequences, Zenon
<1> QED BY <1>5, <1>7, Zenon DEF Passes

LEMMA CreatePasses ==
  ASSUME IInv, create
  PROVE  Passes
<1> DEFINE call == [Call EXCEPT !.op = "apply"]
<1>1. Call \in LineCalls
  BY CallIs, Zenon DEF IInv, create
<1>2. call \in LineCalls /\ call.op # "store"
  BY <1>1 DEF LineCalls
<1>3. Then(<<call>>)
  BY Zenon DEF create
<1> HIDE DEF call
<1>4. call \in Calls(Ids)
  BY <1>2, Zenon DEF Calls
<1> QED BY <1>2, <1>3, <1>4, QuietOne, Zenon DEF Passes

(* What begins between the calls.                                           *)
LEMMA BeginsQuietly ==
  ASSUME IInv,
         \/ \E f \in Fighters : start_turn(f) \/ summon(f) \/ resurrect(f)
         \/ \E item \in DOMAIN Items, area \in Areas : use_item(item, area)
         \/ end_entity_turn
  PROVE  todo = <<>> /\ todo' \in Seq(Quiet)
<1>1. todo = <<>>
  BY DEF start_turn, summon, resurrect, use_item, end_entity_turn, Acts
<1>2. ASSUME NEW f \in Fighters, start_turn(f)
      PROVE  todo' \in Seq(Quiet)
  <2>1. suffered[f] \in SUBSET Ids
    BY DEF IInv, Agree, Arena
  <2>2. todo' = <<tick(f, suffered[f])>>
    BY <1>2, Zenon DEF start_turn
  <2> QED BY <2>1, <2>2, QuietTick, Zenon
<1>3. ASSUME NEW f \in Fighters, summon(f) \/ resurrect(f)
      PROVE  todo' \in Seq(Quiet)
  <2> DEFINE pinned == [n \in 1 .. Pins[f] |-> SummonState]
  <2>1. todo' = lines(f, "innate", pinned, {f})
    <3>1. Appears(f)
      BY <1>3, Zenon DEF summon, resurrect
    <3> QED BY <3>1, Zenon DEF Appears
  <2>2. "innate" \in Origins /\ pinned \in Seq(EffectParams) /\ {f} \in SUBSET Fighters
    BY PinnedAre DEF Origins
  <2> HIDE DEF pinned
  <2> QED BY <2>1, <2>2, QuietLines, Zenon
<1>4. ASSUME NEW item \in DOMAIN Items, NEW area \in Areas, use_item(item, area)
      PROVE  todo' \in Seq(Quiet)
  <2>1. actor \in Fighters /\ item \in Origins /\ Items[item] \in Seq(EffectParams)
        /\ area \cap Living \in SUBSET Fighters
    BY <1>4, CatalogAssumption DEF use_item, Acts, IInv, Fighting, Origins, Living
  <2>2. todo' = lines(actor, item, Items[item], area \cap Living)
    BY <1>4, Zenon DEF use_item
  <2> QED BY <2>1, <2>2, QuietLines, Zenon
<1>5. ASSUME end_entity_turn
      PROVE  todo' \in Seq(Quiet)
  <2> DEFINE ids == { e \in suffered[actor] : effects[e].line.propagates }
  <2>1. actor \in Fighters
    BY <1>5 DEF end_entity_turn, IInv, Fighting
  <2>2. ids \in SUBSET Ids
    BY <2>1 DEF IInv, Agree, Arena
  <2>3. todo' = IF alive(actor) THEN spread(actor, ids) ELSE <<>>
    BY <1>5, Zenon DEF end_entity_turn
  <2> HIDE DEF ids
  <2> QED BY <2>1, <2>2, <2>3, QuietSpread, Sequences, Zenon
<1> QED BY <1>1, <1>2, <1>3, <1>4, <1>5, Zenon
-----------------------------------------------------------------------------
(***************************************************************************)
(* The totals, with what waits on top to be stored.                        *)
(***************************************************************************)
BuffDue(s, f) ==
  IF Counting(s) /\ Head(s).to = f /\ Head(s).line.effect \in Carriers THEN Head(s).value ELSE 0
StateDue(s, f) ==
  IF Counting(s) /\ Head(s).to = f /\ Head(s).line.effect = "add_state" THEN Head(s).value ELSE 0

Summed ==
  /\ buff_stats \in [Fighters -> Int] /\ states \in [Fighters -> Int]
  /\ \A f \in Fighters : /\ buff_stats[f] = Carried(effects, suffered[f]) + BuffDue(todo, f)
                         /\ states[f] = Pinned(effects, suffered[f]) + StateDue(todo, f)

(* What counts and is worth something finds its place in the arena.         *)
Room ==
  Counting(todo) =>
    /\ Call.value = 0 \/ merges \/ NewId # {}
    /\ Call.line.effect = "add_state" => Call.value \in {0, 1}

(* Listed effects have turns left, or no end.                               *)
Ages ==
  /\ \A e \in DOMAIN effects : effects[e].turns \in -1 .. 9
  /\ \A f \in Fighters : \A e \in launched[f] : effects[e].turns # 0

Spending == spent \in [turns : 0 .. MaxTurns, uses : 0 .. MaxUses]

TotalsInv == IInv /\ Below /\ Summed /\ Room /\ Ages /\ Spending

LEMMA NothingDue ==
  ASSUME NEW s, ~Counting(s), NEW f
  PROVE  BuffDue(s, f) = 0 /\ StateDue(s, f) = 0
BY Zenon DEF BuffDue, StateDue

(* The totals of whoever is looked at are numbers.                          *)
LEMMA SufferedTotals ==
  ASSUME IInv, NEW f \in Fighters
  PROVE  /\ suffered[f] \in SUBSET DOMAIN effects
         /\ Carried(effects, suffered[f]) \in Nat /\ Pinned(effects, suffered[f]) \in Nat
<1>1. suffered[f] \in SUBSET DOMAIN effects
  BY DEF IInv, Agree
<1> QED BY <1>1, TotalsAreNumbers DEF IInv

(* Nothing is counted, and nothing that counts changes.                     *)
LEMMA TotalsStay ==
  ASSUME Summed, ~Counting(todo), ~Counting(todo'), UNCHANGED <<suffered, totals>>,
         \A f \in Fighters : SameWorth(effects', effects, suffered[f])
  PROVE  Summed'
<1>1. suffered' = suffered /\ buff_stats' = buff_stats /\ states' = states
  BY DEF totals
<1>2. ASSUME NEW f \in Fighters
      PROVE  /\ buff_stats'[f] = Carried(effects', suffered'[f]) + BuffDue(todo', f)
             /\ states'[f] = Pinned(effects', suffered'[f]) + StateDue(todo', f)
  <2>1. /\ Carried(effects', suffered[f]) = Carried(effects, suffered[f])
        /\ Pinned(effects', suffered[f]) = Pinned(effects, suffered[f])
    BY WorthTheSame
  <2>2. /\ BuffDue(todo, f) = 0 /\ StateDue(todo, f) = 0
        /\ BuffDue(todo', f) = 0 /\ StateDue(todo', f) = 0
    BY NothingDue
  <2>3. /\ buff_stats[f] = Carried(effects, suffered[f]) + BuffDue(todo, f)
        /\ states[f] = Pinned(effects, suffered[f]) + StateDue(todo, f)
    BY Zenon DEF Summed
  <2> QED BY <1>1, <2>1, <2>2, <2>3, Zenon
<1>3. buff_stats' \in [Fighters -> Int] /\ states' \in [Fighters -> Int]
  BY <1>1, Zenon DEF Summed
<1> QED BY <1>2, <1>3, Zenon DEF Summed

(* Those whose list changes are counted anew.                               *)
LEMMA TotalsRebuilt ==
  ASSUME Summed, ~Counting(todo), ~Counting(todo'), IInv', NEW who,
         update_buff_stats(who, effects', suffered'),
         \A f \in Fighters : f \notin who =>
           suffered'[f] = suffered[f] /\ SameWorth(effects', effects, suffered[f])
  PROVE  Summed'
<1>1. /\ buff_stats' = [f \in Fighters |-> IF f \in who THEN Carried(effects', suffered'[f])
                                                       ELSE buff_stats[f]]
      /\ states' = [f \in Fighters |-> IF f \in who THEN Pinned(effects', suffered'[f])
                                                   ELSE states[f]]
  BY Zenon DEF update_buff_stats
<1>2. ASSUME NEW f \in Fighters
      PROVE  /\ buff_stats'[f] = Carried(effects', suffered'[f]) + BuffDue(todo', f)
             /\ states'[f] = Pinned(effects', suffered'[f]) + StateDue(todo', f)
             /\ buff_stats'[f] \in Int /\ states'[f] \in Int
  <2>1. /\ BuffDue(todo, f) = 0 /\ StateDue(todo, f) = 0
        /\ BuffDue(todo', f) = 0 /\ StateDue(todo', f) = 0
    BY NothingDue
  <2>2. /\ buff_stats[f] = Carried(effects, suffered[f]) + BuffDue(todo, f)
        /\ states[f] = Pinned(effects, suffered[f]) + StateDue(todo, f)
    BY Zenon DEF Summed
  <2>3. /\ Carried(effects', suffered'[f]) \in Nat /\ Pinned(effects', suffered'[f]) \in Nat
    <3>1. suffered'[f] \in SUBSET DOMAIN effects'
      BY DEF IInv, Agree
    <3>2. Arena(effects')
      BY DEF IInv
    <3> QED BY <3>1, <3>2, TotalsAreNumbers
  <2>4. /\ buff_stats'[f] = IF f \in who THEN Carried(effects', suffered'[f]) ELSE buff_stats[f]
        /\ states'[f] = IF f \in who THEN Pinned(effects', suffered'[f]) ELSE states[f]
    BY <1>1
  <2>5. CASE f \in who
    BY <2>1, <2>3, <2>4, <2>5
  <2>6. CASE f \notin who
    <3>1. /\ Carried(effects', suffered'[f]) = Carried(effects, suffered[f])
          /\ Pinned(effects', suffered'[f]) = Pinned(effects, suffered[f])
      BY <2>6, WorthTheSame
    <3> QED BY <2>1, <2>2, <2>3, <2>4, <2>6, <3>1
  <2> QED BY <2>5, <2>6
<1>3. buff_stats' \in [Fighters -> Int] /\ states' \in [Fighters -> Int]
  <2>1. /\ buff_stats' = [f \in Fighters |-> buff_stats'[f]]
        /\ states' = [f \in Fighters |-> states'[f]]
    BY <1>1
  <2>2. \A f \in Fighters : buff_stats'[f] \in Int /\ states'[f] \in Int
    BY <1>2
  <2> QED BY <2>1, <2>2
<1> QED BY <1>2, <1>3, Zenon DEF Summed

LEMMA SameIsWorthTheSame ==
  ASSUME effects' = effects, NEW ids
  PROVE  SameWorth(effects', effects, ids)
BY DEF SameWorth

(* Most steps keep the ages of what they keep.                              *)
LEMMA AgesStay ==
  ASSUME Ages, IInv', DOMAIN effects' \subseteq DOMAIN effects,
         \A e \in DOMAIN effects' : effects'[e].turns = effects[e].turns,
         \A f \in Fighters : launched'[f] \subseteq launched[f]
  PROVE  Ages'
<1>1. \A f \in Fighters : launched'[f] \subseteq DOMAIN effects'
  BY DEF IInv, Agree
<1> QED BY <1>1 DEF Ages
-----------------------------------------------------------------------------
(***************************************************************************)
(* The steps.                                                              *)
(***************************************************************************)
LEMMA NotStoring ==
  ASSUME NEW op, Running(op), op # "store"
  PROVE  todo # <<>> /\ ~Counting(todo)
BY DEF Running, Counting

LEMMA QuietStep ==
  ASSUME TotalsInv, IInv', todo' \in Seq(Quiet), Summed', Ages', Spending'
  PROVE  TotalsInv'
<1>1. ~Counting(todo') /\ (todo' # <<>> => Tail(todo') \in Seq(Quiet))
  BY QuietBelow, Zenon
<1>2. Below'
  <2>1. Quiet' = Quiet
    BY DEF Quiet
  <2> QED BY <1>1, <2>1, Zenon DEF Below
<1>3. Room'
  <2>1. ~Counting(todo)'
    BY <1>1 DEF Counting
  <2> QED BY <2>1, Zenon DEF Room
<1> QED BY <1>2, <1>3, Zenon DEF TotalsInv

(* Steps that only pass on to other calls.                                  *)
Idle == UNCHANGED <<effects, suffered, launched, totals, spent>>

LEMMA IdleStep ==
  ASSUME TotalsInv, IInv', Idle, ~Counting(todo), ~Counting(todo')
  PROVE  Summed' /\ Ages' /\ Spending'
<1>1. /\ effects' = effects /\ suffered' = suffered /\ launched' = launched
      /\ UNCHANGED totals /\ spent' = spent
  BY DEF Idle
<1>2. \A f \in Fighters : SameWorth(effects', effects, suffered[f])
  BY <1>1, SameIsWorthTheSame, Zenon
<1>3. Summed'
  BY <1>1, <1>2, TotalsStay DEF TotalsInv
<1>4. Ages'
  BY <1>1, Zenon DEF TotalsInv, Ages
<1> QED BY <1>1, <1>3, <1>4, Zenon DEF TotalsInv, Spending

LEMMA PassingTotals ==
  ASSUME TotalsInv, IInv',
         \/ apply_damage \/ apply_aftereffect \/ life_steal \/ return_damage \/ activate_passive
         \/ next_line \/ next_target \/ tick_poison \/ tick_heal \/ tick_other \/ dies_ticking
         \/ propagate_effects \/ infect_next
  PROVE  TotalsInv'
<1>1. Passes
  <2>1. IInv
    BY DEF TotalsInv
  <2>2. life_steal => Passes
    BY NothingPasses, Zenon DEF life_steal
  <2> QED BY <2>1, <2>2, DamagePasses, AftereffectPasses, ReturnPasses, PassivePasses, LinePasses,
             TargetPasses, TickingPasses, PropagatePasses, InfectPasses, Zenon
<1>2. Idle
  BY DEF apply_damage, apply_aftereffect, life_steal, return_damage, activate_passive, next_line,
         next_target, tick_poison, tick_heal, tick_other, dies_ticking, propagate_effects,
         infect_next, Idle, lists
<1>3. \/ Running("apply") \/ Running("steal") \/ Running("return") \/ Running("passives")
      \/ Running("lines") \/ Running("targets") \/ Running("tick") \/ Running("spread")
      \/ Running("infect")
  BY DEF apply_damage, apply_aftereffect, life_steal, return_damage, activate_passive, next_line,
         next_target, tick_poison, tick_heal, tick_other, dies_ticking, propagate_effects,
         infect_next, Applying, Ticking
<1>4. todo # <<>> /\ ~Counting(todo)
  BY <1>3, NotStoring
<1>5. todo' \in Seq(Quiet)
  BY <1>1, <1>4, PassesQuietly DEF TotalsInv
<1>6. ~Counting(todo')
  BY <1>5, QuietBelow
<1> QED BY <1>2, <1>4, <1>5, <1>6, IdleStep, QuietStep

(* Poisons and heals are stored, but count in no total.                     *)
LEMMA LastingTotals ==
  ASSUME TotalsInv, IInv', apply_effect_poison \/ apply_effect_heal
  PROVE  TotalsInv'
<1>1. /\ todo # <<>> /\ ~Counting(todo) /\ Call.line.effect \in {"poison", "heal"}
      /\ Call \in LineCalls
  <2>1. Running("apply") /\ Call.line.effect \in {"poison", "heal"}
    BY DEF apply_effect_poison, apply_effect_heal, Applying
  <2>2. Call \in LineCalls
    BY <2>1, CallIs, Zenon DEF TotalsInv, IInv
  <2> QED BY <2>1, <2>2, NotStoring
<1>2. Idle
  BY DEF apply_effect_poison, apply_effect_heal, Idle, lists
<1>3. PICK calls : Then(calls) /\ (calls = <<>> \/ \E n \in Nat : calls = <<Store(n)>>)
  BY AmountsAreNumbers, Zenon DEF apply_effect_poison, apply_effect_heal
<1>4. Tail(todo) \in Seq(Quiet)
  BY <1>1, Zenon DEF TotalsInv, Below
<1>5. CASE calls = <<>>
  <2>1. todo' \in Seq(Quiet)
    BY <1>1, <1>3, <1>5, NothingPasses, PassesQuietly, Zenon DEF TotalsInv
  <2>2. ~Counting(todo')
    BY <2>1, QuietBelow
  <2> QED BY <1>1, <1>2, <2>1, <2>2, IdleStep, QuietStep
<1>6. ASSUME NEW n \in Nat, calls = <<Store(n)>>
      PROVE  TotalsInv'
  <2>1. /\ todo' # <<>> /\ Head(todo') = Store(n) /\ Tail(todo') = Tail(todo)
    <3>1. todo' = <<Store(n)>> \o Tail(todo)
      BY <1>3, <1>6 DEF Then
    <3> HIDE DEF Store
    <3> QED BY <1>4, <3>1
  <2>2. Store(n).line = Call.line
    BY DEF Store
  <2>3. "poison" \notin Counted /\ "heal" \notin Counted
    BY DEF Counted, Carriers
  <2>4. ~Counting(todo')
    BY <1>1, <2>1, <2>2, <2>3, Zenon DEF Counting
  <2>5. Below' /\ Room'
    <3>1. Quiet' = Quiet /\ ~Counting(todo)'
      BY <2>4 DEF Quiet, Counting
    <3> QED BY <1>4, <2>1, <3>1, Zenon DEF Below, Room
  <2> QED BY <1>1, <1>2, <2>4, <2>5, IdleStep, Zenon DEF TotalsInv
<1> QED BY <1>3, <1>5, <1>6

(* What begins between the calls.                                           *)
LEMMA BeginningTotals ==
  ASSUME TotalsInv, IInv',
         \/ \E f \in Fighters : summon(f) \/ resurrect(f)
         \/ \E item \in DOMAIN Items, area \in Areas : use_item(item, area)
         \/ end_entity_turn
  PROVE  TotalsInv'
<1>1. todo = <<>> /\ todo' \in Seq(Quiet)
  BY BeginsQuietly, Zenon DEF TotalsInv
<1>2. ~Counting(todo) /\ ~Counting(todo')
  BY <1>1, QuietBelow DEF Counting
<1>3. effects' = effects /\ suffered' = suffered /\ launched' = launched /\ UNCHANGED totals
  BY DEF summon, resurrect, Appears, use_item, end_entity_turn, lists
<1>4. \A f \in Fighters : SameWorth(effects', effects, suffered[f])
  BY <1>3, SameIsWorthTheSame, Zenon
<1>5. Summed'
  BY <1>2, <1>3, <1>4, TotalsStay DEF TotalsInv
<1>6. Ages'
  BY <1>3, Zenon DEF TotalsInv, Ages
<1>7. Spending'
  <2>1. spent' = spent \/ (spent.uses < MaxUses /\ spent' = [spent EXCEPT !.uses = @ + 1])
    BY DEF summon, resurrect, Appears, use_item, end_entity_turn
  <2> QED BY <2>1, BoundsAssumption DEF Spending, TotalsInv
<1> QED BY <1>1, <1>5, <1>6, <1>7, QuietStep

LEMMA StartTurnTotals ==
  ASSUME TotalsInv, IInv', NEW f \in Fighters, start_turn(f)
  PROVE  TotalsInv'
<1>1. todo = <<>> /\ todo' \in Seq(Quiet)
  BY BeginsQuietly, Zenon DEF TotalsInv
<1>2. ~Counting(todo) /\ ~Counting(todo')
  BY <1>1, QuietBelow DEF Counting
<1> DEFINE listed == UNION { suffered[g] \cup launched[g] : g \in Fighters }
<1>3. /\ suffered' = suffered /\ launched' = launched /\ UNCHANGED totals
      /\ effects' = [e \in listed |-> effects[e]]
      /\ spent.turns < MaxTurns /\ spent' = [spent EXCEPT !.turns = @ + 1]
  BY DEF start_turn, lists
<1>4. listed \subseteq DOMAIN effects /\ \A g \in Fighters : suffered[g] \subseteq listed
  BY DEF TotalsInv, IInv, Agree
<1> HIDE DEF listed
<1>5. DOMAIN effects' = listed /\ \A e \in listed : effects'[e] = effects[e]
  BY <1>3
<1>6. \A g \in Fighters : SameWorth(effects', effects, suffered[g])
  BY <1>4, <1>5, Zenon DEF SameWorth
<1>7. Summed'
  BY <1>2, <1>3, <1>6, TotalsStay DEF TotalsInv
<1>8. Ages'
  BY <1>3, <1>4, <1>5, AgesStay DEF TotalsInv
<1>9. Spending'
  BY <1>3, BoundsAssumption DEF Spending, TotalsInv
<1> QED BY <1>1, <1>7, <1>8, <1>9, QuietStep

(* Effects removed from one fighter.                                        *)
LEMMA RemovedTotals ==
  ASSUME TotalsInv, IInv', ~Counting(todo), ~Counting(todo'), NEW f \in Fighters, NEW gone,
         remove_effects(f, gone, effects'), DOMAIN effects' = DOMAIN effects,
         \A e \in DOMAIN effects : effects'[e].turns = effects[e].turns,
         \A e \in DOMAIN effects : e \notin suffered[f] => effects'[e] = effects[e]
  PROVE  Summed' /\ Ages'
<1>1. /\ suffered' = [suffered EXCEPT ![f] = @ \ gone]
      /\ launched' = [g \in Fighters |-> launched[g] \ { e \in gone : effects[e].caster = g }]
      /\ update_buff_stats({f}, effects', suffered')
  BY Zenon DEF remove_effects
<1>2. ASSUME NEW g \in Fighters, g \notin {f}
      PROVE  suffered'[g] = suffered[g] /\ SameWorth(effects', effects, suffered[g])
  <2>1. suffered'[g] = suffered[g]
    BY <1>1, <1>2 DEF TotalsInv, IInv, Agree
  <2>2. \A e \in suffered[g] : e \in DOMAIN effects /\ e \notin suffered[f]
    BY <1>2 DEF TotalsInv, IInv, Agree
  <2> QED BY <2>1, <2>2, Zenon DEF SameWorth
<1>3. Summed'
  BY <1>1, <1>2, TotalsRebuilt, Zenon DEF TotalsInv
<1>4. \A g \in Fighters : launched'[g] \subseteq launched[g]
  BY <1>1
<1>5. Ages'
  BY <1>4, AgesStay DEF TotalsInv
<1> QED BY <1>3, <1>5

LEMMA CreateTotals ==
  ASSUME TotalsInv, IInv', create
  PROVE  TotalsInv'
<1> DEFINE like == { e \in suffered[Call.to] :
                       effects[e].line.effect = Call.line.effect /\ effects[e].item = Call.item }
<1>1. Running("create") /\ Call \in LineCalls /\ Call.to \in Fighters
  BY CallIs, LineFields, Zenon DEF create, TotalsInv, IInv
<1>2. todo # <<>> /\ ~Counting(todo)
  BY <1>1, NotStoring
<1>3. todo' \in Seq(Quiet)
  BY <1>2, CreatePasses, PassesQuietly DEF TotalsInv
<1>4. ~Counting(todo')
  BY <1>3, QuietBelow
<1>5. effects' = effects /\ spent' = spent
  BY DEF create
<1>6. \/ remove_effects(Call.to, {First(like)}, effects)
      \/ UNCHANGED <<lists, totals>>
  BY Zenon DEF create
<1> HIDE DEF like
<1>7. CASE remove_effects(Call.to, {First(like)}, effects)
  <2>1. remove_effects(Call.to, {First(like)}, effects')
    BY <1>5, <1>7, Zenon
  <2>2. Summed' /\ Ages'
    BY <1>1, <1>2, <1>4, <1>5, <2>1, RemovedTotals, Zenon
  <2>3. Spending'
    BY <1>5, Zenon DEF TotalsInv, Spending
  <2> QED BY <1>3, <2>2, <2>3, QuietStep
<1>8. CASE UNCHANGED <<lists, totals>>
  <2>1. Idle
    BY <1>5, <1>8 DEF Idle, lists
  <2> QED BY <1>2, <1>3, <1>4, <2>1, IdleStep, QuietStep
<1> QED BY <1>6, <1>7, <1>8

LEMMA CuringTotals ==
  ASSUME TotalsInv, IInv', reduce_effects \/ clear_poisons
  PROVE  TotalsInv'
<1>1. Call.to \in Fighters /\ Running("apply") /\ Then(<<>>) /\ spent' = spent
  BY Applied, Zenon DEF TotalsInv, reduce_effects, clear_poisons, Applying
<1>2. todo # <<>> /\ ~Counting(todo)
  BY <1>1, NotStoring
<1>3. todo' \in Seq(Quiet)
  BY <1>1, <1>2, NothingPasses, PassesQuietly DEF TotalsInv
<1>4. ~Counting(todo')
  BY <1>3, QuietBelow
<1>5. /\ \E gone : remove_effects(Call.to, gone, effects')
      /\ DOMAIN effects' = DOMAIN effects
      /\ \A e \in DOMAIN effects : effects'[e].turns = effects[e].turns
      /\ \A e \in DOMAIN effects : e \notin suffered[Call.to] => effects'[e] = effects[e]
  <2>1. CASE clear_poisons
    <3>1. effects' = effects /\ \E gone : remove_effects(Call.to, gone, effects)
      BY <2>1, Zenon DEF clear_poisons
    <3> QED BY <3>1, Zenon
  <2>2. CASE reduce_effects
    <3> DEFINE reduced == { e \in suffered[Call.to] :
                            effects[e].line.irreductible => Call.line.effect = "total_debuff" }
               fx(total) == [e \in DOMAIN effects |->
                               IF e \in reduced THEN reduce_effect(effects[e], total) ELSE effects[e]]
    <3>1. PICK total \in BOOLEAN :
            /\ effects' = fx(total)
            /\ remove_effects(Call.to, { e \in reduced : fx(total)[e].value = 0 }, fx(total))
      BY <2>2, Zenon DEF reduce_effects
    <3>2. \A r \in Effect : reduce_effect(r, total).turns = r.turns
      BY DEF reduce_effect, Effect
    <3>3. \A e \in DOMAIN effects :
            effects'[e] = IF e \in reduced THEN reduce_effect(effects[e], total) ELSE effects[e]
      BY <3>1, Zenon
    <3>4. \A e \in DOMAIN effects : e \notin suffered[Call.to] => e \notin reduced
      OBVIOUS
    <3>5. \E gone : remove_effects(Call.to, gone, effects')
      BY <3>1, Zenon
    <3>6. DOMAIN effects' = DOMAIN effects
      BY <3>1, Zenon
    <3> HIDE DEF reduced, fx
    <3>7. \A e \in DOMAIN effects : effects[e] \in Effect
      BY DEF TotalsInv, IInv, Arena
    <3> QED BY <3>2, <3>3, <3>4, <3>5, <3>6, <3>7, Zenon
  <2> QED BY <2>1, <2>2
<1>6. Summed' /\ Ages'
  BY <1>1, <1>2, <1>4, <1>5, RemovedTotals, Zenon
<1>7. Spending'
  BY <1>1, Zenon DEF TotalsInv, Spending
<1> QED BY <1>3, <1>6, <1>7, QuietStep

LEMMA DiesTotals ==
  ASSUME TotalsInv, IInv', dies
  PROVE  TotalsInv'
<1> DEFINE f == First(Call.who)
           hit == { effects[e].target : e \in launched[f] }
<1>1. /\ Running("die") /\ effects' = effects /\ spent' = spent
      /\ suffered' = FromTargets(f) /\ launched' = FromCasters(f)
      /\ update_buff_stats({f} \cup hit, effects, suffered')
  BY Zenon DEF dies, Call
<1>2. todo # <<>> /\ ~Counting(todo)
  BY <1>1, NotStoring
<1>3. todo' \in Seq(Quiet)
  BY <1>2, DiesPasses, PassesQuietly DEF TotalsInv
<1>4. ~Counting(todo')
  BY <1>3, QuietBelow
<1>5. ASSUME NEW g \in Fighters, g \notin {f} \cup hit
      PROVE  suffered'[g] = suffered[g] /\ SameWorth(effects', effects, suffered[g])
  <2>1. suffered'[g] = suffered[g] \ { e \in launched[f] : effects[e].target = g }
    BY <1>1, <1>5 DEF FromTargets
  <2>2. { e \in launched[f] : effects[e].target = g } = {}
    BY <1>5
  <2> QED BY <1>1, <2>1, <2>2, SameIsWorthTheSame
<1> HIDE DEF f, hit
<1>6. Summed'
  <2>1. update_buff_stats({f} \cup hit, effects', suffered')
    BY <1>1, Zenon
  <2> QED BY <1>2, <1>4, <1>5, <2>1, TotalsRebuilt, Zenon DEF TotalsInv
<1>7. \A g \in Fighters : launched'[g] \subseteq launched[g]
  BY <1>1 DEF FromCasters
<1>8. Ages'
  BY <1>1, <1>7, AgesStay DEF TotalsInv
<1>9. Spending'
  BY <1>1, Zenon DEF TotalsInv, Spending
<1> QED BY <1>3, <1>6, <1>8, <1>9, QuietStep

LEMMA TickAftereffectTotals ==
  ASSUME TotalsInv, IInv', tick_aftereffect
  PROVE  TotalsInv'
<1> DEFINE i == First(Call.ids)
           n == Least(Ticked.value, life[Call.f])
<1>1. /\ Running("tick") /\ Call.ids # {} /\ effects[i].line.effect = "aftereffect"
      /\ effects' = [effects EXCEPT ![i].value = n]
      /\ UNCHANGED <<suffered, launched, totals, spent>>
  BY DEF tick_aftereffect, Ticking, lists
<1>2. todo # <<>> /\ ~Counting(todo)
  BY <1>1, NotStoring
<1>3. todo' \in Seq(Quiet)
  BY <1>2, TickingPasses, PassesQuietly DEF TotalsInv
<1>4. ~Counting(todo')
  BY <1>3, QuietBelow
<1> HIDE DEF i, n
<1>5. \A e \in DOMAIN effects : effects[e] \in Effect
  BY DEF TotalsInv, IInv, Arena
<1>6. /\ DOMAIN effects' = DOMAIN effects
      /\ \A e \in DOMAIN effects :
           /\ effects'[e].turns = effects[e].turns /\ effects'[e].line = effects[e].line
           /\ e # i => effects'[e].value = effects[e].value
  BY <1>1, <1>5 DEF Effect
<1>7. "aftereffect" \notin Carriers
  BY DEF Carriers
<1>8. ASSUME NEW g \in Fighters
      PROVE  SameWorth(effects', effects, suffered[g])
  <2>1. suffered[g] \subseteq DOMAIN effects
    BY DEF TotalsInv, IInv, Agree
  <2> QED BY <1>1, <1>6, <1>7, <2>1, Zenon DEF SameWorth
<1>9. suffered' = suffered /\ launched' = launched /\ spent' = spent /\ UNCHANGED totals
  BY <1>1
<1>10. Summed'
  BY <1>2, <1>4, <1>8, <1>9, TotalsStay DEF TotalsInv
<1>11. Ages'
  BY <1>6, <1>9, AgesStay DEF TotalsInv
<1>12. Spending'
  BY <1>9, Zenon DEF TotalsInv, Spending
<1> QED BY <1>3, <1>10, <1>11, <1>12, QuietStep

LEMMA ExpireTotals ==
  ASSUME TotalsInv, IInv', expire
  PROVE  TotalsInv'
<1> DEFINE f == Call.f
           fx == [e \in DOMAIN effects |->
                    IF e \in launched[f] THEN Aged(effects[e]) ELSE effects[e]]
           gone == { e \in launched[f] : fx[e].turns = 0 }
           who == { fx[e].target : e \in gone }
<1>1. /\ Running("tick") /\ Then(<<>>) /\ spent' = spent /\ effects' = fx
      /\ launched' = [launched EXCEPT ![f] = @ \ gone]
      /\ suffered' = [g \in Fighters |-> suffered[g] \ { e \in gone : fx[e].target = g }]
      /\ update_buff_stats(who, fx, suffered')
  BY Zenon DEF expire
<1>2. todo # <<>> /\ ~Counting(todo) /\ f \in Fighters
  BY <1>1, NotStoring, TickIs DEF TotalsInv
<1>3. todo' \in Seq(Quiet)
  BY <1>1, <1>2, NothingPasses, PassesQuietly DEF TotalsInv
<1>4. ~Counting(todo')
  BY <1>3, QuietBelow
<1>5. \A e \in DOMAIN effects : effects[e] \in Effect
  BY DEF TotalsInv, IInv, Arena
<1>6. \A r \in Effect :
        /\ Aged(r).line = r.line /\ Aged(r).value = r.value
        /\ Aged(r).turns = IF r.turns = -1 THEN -1 ELSE r.turns - 1
  BY DEF Aged, Effect
<1>7. \A e \in DOMAIN effects :
        effects'[e] = IF e \in launched[f] THEN Aged(effects[e]) ELSE effects[e]
  BY <1>1, Zenon
<1>8. DOMAIN effects' = DOMAIN effects
  BY <1>1, Zenon
<1>9. ASSUME NEW g \in Fighters, g \notin who
      PROVE  suffered'[g] = suffered[g] /\ SameWorth(effects', effects, suffered[g])
  <2>1. suffered'[g] = suffered[g] \ { e \in gone : fx[e].target = g }
    BY <1>1, Zenon
  <2>2. { e \in gone : fx[e].target = g } = {}
    <3> HIDE DEF fx, gone
    <3> QED BY <1>9
  <2>3. suffered'[g] = suffered[g]
    BY <2>1, <2>2
  <2>4. suffered[g] \subseteq DOMAIN effects
    BY DEF TotalsInv, IInv, Agree
  <2>5. \A e \in DOMAIN effects : effects'[e].line = effects[e].line /\ effects'[e].value = effects[e].value
    BY <1>5, <1>6, <1>7, Zenon
  <2>6. SameWorth(effects', effects, suffered[g])
    BY <2>4, <2>5, Zenon DEF SameWorth
  <2> QED BY <2>3, <2>6
<1>10. update_buff_stats(who, effects', suffered')
  BY <1>1, Zenon
<1>11. \A e \in launched[f] : e \in gone <=> effects'[e].turns = 0
  BY <1>1, Zenon
<1> HIDE DEF fx, gone, who, f
<1>12. Summed'
  BY <1>2, <1>4, <1>9, <1>10, TotalsRebuilt, Zenon DEF TotalsInv
<1>13. Ages'
  <2>1. ASSUME NEW e \in DOMAIN effects'
        PROVE  effects'[e].turns \in -1 .. 9
    <3>1. effects[e].turns \in -1 .. 9 /\ e \in DOMAIN effects
      BY <1>8, <2>1 DEF TotalsInv, Ages
    <3>2. CASE e \in launched[f]
      <4>1. effects[e].turns # 0
        BY <1>2, <3>2 DEF TotalsInv, Ages
      <4> QED BY <1>5, <1>6, <1>7, <3>1, <3>2, <4>1
    <3>3. CASE e \notin launched[f]
      BY <1>7, <3>1, <3>3
    <3> QED BY <3>2, <3>3
  <2>2. ASSUME NEW g \in Fighters, NEW e \in launched'[g]
        PROVE  effects'[e].turns # 0
    <3>1. CASE g = f
      BY <1>1, <1>2, <1>11, <2>2, <3>1 DEF TotalsInv, IInv, Agree
    <3>2. CASE g # f
      <4>1. e \in launched[g] /\ e \in DOMAIN effects
        BY <1>1, <2>2, <3>2 DEF TotalsInv, IInv, Agree
      <4>2. e \notin launched[f]
        BY <1>2, <3>2, <4>1 DEF TotalsInv, IInv, Agree
      <4> QED BY <1>7, <4>1, <4>2 DEF TotalsInv, Ages
    <3> QED BY <3>1, <3>2
  <2> QED BY <2>1, <2>2 DEF Ages
<1>14. Spending'
  BY <1>1, Zenon DEF TotalsInv, Spending
<1> QED BY <1>3, <1>12, <1>13, <1>14, QuietStep
-----------------------------------------------------------------------------
(* A line that counts at once waits on top to be stored.                    *)
LEMMA StoreOnTop ==
  ASSUME TotalsInv, todo # <<>>, NEW n \in Nat, Then(<<Store(n)>>)
  PROVE  /\ todo' # <<>> /\ Head(todo') = Store(n) /\ Tail(todo') = Tail(todo) /\ Below'
<1>1. Tail(todo) \in Seq(Quiet)
  BY Zenon DEF TotalsInv, Below
<1>2. todo' = <<Store(n)>> \o Tail(todo)
  BY DEF Then
<1>3. todo' # <<>> /\ Head(todo') = Store(n) /\ Tail(todo') = Tail(todo)
  <2> HIDE DEF Store
  <2> QED BY <1>1, <1>2
<1>4. Quiet' = Quiet
  BY DEF Quiet
<1> QED BY <1>1, <1>3, <1>4, Zenon DEF Below

LEMMA CarrierTotals ==
  ASSUME TotalsInv, IInv', apply_effect_stat_carrier
  PROVE  TotalsInv'
<1>1. /\ todo # <<>> /\ ~Counting(todo) /\ Call.line.effect \in Carriers
      /\ Call \in LineCalls /\ Call.to \in Fighters /\ Call.line \in EffectParams
  <2>1. Running("apply") /\ Call.line.effect \in Carriers
    BY DEF apply_effect_stat_carrier, Applying
  <2>2. Call \in LineCalls
    BY <2>1, CallIs, Zenon DEF TotalsInv, IInv
  <2> QED BY <2>1, <2>2, NotStoring, LineFields
<1>2. PICK n \in Amounts : /\ buff_stats' = [buff_stats EXCEPT ![Call.to] = @ + n]
                           /\ Then(<<Store(n)>>)
  BY Zenon DEF apply_effect_stat_carrier
<1>3. UNCHANGED <<effects, suffered, launched, states, spent>>
  BY DEF apply_effect_stat_carrier, lists
<1>4. n \in Nat
  BY AmountsAreNumbers
<1>5. todo' # <<>> /\ Head(todo') = Store(n) /\ Below'
  BY <1>1, <1>2, <1>4, StoreOnTop
<1>6. /\ Store(n).op = "store" /\ Store(n).line = Call.line /\ Store(n).to = Call.to
      /\ Store(n).value = n /\ Store(n).item = Call.item /\ Store(n).by = Call.by
  BY DEF Store
<1>7. Call.line.effect # "add_state"
  BY <1>1 DEF Carriers
<1>8. Counting(todo') /\ Head(todo').line.effect \in Carriers
  BY <1>1, <1>5, <1>6, Zenon DEF Counting, Counted
<1>9. \A f \in Fighters : /\ BuffDue(todo', f) = IF f = Call.to THEN n ELSE 0
                          /\ StateDue(todo', f) = 0
  BY <1>5, <1>6, <1>7, <1>8, Zenon DEF BuffDue, StateDue
<1>10. Summed'
  <2>1. ASSUME NEW f \in Fighters
        PROVE  /\ buff_stats'[f] = Carried(effects', suffered'[f]) + BuffDue(todo', f)
               /\ states'[f] = Pinned(effects', suffered'[f]) + StateDue(todo', f)
    <3>1. /\ buff_stats[f] = Carried(effects, suffered[f]) + BuffDue(todo, f)
          /\ states[f] = Pinned(effects, suffered[f]) + StateDue(todo, f)
          /\ buff_stats \in [Fighters -> Int]
      BY Zenon DEF TotalsInv, Summed
    <3>2. BuffDue(todo, f) = 0 /\ StateDue(todo, f) = 0
      BY <1>1, NothingDue
    <3>3. Carried(effects, suffered[f]) \in Nat /\ Pinned(effects, suffered[f]) \in Nat
      BY SufferedTotals DEF TotalsInv
    <3>4. effects' = effects /\ suffered' = suffered /\ states' = states
      BY <1>3
    <3>5. buff_stats'[f] = IF f = Call.to THEN buff_stats[f] + n ELSE buff_stats[f]
      BY <1>1, <1>2, <3>1
    <3> QED BY <1>4, <1>9, <3>1, <3>2, <3>3, <3>4, <3>5
  <2>2. buff_stats' \in [Fighters -> Int] /\ states' \in [Fighters -> Int]
    <3>1. buff_stats \in [Fighters -> Int] /\ states \in [Fighters -> Int]
      BY DEF TotalsInv, Summed
    <3>2. buff_stats[Call.to] + n \in Int
      BY <1>1, <1>4, <3>1
    <3>3. states' = states
      BY <1>3
    <3> QED BY <1>1, <1>2, <3>1, <3>2, <3>3
  <2> QED BY <2>1, <2>2, Zenon DEF Summed

<1>11. Room'
  <2>1. /\ Call'.value = n /\ Call'.line = Call.line /\ Call'.to = Call.to
        /\ Call'.item = Call.item /\ Call'.by = Call.by
    BY <1>5, <1>6 DEF Call
  <2>2. Same' = Same
    <3>1. Same' = { e \in suffered[Call.to] :
                      /\ effects[e].item = Call.item /\ effects[e].line.effect = Call.line.effect
                      /\ effects[e].turns = Call.line.turns /\ effects[e].caster = Call.by }
      BY <1>3, <2>1 DEF Same
    <3> QED BY <3>1, Zenon DEF Same
  <2>3. NewId' = NewId
    BY <1>3 DEF NewId
  <2>4. Call.line.turns # 0
    BY <1>1 DEF EffectParams
  <2>5. n = 0 \/ Same # {} \/ NewId # {}
    BY <1>2, <2>4 DEF Amounts
  <2>6. n = 0 \/ merges' \/ NewId' # {}
    BY <1>4, <1>7, <2>1, <2>2, <2>3, <2>5 DEF merges
  <2> QED BY <1>7, <2>1, <2>6, Zenon DEF Room
<1>12. Ages' /\ Spending'
  BY <1>3, Zenon DEF TotalsInv, Ages, Spending
<1> QED BY <1>5, <1>10, <1>11, <1>12, Zenon DEF TotalsInv

LEMMA AddStateTotals ==
  ASSUME TotalsInv, IInv', apply_add_state
  PROVE  TotalsInv'
<1> DEFINE n == IF NewId = {} THEN 0 ELSE 1
<1>1. /\ todo # <<>> /\ ~Counting(todo) /\ Call.line.effect = "add_state"
      /\ Call \in LineCalls /\ Call.to \in Fighters
  <2>1. Running("apply") /\ Call.line.effect = "add_state"
    BY DEF apply_add_state, Applying
  <2>2. Call \in LineCalls
    BY <2>1, CallIs, Zenon DEF TotalsInv, IInv
  <2> QED BY <2>1, <2>2, NotStoring, LineFields
<1>2. states' = [states EXCEPT ![Call.to] = @ + n] /\ Then(<<Store(n)>>)
  BY Zenon DEF apply_add_state
<1>3. UNCHANGED <<effects, suffered, launched, buff_stats, spent>>
  BY DEF apply_add_state, lists
<1>4. n \in Nat /\ n \in {0, 1} /\ (n = 0 \/ NewId # {})
  OBVIOUS
<1> HIDE DEF n
<1>5. todo' # <<>> /\ Head(todo') = Store(n) /\ Below'
  BY <1>1, <1>2, <1>4, StoreOnTop
<1>6. /\ Store(n).op = "store" /\ Store(n).line = Call.line /\ Store(n).to = Call.to
      /\ Store(n).value = n
  BY DEF Store
<1>7. "add_state" \notin Carriers /\ "add_state" \in Counted
  BY DEF Carriers, Counted
<1>8. Counting(todo') /\ Head(todo').line.effect = "add_state"
  BY <1>1, <1>5, <1>6, <1>7, Zenon DEF Counting
<1>9. \A f \in Fighters : /\ StateDue(todo', f) = IF f = Call.to THEN n ELSE 0
                          /\ BuffDue(todo', f) = 0
  BY <1>5, <1>6, <1>7, <1>8, Zenon DEF BuffDue, StateDue
<1>10. Summed'
  <2>1. ASSUME NEW f \in Fighters
        PROVE  /\ buff_stats'[f] = Carried(effects', suffered'[f]) + BuffDue(todo', f)
               /\ states'[f] = Pinned(effects', suffered'[f]) + StateDue(todo', f)
    <3>1. /\ buff_stats[f] = Carried(effects, suffered[f]) + BuffDue(todo, f)
          /\ states[f] = Pinned(effects, suffered[f]) + StateDue(todo, f)
          /\ states \in [Fighters -> Int]
      BY Zenon DEF TotalsInv, Summed
    <3>2. BuffDue(todo, f) = 0 /\ StateDue(todo, f) = 0
      BY <1>1, NothingDue
    <3>3. Carried(effects, suffered[f]) \in Nat /\ Pinned(effects, suffered[f]) \in Nat
      BY SufferedTotals DEF TotalsInv
    <3>4. effects' = effects /\ suffered' = suffered /\ buff_stats' = buff_stats
      BY <1>3
    <3>5. states'[f] = IF f = Call.to THEN states[f] + n ELSE states[f]
      BY <1>1, <1>2, <3>1
    <3> QED BY <1>4, <1>9, <3>1, <3>2, <3>3, <3>4, <3>5
  <2>2. buff_stats' \in [Fighters -> Int] /\ states' \in [Fighters -> Int]
    <3>1. buff_stats \in [Fighters -> Int] /\ states \in [Fighters -> Int]
      BY DEF TotalsInv, Summed
    <3>2. states[Call.to] + n \in Int
      BY <1>1, <1>4, <3>1
    <3>3. buff_stats' = buff_stats
      BY <1>3
    <3> QED BY <1>1, <1>2, <3>1, <3>2, <3>3
  <2> QED BY <2>1, <2>2, Zenon DEF Summed
<1>11. Room'
  <2>1. Call'.value = n
    BY <1>5, <1>6 DEF Call
  <2>2. NewId' = NewId
    BY <1>3 DEF NewId
  <2> QED BY <1>4, <2>1, <2>2, Zenon DEF Room
<1>12. Ages' /\ Spending'
  BY <1>3, Zenon DEF TotalsInv, Ages, Spending
<1> QED BY <1>5, <1>10, <1>11, <1>12, Zenon DEF TotalsInv

(* What is about to be stored.                                              *)
LEMMA StoreDue ==
  ASSUME TotalsInv, Running("store"), Then(<<>>)
  PROVE  /\ \A f \in Fighters :
              /\ BuffDue(todo, f) = IF f = Call.to /\ Call.line.effect \in Carriers
                                    THEN Call.value ELSE 0
              /\ StateDue(todo, f) = IF f = Call.to /\ Call.line.effect = "add_state"
                                     THEN Call.value ELSE 0
         /\ todo' \in Seq(Quiet)
         /\ \A f \in Fighters : BuffDue(todo', f) = 0 /\ StateDue(todo', f) = 0
<1>1. todo # <<>> /\ Head(todo).op = "store"
  BY DEF Running
<1>2. todo' \in Seq(Quiet)
  BY <1>1, NothingPasses, PassesQuietly DEF TotalsInv
<1>3. \A f \in Fighters : BuffDue(todo', f) = 0 /\ StateDue(todo', f) = 0
  BY <1>2, QuietBelow, NothingDue
<1> QED BY <1>1, <1>2, <1>3 DEF BuffDue, StateDue, Counting, Counted, Call

LEMMA StoreNothingTotals ==
  ASSUME TotalsInv, IInv', store_nothing
  PROVE  TotalsInv'
<1>1. /\ Running("store") /\ ~merges /\ Then(<<>>)
      /\ Call.line.turns = 0 \/ Call.value = 0 \/ NewId = {}
      /\ UNCHANGED <<effects, suffered, launched, totals, spent>>
  BY DEF store_nothing, lists
<1>2. Call.line \in EffectParams /\ todo # <<>>
  BY <1>1, StoreIs DEF TotalsInv
<1>3. Call.line.effect \in Counted => Call.value = 0
  <2>1. Call.line.effect \in Counted => Counting(todo)
    BY <1>1, <1>2 DEF Counting, Running, Call
  <2>2. Call.line.effect \in Counted => Call.line.turns # 0
    BY <1>2 DEF EffectParams, Counted
  <2> QED BY <1>1, <2>1, <2>2 DEF TotalsInv, Room
<1>4. todo' \in Seq(Quiet)
  BY <1>1, StoreDue
<1>5. \A f \in Fighters : /\ BuffDue(todo, f) = 0 /\ StateDue(todo, f) = 0
                          /\ BuffDue(todo', f) = 0 /\ StateDue(todo', f) = 0
  BY <1>1, <1>3, StoreDue DEF Counted
<1>6. /\ effects' = effects /\ suffered' = suffered /\ launched' = launched
      /\ buff_stats' = buff_stats /\ states' = states /\ spent' = spent
  BY <1>1 DEF totals
<1>7. Summed'
  BY <1>5, <1>6, Zenon DEF TotalsInv, Summed
<1>8. Ages' /\ Spending'
  BY <1>6, Zenon DEF TotalsInv, Ages, Spending
<1> QED BY <1>4, <1>7, <1>8, QuietStep

LEMMA StoreNewTotals ==
  ASSUME TotalsInv, IInv', store_new
  PROVE  TotalsInv'
<1> DEFINE r == [line |-> Call.line, item |-> Call.item, turns |-> Call.line.turns,
                 value |-> Call.value, caster |-> Call.by, target |-> Call.to]
<1>1. /\ Running("store") /\ Then(<<>>) /\ Call.line.turns # 0 /\ Call.value > 0
      /\ UNCHANGED <<totals, spent>>
  BY DEF store_new
<1>2. PICK e \in NewId :
        /\ effects' = [i \in DOMAIN effects \cup {e} |-> IF i = e THEN r ELSE effects[i]]
        /\ suffered' = [suffered EXCEPT ![Call.to] = @ \cup {e}]
        /\ launched' = [launched EXCEPT ![Call.by] = @ \cup {e}]
  BY Zenon DEF store_new
<1>3. Call.line \in EffectParams /\ Call.to \in Fighters /\ Call.by \in Fighters /\ Call.value \in Nat
      /\ todo # <<>>
  BY <1>1, StoreIs DEF TotalsInv
<1>4. e \notin DOMAIN effects
  BY DEF NewId, Ids
<1>5. /\ DOMAIN effects' = DOMAIN effects \cup {e}
      /\ effects'[e].line = Call.line /\ effects'[e].value = Call.value
      /\ effects'[e].turns = Call.line.turns
      /\ \A i \in DOMAIN effects : effects'[i] = effects[i]
  BY <1>2, <1>4
<1> HIDE DEF r
<1>6. \A f \in Fighters : suffered[f] \subseteq DOMAIN effects /\ launched[f] \subseteq DOMAIN effects
  BY DEF TotalsInv, IInv, Agree
<1>7. /\ todo' \in Seq(Quiet)
      /\ \A f \in Fighters : BuffDue(todo', f) = 0 /\ StateDue(todo', f) = 0
  BY <1>1, StoreDue
<1>8. Call.line.effect = "add_state" => Call.value = 1
  <2>1. Call.line.effect = "add_state" => Counting(todo)
    BY <1>1, <1>3 DEF Counting, Running, Call, Counted
  <2> QED BY <1>1, <1>3, <2>1 DEF TotalsInv, Room
<1>9. /\ buff_stats' = buff_stats /\ states' = states /\ spent' = spent
  BY <1>1 DEF totals
<1>10. ASSUME NEW f \in Fighters
       PROVE  /\ buff_stats[f] = Carried(effects', suffered'[f])
              /\ states[f] = Pinned(effects', suffered'[f])
  <2>1. SameWorth(effects', effects, suffered[f])
    BY <1>5, <1>6, Zenon DEF SameWorth
  <2>2. /\ Carried(effects', suffered[f]) = Carried(effects, suffered[f])
        /\ Pinned(effects', suffered[f]) = Pinned(effects, suffered[f])
    BY <2>1, WorthTheSame
  <2>3. /\ buff_stats[f] = Carried(effects, suffered[f]) + BuffDue(todo, f)
        /\ states[f] = Pinned(effects, suffered[f]) + StateDue(todo, f)
    BY Zenon DEF TotalsInv, Summed
  <2>4. Carried(effects, suffered[f]) \in Nat /\ Pinned(effects, suffered[f]) \in Nat
    BY SufferedTotals DEF TotalsInv
  <2>5. /\ BuffDue(todo, f) = IF f = Call.to /\ Call.line.effect \in Carriers
                              THEN Call.value ELSE 0
        /\ StateDue(todo, f) = IF f = Call.to /\ Call.line.effect = "add_state"
                               THEN Call.value ELSE 0
    BY <1>1, StoreDue, Zenon
  <2>6. CASE f # Call.to
    <3>1. suffered'[f] = suffered[f]
      BY <1>2, <2>6 DEF TotalsInv, IInv, Agree
    <3> QED BY <2>2, <2>3, <2>4, <2>5, <2>6, <3>1
  <2>7. CASE f = Call.to
    <3>1. suffered'[f] = suffered[f] \cup {e}
      BY <1>2, <2>7 DEF TotalsInv, IInv, Agree
    <3>2. suffered[f] \in SUBSET DOMAIN effects' /\ e \in DOMAIN effects' /\ e \notin suffered[f]
          /\ Arena(effects')
      BY <1>4, <1>5, <1>6 DEF IInv
    <3>3. /\ Carried(effects', suffered[f] \cup {e})
                = Carried(effects', suffered[f])
                    + (IF effects'[e].line.effect \in Carriers THEN effects'[e].value ELSE 0)
          /\ Pinned(effects', suffered[f] \cup {e})
                = Pinned(effects', suffered[f])
                    + (IF effects'[e].line.effect = "add_state" THEN 1 ELSE 0)
      BY <3>2, OneMore
    <3> QED BY <1>3, <1>5, <1>8, <2>2, <2>3, <2>4, <2>5, <2>7, <3>1, <3>3
  <2> QED BY <2>6, <2>7
<1>11. Summed'
  <2>1. \A f \in Fighters : buff_stats'[f] \in Nat /\ states'[f] \in Nat
    <3>1. Arena(effects') /\ \A f \in Fighters : suffered'[f] \in SUBSET DOMAIN effects'
      BY DEF IInv, Agree
    <3> QED BY <1>9, <1>10, <3>1, TotalsAreNumbers
  <2>2. ASSUME NEW f \in Fighters
        PROVE  /\ buff_stats'[f] = Carried(effects', suffered'[f]) + BuffDue(todo', f)
               /\ states'[f] = Pinned(effects', suffered'[f]) + StateDue(todo', f)
    <3>1. buff_stats'[f] \in Nat /\ states'[f] \in Nat
      BY <2>1
    <3> QED BY <1>7, <1>9, <1>10, <3>1
  <2> QED BY <1>9, <2>2, Zenon DEF TotalsInv, Summed
<1>12. Ages'
  <2>1. Call.line.turns \in -1 .. 9
    BY <1>3 DEF EffectParams
  <2>2. ASSUME NEW i \in DOMAIN effects'
        PROVE  effects'[i].turns \in -1 .. 9
    BY <1>5, <2>1 DEF TotalsInv, Ages
  <2>3. ASSUME NEW g \in Fighters, NEW i \in launched'[g]
        PROVE  effects'[i].turns # 0
    <3>1. i = e \/ (i \in launched[g] /\ i \in DOMAIN effects)
      BY <1>2, <1>6 DEF TotalsInv, IInv, Agree
    <3> QED BY <1>1, <1>5, <3>1 DEF TotalsInv, Ages
  <2> QED BY <2>2, <2>3 DEF Ages
<1>13. Spending'
  BY <1>9, Zenon DEF TotalsInv, Spending
<1> QED BY <1>7, <1>11, <1>12, <1>13, QuietStep

LEMMA MergeTotals ==
  ASSUME TotalsInv, IInv', store_merged
  PROVE  TotalsInv'
<1> DEFINE i == First(Same)
           v == Call.value
<1>1. /\ Running("store") /\ Then(<<>>) /\ Same # {} /\ Call.line.effect # "add_state"
      /\ effects' = [effects EXCEPT ![i].value = @ + v]
      /\ UNCHANGED <<suffered, launched, totals, spent>>
  BY DEF store_merged, merges, lists
<1>2. Call.to \in Fighters /\ v \in Nat /\ todo # <<>>
  BY <1>1, StoreIs DEF TotalsInv
<1>3. Arena(effects) /\ \A f \in Fighters : suffered[f] \in SUBSET DOMAIN effects
  BY DEF TotalsInv, IInv, Agree
<1>4. Same \in SUBSET DOMAIN effects /\ Same \subseteq suffered[Call.to]
  BY <1>2, <1>3 DEF Same
<1>5. i \in Same
  BY <1>1, <1>3, <1>4, FirstId
<1>6. i \in suffered[Call.to] /\ i \in DOMAIN effects /\ effects[i].line.effect = Call.line.effect
  BY <1>4, <1>5 DEF Same
<1> HIDE DEF i, v
<1>7. \A e \in DOMAIN effects : effects[e] \in Effect
  BY <1>3 DEF Arena
<1>8. /\ DOMAIN effects' = DOMAIN effects
      /\ \A e \in DOMAIN effects :
           /\ effects'[e].turns = effects[e].turns /\ effects'[e].line = effects[e].line
           /\ e # i => effects'[e].value = effects[e].value
      /\ effects'[i].value = effects[i].value + v /\ effects[i].value \in Nat
  BY <1>1, <1>2, <1>6, <1>7 DEF Effect
<1>9. /\ suffered' = suffered /\ launched' = launched /\ buff_stats' = buff_stats
      /\ states' = states /\ spent' = spent
  BY <1>1 DEF totals
<1>10. /\ todo' \in Seq(Quiet)
       /\ \A f \in Fighters : BuffDue(todo', f) = 0 /\ StateDue(todo', f) = 0
  BY <1>1, StoreDue
<1>11. ASSUME NEW f \in Fighters
       PROVE  /\ buff_stats[f] = Carried(effects', suffered[f])
              /\ states[f] = Pinned(effects', suffered[f])
  <2>1. /\ buff_stats[f] = Carried(effects, suffered[f]) + BuffDue(todo, f)
        /\ states[f] = Pinned(effects, suffered[f]) + StateDue(todo, f)
    BY Zenon DEF TotalsInv, Summed
  <2>2. Carried(effects, suffered[f]) \in Nat /\ Pinned(effects, suffered[f]) \in Nat
    BY SufferedTotals DEF TotalsInv
  <2>3. /\ BuffDue(todo, f) = IF f = Call.to /\ Call.line.effect \in Carriers THEN v ELSE 0
        /\ StateDue(todo, f) = 0
    BY <1>1, StoreDue DEF v
  <2>4. CASE f # Call.to
    <3>1. i \notin suffered[f]
      BY <1>2, <1>6, <2>4 DEF TotalsInv, IInv, Agree
    <3>2. SameWorth(effects', effects, suffered[f])
      BY <1>3, <1>8, <3>1 DEF SameWorth
    <3>3. /\ Carried(effects', suffered[f]) = Carried(effects, suffered[f])
          /\ Pinned(effects', suffered[f]) = Pinned(effects, suffered[f])
      BY <3>2, WorthTheSame
    <3> QED BY <2>1, <2>2, <2>3, <2>4, <3>3
  <2>5. CASE f = Call.to
    <3> DEFINE ids == suffered[f] \ {i}
    <3>1. ids \in SUBSET DOMAIN effects /\ i \notin ids /\ ids \cup {i} = suffered[f]
      BY <1>3, <1>6, <2>5
    <3> HIDE DEF ids
    <3>2. SameWorth(effects', effects, ids)
      BY <1>8, <3>1 DEF SameWorth
    <3>3. /\ Carried(effects', ids) = Carried(effects, ids)
          /\ Pinned(effects', ids) = Pinned(effects, ids)
      BY <3>2, WorthTheSame
    <3>4. /\ Carried(effects, ids \cup {i})
                = Carried(effects, ids)
                    + (IF effects[i].line.effect \in Carriers THEN effects[i].value ELSE 0)
          /\ Pinned(effects, ids \cup {i})
                = Pinned(effects, ids) + (IF effects[i].line.effect = "add_state" THEN 1 ELSE 0)
      BY <1>3, <1>6, <3>1, OneMore
    <3>5. Arena(effects') /\ ids \in SUBSET DOMAIN effects' /\ i \in DOMAIN effects'
      BY <1>6, <1>8, <3>1 DEF IInv
    <3>6. /\ Carried(effects', ids \cup {i})
                = Carried(effects', ids)
                    + (IF effects'[i].line.effect \in Carriers THEN effects'[i].value ELSE 0)
          /\ Pinned(effects', ids \cup {i})
                = Pinned(effects', ids) + (IF effects'[i].line.effect = "add_state" THEN 1 ELSE 0)
      BY <3>1, <3>5, OneMore
    <3>7. Carried(effects, ids) \in Nat /\ Pinned(effects, ids) \in Nat
      BY <1>3, <3>1, TotalsAreNumbers
    <3>8. effects'[i].line = effects[i].line
      BY <1>6, <1>8
    <3>9. effects'[i].value = effects[i].value + v /\ effects[i].value \in Nat
      BY <1>8
    <3>10. Pinned(effects', suffered[f]) = states[f]
      <4>1. effects[i].line.effect # "add_state" /\ effects'[i].line.effect # "add_state"
        BY <1>1, <1>6, <3>8
      <4>2. /\ Pinned(effects', suffered[f]) = Pinned(effects, ids) + 0
            /\ Pinned(effects, suffered[f]) = Pinned(effects, ids) + 0
            /\ states[f] = Pinned(effects, suffered[f]) + 0
        BY <2>1, <2>3, <3>1, <3>3, <3>4, <3>6, <4>1, Zenon
      <4> QED BY <3>7, <4>2
    <3>11. CASE Call.line.effect \in Carriers
      <4>1. /\ Carried(effects', suffered[f]) = Carried(effects, ids) + effects'[i].value
            /\ Carried(effects, suffered[f]) = Carried(effects, ids) + effects[i].value
            /\ buff_stats[f] = Carried(effects, suffered[f]) + v
        BY <1>6, <2>1, <2>3, <2>5, <3>1, <3>3, <3>4, <3>6, <3>8, <3>11, Zenon
      <4> QED BY <1>2, <3>7, <3>9, <3>10, <4>1
    <3>12. CASE Call.line.effect \notin Carriers
      <4>1. /\ Carried(effects', suffered[f]) = Carried(effects, ids) + 0
            /\ Carried(effects, suffered[f]) = Carried(effects, ids) + 0
            /\ buff_stats[f] = Carried(effects, suffered[f]) + 0
        BY <1>6, <2>1, <2>3, <2>5, <3>1, <3>3, <3>4, <3>6, <3>8, <3>12, Zenon
      <4> QED BY <3>7, <3>10, <4>1
    <3> QED BY <3>11, <3>12
  <2> QED BY <2>4, <2>5
<1>12. Summed'
  <2>1. ASSUME NEW f \in Fighters
        PROVE  /\ buff_stats'[f] = Carried(effects', suffered'[f]) + BuffDue(todo', f)
               /\ states'[f] = Pinned(effects', suffered'[f]) + StateDue(todo', f)
    <3>1. buff_stats[f] \in Int /\ states[f] \in Int
      BY DEF TotalsInv, Summed
    <3> QED BY <1>9, <1>10, <1>11, <3>1
  <2> QED BY <1>9, <2>1, Zenon DEF TotalsInv, Summed
<1>13. Ages'
  BY <1>8, <1>9, AgesStay DEF TotalsInv
<1>14. Spending'
  BY <1>9, Zenon DEF TotalsInv, Spending
<1> QED BY <1>10, <1>12, <1>13, <1>14, QuietStep
-----------------------------------------------------------------------------
LEMMA TotalsInitially == Init => TotalsInv
<1> SUFFICES ASSUME Init PROVE TotalsInv
  OBVIOUS
<1>1. IInv
  BY Initially
<1>2. todo = <<>> /\ spent = [turns |-> 0, uses |-> 0] /\ DOMAIN effects = {}
      /\ suffered = [f \in Fighters |-> {}] /\ launched = [f \in Fighters |-> {}]
      /\ buff_stats = [f \in Fighters |-> 0] /\ states = [f \in Fighters |-> 0]
  BY DEF Init
<1>3. Carried(effects, {}) = 0 /\ Pinned(effects, {}) = 0
  <2>1. AllPips(effects, {}) = {} /\ StatesIn(effects, {}) = {}
    BY DEF AllPips, StatesIn
  <2>2. Cardinality({}) = 0
    BY FS_EmptySet, Zenon
  <2> QED BY <2>1, <2>2, Zenon DEF Carried, AllPips, Pinned, StatesIn
<1>4. ~Counting(todo)
  BY <1>2 DEF Counting
<1>5. Summed
  <2>1. ASSUME NEW f \in Fighters
        PROVE  /\ buff_stats[f] = Carried(effects, suffered[f]) + BuffDue(todo, f)
               /\ states[f] = Pinned(effects, suffered[f]) + StateDue(todo, f)
    <3>1. BuffDue(todo, f) = 0 /\ StateDue(todo, f) = 0
      BY <1>4, NothingDue
    <3>2. suffered[f] = {} /\ buff_stats[f] = 0 /\ states[f] = 0
      BY <1>2
    <3> QED BY <1>3, <3>1, <3>2
  <2>2. buff_stats \in [Fighters -> Int] /\ states \in [Fighters -> Int]
    BY <1>2
  <2> QED BY <2>1, <2>2, Zenon DEF Summed
<1>6. Ages
  BY <1>2 DEF Ages
<1>7. Spending
  BY <1>2, BoundsAssumption DEF Spending
<1> QED BY <1>1, <1>2, <1>4, <1>5, <1>6, <1>7, Zenon DEF TotalsInv, Below, Room

LEMMA TotalsStep == TotalsInv /\ [Next]_vars => TotalsInv'
<1> SUFFICES ASSUME TotalsInv, [Next]_vars PROVE TotalsInv'
  OBVIOUS
<1>1. IInv'
  BY Step, Zenon DEF TotalsInv
<1>2. CASE UNCHANGED vars \/ finished
  <2>1. UNCHANGED <<life, entered, effects, suffered, launched, buff_stats, states, actor, spent, todo>>
    BY <1>2 DEF vars, lists, totals, finished
  <2>2. Below' /\ Room'
    BY <2>1 DEF TotalsInv, Below, Room, Quiet, Counting, Call, merges, Same, NewId
  <2>3. Summed' /\ Ages' /\ Spending'
    BY <2>1, Zenon DEF TotalsInv, Summed, Ages, Spending
  <2> QED BY <1>1, <2>2, <2>3, Zenon DEF TotalsInv
<1>3. CASE create \/ store_merged \/ store_new \/ store_nothing
  BY <1>1, <1>3, CreateTotals, MergeTotals, StoreNewTotals, StoreNothingTotals, Zenon
<1>4. CASE \/ apply_damage \/ apply_aftereffect \/ life_steal \/ return_damage \/ activate_passive
           \/ next_line \/ next_target \/ tick_poison \/ tick_heal \/ tick_other \/ dies_ticking
           \/ propagate_effects \/ infect_next
  BY <1>1, <1>4, PassingTotals, Zenon
<1>5. CASE apply_effect_poison \/ apply_effect_heal
  BY <1>1, <1>5, LastingTotals, Zenon
<1>6. CASE apply_effect_stat_carrier \/ apply_add_state \/ reduce_effects \/ clear_poisons
  BY <1>1, <1>6, CarrierTotals, AddStateTotals, CuringTotals, Zenon
<1>7. CASE dies \/ tick_aftereffect \/ expire
  BY <1>1, <1>7, DiesTotals, TickAftereffectTotals, ExpireTotals, Zenon
<1>8. ASSUME NEW f \in Fighters, start_turn(f) \/ summon(f) \/ resurrect(f)
      PROVE  TotalsInv'
  BY <1>1, <1>8, StartTurnTotals, BeginningTotals, Zenon
<1>9. ASSUME NEW item \in DOMAIN Items, NEW area \in Areas, use_item(item, area)
      PROVE  TotalsInv'
  BY <1>1, <1>9, BeginningTotals, Zenon
<1>10. CASE end_entity_turn
  BY <1>1, <1>10, BeginningTotals, Zenon
<1> QED
  BY <1>2, <1>3, <1>4, <1>5, <1>6, <1>7, <1>8, <1>9, <1>10, Zenon DEF Next

(* Between calls, the totals of every fighter are the sums of the values of *)
(* the stat carriers on it and the number of its states, whatever merged,   *)
(* was halved, replaced, expired or fell with its caster.                   *)
THEOREM TotalsAddUp == Spec => []TotalsAreTheEffects
<1>1. TotalsInv => TotalsAreTheEffects
  <2> SUFFICES ASSUME TotalsInv, todo = <<>>, NEW f \in Fighters
               PROVE  /\ buff_stats[f] = Carried(effects, suffered[f])
                      /\ states[f] = Pinned(effects, suffered[f])
    BY DEF TotalsAreTheEffects
  <2>1. /\ buff_stats[f] = Carried(effects, suffered[f]) + BuffDue(todo, f)
        /\ states[f] = Pinned(effects, suffered[f]) + StateDue(todo, f)
    BY Zenon DEF TotalsInv, Summed
  <2>2. BuffDue(todo, f) = 0 /\ StateDue(todo, f) = 0
    BY NothingDue DEF Counting
  <2>3. Carried(effects, suffered[f]) \in Nat /\ Pinned(effects, suffered[f]) \in Nat
    BY SufferedTotals DEF TotalsInv
  <2> QED BY <2>1, <2>2, <2>3
<1> QED BY TotalsInitially, TotalsStep, <1>1, PTL DEF Spec

(* Every effect is one the arena may hold, the lists only name effects of   *)
(* the arena, and no total is ever negative, even in the middle of a call.  *)
THEOREM EffectTypes == Spec => []TypeOK
<1>1. TotalsInv => TypeOK
  <2> SUFFICES ASSUME TotalsInv PROVE TypeOK
    OBVIOUS
  <2>1. /\ life \in [Fighters -> 0 .. MaxLife] /\ entered \subseteq Fighters
        /\ actor \in Fighters \cup {0} /\ DOMAIN effects \subseteq Ids
        /\ suffered \in [Fighters -> SUBSET (DOMAIN effects)]
        /\ launched \in [Fighters -> SUBSET (DOMAIN effects)]
    BY DEF TotalsInv, IInv, Fighting, Arena, Agree
  <2>2. ASSUME NEW e \in DOMAIN effects
        PROVE  effects[e] \in EffectInstance
    <3>1. effects[e] \in Effect /\ effects[e].turns \in -1 .. 9
      BY DEF TotalsInv, IInv, Arena, Ages
    <3> QED BY <3>1 DEF Effect, EffectInstance
  <2>3. ASSUME NEW f \in Fighters
        PROVE  buff_stats[f] \in Nat /\ states[f] \in Nat
    <3>1. /\ buff_stats[f] = Carried(effects, suffered[f]) + BuffDue(todo, f)
          /\ states[f] = Pinned(effects, suffered[f]) + StateDue(todo, f)
      BY Zenon DEF TotalsInv, Summed
    <3>2. Carried(effects, suffered[f]) \in Nat /\ Pinned(effects, suffered[f]) \in Nat
      BY SufferedTotals DEF TotalsInv
    <3>3. Counting(todo) => Head(todo).value \in Nat
      <4>1. Counting(todo) => Running("store")
        BY DEF Counting, Running
      <4> QED BY <4>1, StoreIs DEF TotalsInv, Call
    <3>4. BuffDue(todo, f) \in Nat /\ StateDue(todo, f) \in Nat
      BY <3>3 DEF BuffDue, StateDue
    <3> QED BY <3>1, <3>2, <3>4
  <2>4. buff_stats \in [Fighters -> Nat] /\ states \in [Fighters -> Nat]
    <3>1. buff_stats \in [Fighters -> Int] /\ states \in [Fighters -> Int]
      BY DEF TotalsInv, Summed
    <3> QED BY <2>3, <3>1
  <2> QED BY <2>1, <2>2, <2>4, Zenon DEF TypeOK, TotalsInv, Spending
<1> QED BY TotalsInitially, TotalsStep, <1>1, PTL DEF Spec
=============================================================================
