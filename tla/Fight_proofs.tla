---------------------------- MODULE Fight_proofs ----------------------------
(***************************************************************************)
(* Proofs about Fight, for any board, summons and bounds: whatever the AIs *)
(* call, the board agrees with the fighters and no awakening is left over; *)
(* the play order is the living, the cursor stays on the one who acts, and *)
(* a round gives everyone in it one turn.                                  *)
(***************************************************************************)
EXTENDS Fight, SequenceTheorems, FiniteSetTheorems, WellFoundedInduction, TLAPS

Fighter ==
  [kind : {"leek", "bulb", "plant"}, team : Teams, summoner : Nat,
   alive : BOOLEAN, cell : Cells \cup {NoCell}, ai : BOOLEAN]

(* BoardAgrees and the types it rests on, of any fighters and occupancy.    *)
Board(fs, occ) ==
  /\ fs \in Seq(Fighter)
  /\ occ \in [Cells -> {0} \cup DOMAIN fs]
  /\ \A c \in Cells : occ[c] # 0 => fs[occ[c]].cell = c
  /\ \A f \in DOMAIN fs :
       IF fs[f].cell = NoCell THEN ~fs[f].alive ELSE occ[fs[f].cell] = f

(* A path nobody stands on and that meets no cell twice.                    *)
FreePath(occ, path) ==
  /\ path \in Seq(Cells) /\ IsInjective(path)
  /\ \A i \in DOMAIN path : occ[path[i]] = 0

(* The fighters of the AI that runs and of the walk it waits for.           *)
LoopInv ==
  /\ phase \in {"begin", "act", "drain", "plant", "over"}
  /\ phase \in {"act", "drain", "plant"} => actor \in DOMAIN fighters
  /\ phase # "plant" => awakening_plant = 0
  /\ phase \in {"begin", "act", "over"} => pending_awakenings = <<>> /\ walk = NoWalk

Walks == [fid : Nat, from : Cells \cup {NoCell}, path : Seq(Cells), plants : SUBSET Nat]

(* What is left of a walk stays free: plants move nobody.                   *)
WalkInv ==
  walk # NoWalk =>
    walk \in Walks /\ walk.fid \in DOMAIN fighters /\ FreePath(occupancy, walk.path)

IInv == Board(fighters, occupancy) /\ LoopInv /\ WalkInv
-----------------------------------------------------------------------------
(* NoCell is off the board.                                                 *)
LEMMA OffBoard == NoCell \notin Cells
BY BoardAssumption DEF NoCell, Cells

(* A sequence of fighters, as a function of their fids.                     *)
LEMMA SeqIsFunction ==
  ASSUME NEW S, NEW fs \in Seq(S)
  PROVE  /\ Len(fs) \in Nat /\ DOMAIN fs = 1 .. Len(fs)
         /\ fs \in [1 .. Len(fs) -> S]
         /\ 0 \notin DOMAIN fs
BY LenProperties

LEMMA FunctionIsSeq ==
  ASSUME NEW S, NEW n \in Nat, NEW g \in [1 .. n -> S]
  PROVE  g \in Seq(S) /\ DOMAIN g = 1 .. n
BY SeqDef

LEMMA RecordFields ==
  ASSUME NEW r \in Fighter
  PROVE  /\ [r EXCEPT !.alive = FALSE, !.cell = NoCell] \in Fighter
         /\ [r EXCEPT !.alive = FALSE, !.cell = NoCell].alive = FALSE
         /\ [r EXCEPT !.alive = FALSE, !.cell = NoCell].cell = NoCell
         /\ [r EXCEPT !.alive = FALSE, !.cell = NoCell].summoner = r.summoner
         /\ [r EXCEPT !.alive = TRUE] \in Fighter
         /\ [r EXCEPT !.alive = TRUE].cell = r.cell
         /\ [r EXCEPT !.alive = TRUE].summoner = r.summoner
         /\ \A c \in Cells : [r EXCEPT !.cell = c] \in Fighter /\ [r EXCEPT !.cell = c].cell = c
                             /\ [r EXCEPT !.cell = c].alive = r.alive
                             /\ [r EXCEPT !.cell = c].summoner = r.summoner
BY DEF Fighter

(* A fighter is put on a cell, and the others stay where they are.          *)
LEMMA PlaceEntity ==
  ASSUME NEW fs \in Seq(Fighter), NEW f \in DOMAIN fs, NEW cell \in Cells
  PROVE  LET gs == place_entity(fs, f, cell)
         IN /\ gs \in Seq(Fighter) /\ DOMAIN gs = DOMAIN fs
            /\ gs[f].cell = cell /\ gs[f].alive = fs[f].alive
            /\ gs[f].summoner = fs[f].summoner
            /\ \A g \in DOMAIN fs : g # f => gs[g] = fs[g]
<1> DEFINE r == [fs[f] EXCEPT !.cell = cell]
<1>1. fs[f] \in Fighter /\ f \in 1 .. Len(fs)
  BY SeqIsFunction
<1>2. r \in Fighter /\ r.cell = cell /\ r.alive = fs[f].alive /\ r.summoner = fs[f].summoner
  BY <1>1, RecordFields
<1>3. place_entity(fs, f, cell) = [fs EXCEPT ![f] = r]
  BY DEF place_entity
<1> HIDE DEF r
<1>4. [fs EXCEPT ![f] = r] \in Seq(Fighter)
  BY <1>1, <1>2, ExceptSeq
<1> QED BY <1>1, <1>2, <1>3, <1>4

(* Deaths leave the cells of the dead and of nobody else.                   *)
LEMMA SlainBoard ==
  ASSUME NEW fs, NEW occ, Board(fs, occ), NEW dead \in SUBSET DOMAIN fs
  PROVE  /\ Board(Slain(fs, dead), Vacated(occ, fs, dead))
         /\ DOMAIN Slain(fs, dead) = DOMAIN fs
         /\ \A c \in Cells : occ[c] = 0 => Vacated(occ, fs, dead)[c] = 0
<1> DEFINE gs == Slain(fs, dead)
           now == Vacated(occ, fs, dead)
<1>1. fs \in [1 .. Len(fs) -> Fighter] /\ DOMAIN fs = 1 .. Len(fs) /\ Len(fs) \in Nat
  BY SeqIsFunction DEF Board
<1>2. /\ DOMAIN gs = DOMAIN fs
      /\ \A f \in DOMAIN fs \ dead : gs[f] = fs[f]
  BY Zenon DEF Slain
<1>3. \A f \in dead : gs[f] \in Fighter /\ gs[f].alive = FALSE /\ gs[f].cell = NoCell
  <2> SUFFICES ASSUME NEW f \in dead
               PROVE  gs[f] \in Fighter /\ gs[f].alive = FALSE /\ gs[f].cell = NoCell
    OBVIOUS
  <2>1. fs[f] \in Fighter
    BY <1>1
  <2>2. f \in DOMAIN fs
    OBVIOUS
  <2>3. gs[f] = [fs[f] EXCEPT !.alive = FALSE, !.cell = NoCell]
    BY <2>2, Zenon DEF Slain
  <2> HIDE DEF gs
  <2>4. [fs[f] EXCEPT !.alive = FALSE, !.cell = NoCell] \in Fighter
    BY <2>1, RecordFields, Zenon
  <2>5. [fs[f] EXCEPT !.alive = FALSE, !.cell = NoCell].alive = FALSE
    BY <2>1, RecordFields, Zenon
  <2>6. [fs[f] EXCEPT !.alive = FALSE, !.cell = NoCell].cell = NoCell
    BY <2>1, RecordFields, Zenon
  <2> QED BY <2>3, <2>4, <2>5, <2>6, Zenon
<1>4. gs \in Seq(Fighter)
  <2>1. \A f \in DOMAIN fs : gs[f] \in Fighter
    BY <1>1, <1>2, <1>3
  <2>2. gs = [f \in DOMAIN fs |-> gs[f]]
    BY Zenon DEF Slain
  <2> HIDE DEF gs
  <2>3. gs \in [1 .. Len(fs) -> Fighter]
    BY <1>1, <2>1, <2>2
  <2> QED BY <2>3, <1>1, FunctionIsSeq
<1>5. \A c \in Cells : occ[c] = 0 => now[c] = 0
  BY DEF Vacated
<1> HIDE DEF gs
<1>6. now \in [Cells -> {0} \cup DOMAIN gs]
  BY <1>2 DEF Vacated, Board
<1>7. \A c \in Cells : now[c] # 0 => now[c] = occ[c] /\ occ[c] \notin dead
  <2> SUFFICES ASSUME NEW c \in Cells, now[c] # 0
               PROVE  now[c] = occ[c] /\ occ[c] \notin dead
    OBVIOUS
  <2>1. now[c] = occ[c] /\ \A f \in dead : fs[f].cell # c
    BY DEF Vacated
  <2>2. fs[occ[c]].cell = c
    BY <2>1 DEF Board
  <2> QED BY <2>1, <2>2
<1>8. \A c \in Cells : now[c] # 0 => gs[now[c]].cell = c
  BY <1>2, <1>7 DEF Board
<1>9. \A f \in DOMAIN gs :
        IF gs[f].cell = NoCell THEN ~gs[f].alive ELSE now[gs[f].cell] = f
  <2> SUFFICES ASSUME NEW f \in DOMAIN fs
               PROVE  IF gs[f].cell = NoCell THEN ~gs[f].alive ELSE now[gs[f].cell] = f
    BY <1>2
  <2>1. CASE f \in dead
    BY <2>1, <1>3
  <2>2. CASE f \notin dead /\ fs[f].cell = NoCell
    BY <2>2, <1>2 DEF Board
  <2>3. CASE f \notin dead /\ fs[f].cell # NoCell
    <3>1. fs[f].cell \in Cells /\ occ[fs[f].cell] = f
      BY <2>3, <1>1 DEF Board, Fighter
    <3>2. \A d \in dead : fs[d].cell # fs[f].cell
      BY <2>3, <3>1 DEF Board
    <3>3. now[fs[f].cell] = f
      BY <3>1, <3>2 DEF Vacated
    <3> QED BY <2>3, <3>3, <1>2
  <2> QED BY <2>1, <2>2, <2>3
<1>10. Board(gs, now)
  <2> HIDE DEF now
  <2> QED BY <1>4, <1>6, <1>8, <1>9 DEF Board
<1> QED BY <1>2, <1>5, <1>10 DEF gs

(* A fighter comes to a free cell.                                          *)
LEMMA PlacedBoard ==
  ASSUME NEW fs, NEW occ, Board(fs, occ), NEW f \in DOMAIN fs,
         NEW cell \in Cells, occ[cell] = 0,
         NEW gs \in Seq(Fighter), DOMAIN gs = DOMAIN fs, gs[f].cell = cell,
         \A g \in DOMAIN fs : g # f => gs[g] = fs[g]
  PROVE  /\ Board(gs, Occupied(occ, fs, f, cell))
         /\ \A c \in Cells \ {cell} : occ[c] = 0 => Occupied(occ, fs, f, cell)[c] = 0
<1> DEFINE now == Occupied(occ, fs, f, cell)
<1>1. fs \in [1 .. Len(fs) -> Fighter] /\ DOMAIN fs = 1 .. Len(fs) /\ Len(fs) \in Nat
  BY SeqIsFunction DEF Board
<1>2. cell # NoCell
  BY OffBoard
<1>6. now \in [Cells -> {0} \cup DOMAIN gs]
  BY DEF Occupied, Board
<1>7. \A c \in Cells : now[c] # 0 => gs[now[c]].cell = c
  <2> SUFFICES ASSUME NEW c \in Cells, now[c] # 0, c # cell
               PROVE  gs[now[c]].cell = c
    BY DEF Occupied
  <2>1. now[c] = occ[c] /\ c # fs[f].cell
    BY DEF Occupied
  <2>2. occ[c] \in DOMAIN fs /\ fs[occ[c]].cell = c
    BY <2>1 DEF Board
  <2> QED BY <2>1, <2>2
<1>8. \A g \in DOMAIN gs :
        IF gs[g].cell = NoCell THEN ~gs[g].alive ELSE now[gs[g].cell] = g
  <2> SUFFICES ASSUME NEW g \in DOMAIN fs, g # f
               PROVE  IF fs[g].cell = NoCell THEN ~fs[g].alive ELSE now[fs[g].cell] = g
    BY <1>2 DEF Occupied
  <2>1. CASE fs[g].cell = NoCell
    BY <2>1 DEF Board
  <2>2. CASE fs[g].cell # NoCell
    <3>1. fs[g].cell \in Cells /\ occ[fs[g].cell] = g
      BY <2>2, <1>1 DEF Board, Fighter
    <3>2. fs[g].cell # cell /\ fs[g].cell # fs[f].cell
      BY <2>2, <3>1, <1>1 DEF Board
    <3> QED BY <2>2, <3>1, <3>2 DEF Occupied
  <2> QED BY <2>1, <2>2
<1> QED BY <1>6, <1>7, <1>8 DEF Board, Occupied

(* A revival: placed, and alive again.                                      *)
LEMMA RevivedFighter ==
  ASSUME NEW fs \in Seq(Fighter), NEW f \in DOMAIN fs, NEW cell \in Cells
  PROVE  LET gs == [place_entity(fs, f, cell) EXCEPT ![f].alive = TRUE]
         IN /\ gs \in Seq(Fighter) /\ DOMAIN gs = DOMAIN fs /\ gs[f].cell = cell
            /\ gs[f].summoner = fs[f].summoner
            /\ \A g \in DOMAIN fs : g # f => gs[g] = fs[g]
<1> DEFINE hs == place_entity(fs, f, cell)
<1>1. /\ hs \in Seq(Fighter) /\ DOMAIN hs = DOMAIN fs /\ hs[f].cell = cell
      /\ hs[f].summoner = fs[f].summoner
      /\ \A g \in DOMAIN fs : g # f => hs[g] = fs[g]
  BY PlaceEntity
<1> HIDE DEF hs
<1> DEFINE r == [hs[f] EXCEPT !.alive = TRUE]
<1>2. hs[f] \in Fighter /\ f \in 1 .. Len(hs)
  BY <1>1, SeqIsFunction
<1>3. r \in Fighter /\ r.cell = cell /\ r.summoner = fs[f].summoner
  BY <1>1, <1>2, RecordFields
<1> HIDE DEF r
<1>4. [hs EXCEPT ![f] = r] \in Seq(Fighter)
  BY <1>1, <1>2, <1>3, ExceptSeq
<1>5. LET gs == [hs EXCEPT ![f] = r]
      IN /\ gs \in Seq(Fighter) /\ DOMAIN gs = DOMAIN fs /\ gs[f].cell = cell
         /\ gs[f].summoner = fs[f].summoner
         /\ \A g \in DOMAIN fs : g # f => gs[g] = fs[g]
  BY <1>1, <1>2, <1>3, <1>4
<1> QED BY <1>5 DEF hs, r

(* Two fighters that stand somewhere trade places.                          *)
LEMMA SwappedBoard ==
  ASSUME NEW fs, NEW occ, Board(fs, occ),
         NEW f \in DOMAIN fs, NEW g \in DOMAIN fs, f # g,
         fs[f].cell # NoCell, fs[g].cell # NoCell
  PROVE  LET gs == place_entity(place_entity(fs, f, fs[g].cell), g, fs[f].cell)
         IN /\ Board(gs, [occ EXCEPT ![fs[f].cell] = g, ![fs[g].cell] = f])
            /\ DOMAIN gs = DOMAIN fs
<1> DEFINE here == fs[f].cell
           there == fs[g].cell
           hs == place_entity(fs, f, there)
           gs == place_entity(hs, g, here)
           now == [occ EXCEPT ![here] = g, ![there] = f]
<1>1. fs \in Seq(Fighter) /\ fs \in [1 .. Len(fs) -> Fighter] /\ DOMAIN fs = 1 .. Len(fs)
  BY SeqIsFunction DEF Board
<1>0. here \in Cells /\ there \in Cells
  BY <1>1 DEF Fighter
<1>2. /\ hs \in Seq(Fighter) /\ DOMAIN hs = DOMAIN fs /\ hs[f].cell = there
      /\ \A h \in DOMAIN fs : h # f => hs[h] = fs[h]
  BY <1>0, <1>1, PlaceEntity
<1> HIDE DEF hs
<1>3. /\ gs \in Seq(Fighter) /\ DOMAIN gs = DOMAIN fs /\ gs[g].cell = here
      /\ \A h \in DOMAIN fs : h # g => gs[h] = hs[h]
  BY <1>0, <1>2, PlaceEntity
<1> HIDE DEF gs
<1>4. gs[f].cell = there /\ \A h \in DOMAIN fs \ {f, g} : gs[h] = fs[h]
  BY <1>2, <1>3
<1>5. here # there /\ here # NoCell /\ there # NoCell
  BY <1>0, OffBoard DEF Board
<1>6. /\ now \in [Cells -> {0} \cup DOMAIN gs] /\ now[here] = g /\ now[there] = f
      /\ \A c \in Cells \ {here, there} : now[c] = occ[c]
  BY <1>0, <1>3, <1>5 DEF Board
<1> HIDE DEF now
<1>7. \A c \in Cells : now[c] # 0 => gs[now[c]].cell = c
  <2> SUFFICES ASSUME NEW c \in Cells \ {here, there}, occ[c] # 0
               PROVE  gs[occ[c]].cell = c
    BY <1>3, <1>4, <1>6
  <2>1. fs[occ[c]].cell = c /\ occ[c] \in DOMAIN fs
    BY DEF Board
  <2> QED BY <2>1, <1>4
<1>8. \A h \in DOMAIN gs :
        IF gs[h].cell = NoCell THEN ~gs[h].alive ELSE now[gs[h].cell] = h
  <2> SUFFICES ASSUME NEW h \in DOMAIN fs \ {f, g}
               PROVE  IF fs[h].cell = NoCell THEN ~fs[h].alive ELSE now[fs[h].cell] = h
    BY <1>3, <1>4, <1>5, <1>6
  <2>1. CASE fs[h].cell = NoCell
    BY <2>1 DEF Board
  <2>2. CASE fs[h].cell # NoCell
    <3>1. fs[h].cell \in Cells /\ occ[fs[h].cell] = h
      BY <2>2, <1>1 DEF Board, Fighter
    <3>2. fs[h].cell # here /\ fs[h].cell # there
      BY <3>1, <1>5, <2>2 DEF Board
    <3> QED BY <2>2, <3>1, <3>2, <1>6
  <2> QED BY <2>1, <2>2
<1>9. Board(gs, now) /\ DOMAIN gs = DOMAIN fs
  BY <1>3, <1>6, <1>7, <1>8 DEF Board
<1> QED BY <1>9, Zenon DEF gs, now, hs

(* A summon joins the fighters on a free cell.                              *)
LEMMA BornBoard ==
  ASSUME NEW fs, NEW occ, Board(fs, occ), NEW cell \in Cells, occ[cell] = 0,
         NEW r \in Fighter, r.cell = cell
  PROVE  /\ Board(Append(fs, r), [occ EXCEPT ![cell] = Len(fs) + 1])
         /\ DOMAIN fs \subseteq DOMAIN Append(fs, r)
<1> DEFINE gs == Append(fs, r)
           n == Len(fs) + 1
           now == [occ EXCEPT ![cell] = n]
<1>1. /\ fs \in Seq(Fighter) /\ fs \in [1 .. Len(fs) -> Fighter]
      /\ DOMAIN fs = 1 .. Len(fs) /\ Len(fs) \in Nat
  BY SeqIsFunction DEF Board
<1>2. /\ gs \in Seq(Fighter) /\ Len(gs) = n /\ gs[n] = r
      /\ \A h \in DOMAIN fs : gs[h] = fs[h]
  BY <1>1, AppendProperties
<1>3. n \notin DOMAIN fs /\ n # 0 /\ cell # NoCell
  BY <1>1, OffBoard
<1>4. DOMAIN gs = DOMAIN fs \cup {n}
  <2>1. DOMAIN gs = 1 .. n
    BY <1>2, SeqIsFunction
  <2> QED BY <1>1, <2>1
<1> HIDE DEF gs, n
<1>5. /\ now \in [Cells -> {0} \cup DOMAIN gs] /\ now[cell] = n
      /\ \A c \in Cells \ {cell} : now[c] = occ[c]
  BY <1>4 DEF Board
<1> HIDE DEF now
<1>6. \A c \in Cells : now[c] # 0 => gs[now[c]].cell = c
  <2> SUFFICES ASSUME NEW c \in Cells \ {cell}, occ[c] # 0
               PROVE  gs[occ[c]].cell = c
    BY <1>2, <1>5
  <2> QED BY <1>2 DEF Board
<1>7. \A h \in DOMAIN gs :
        IF gs[h].cell = NoCell THEN ~gs[h].alive ELSE now[gs[h].cell] = h
  <2> SUFFICES ASSUME NEW h \in DOMAIN fs
               PROVE  IF fs[h].cell = NoCell THEN ~fs[h].alive ELSE now[fs[h].cell] = h
    BY <1>2, <1>3, <1>4, <1>5
  <2>1. CASE fs[h].cell = NoCell
    BY <2>1 DEF Board
  <2>2. CASE fs[h].cell # NoCell
    <3>1. fs[h].cell \in Cells /\ occ[fs[h].cell] = h
      BY <2>2, <1>1 DEF Board, Fighter
    <3>2. fs[h].cell # cell
      BY <3>1, <1>1
    <3> QED BY <2>2, <3>1, <3>2, <1>5
  <2> QED BY <2>1, <2>2
<1>8. Board(gs, now) /\ DOMAIN fs \subseteq DOMAIN gs
  BY <1>2, <1>4, <1>5, <1>6, <1>7 DEF Board
<1> QED BY <1>8 DEF gs, now, n

(* A set of positions has a first one.                                      *)
LEMMA HasFirst ==
  ASSUME NEW T \in SUBSET Nat, T # {}
  PROVE  \E i \in T : \A j \in T : i <= j
<1>1. \E x \in T : \A y \in T : ~(<<y, x>> \in OpToRel(<, Nat))
  BY NatLessThanWellFounded, WFMin, Zenon
<1>2. PICK x \in T : \A y \in T : ~(<<y, x>> \in OpToRel(<, Nat))
  BY <1>1
<1>3. \A y \in T : x <= y
  <2> SUFFICES ASSUME NEW y \in T, ~(x <= y) PROVE FALSE
    OBVIOUS
  <2>1. y < x
    OBVIOUS
  <2>2. <<y, x>> \in OpToRel(<, Nat)
    BY <2>1 DEF OpToRel
  <2> QED BY <1>2, <2>2, Zenon
<1> QED BY <1>3

(* What is left of a free path behind one of its cells is free, even with   *)
(* that cell taken.                                                         *)
LEMMA PathRest ==
  ASSUME NEW occ, NEW now, NEW path, FreePath(occ, path), NEW k \in DOMAIN path,
         \A c \in Cells \ {path[k]} : occ[c] = 0 => now[c] = 0
  PROVE  FreePath(now, SubSeq(path, k + 1, Len(path)))
<1> DEFINE rest == SubSeq(path, k + 1, Len(path))
<1>1. /\ path \in Seq(Cells) /\ Len(path) \in Nat /\ DOMAIN path = 1 .. Len(path)
      /\ \A i \in 1 .. Len(path) : path[i] \in Cells
      /\ \A i, j \in 1 .. Len(path) : path[i] = path[j] => i = j
  BY SeqIsFunction DEF FreePath, IsInjective
<1>2. k + 1 \in Int /\ Len(path) \in Int /\ \A i \in (k + 1) .. Len(path) : path[i] \in Cells
  BY <1>1
<1>3. /\ rest \in Seq(Cells)
      /\ Len(rest) = IF k + 1 <= Len(path) THEN Len(path) - (k + 1) + 1 ELSE 0
      /\ \A i \in 1 .. Len(path) - (k + 1) + 1 : rest[i] = path[(k + 1) + i - 1]
  <2> DEFINE m == k + 1
             n == Len(path)
  <2>1. m \in Int /\ n \in Int /\ \A i \in m .. n : path[i] \in Cells
    BY <1>2
  <2> HIDE DEF m, n
  <2>2. SubSeq(path, m, n) \in Seq(Cells)
    BY <2>1, SubSeqProperties, Zenon
  <2>3. Len(SubSeq(path, m, n)) = IF m <= n THEN n - m + 1 ELSE 0
    BY <2>1, SubSeqProperties
  <2>4. \A i \in 1 .. n - m + 1 : SubSeq(path, m, n)[i] = path[m + i - 1]
    BY <2>1, SubSeqProperties
  <2> QED BY <2>2, <2>3, <2>4 DEF m, n
<1>4. DOMAIN rest = 1 .. Len(rest)
  BY <1>3, SeqIsFunction
<1> HIDE DEF rest
<1>5. \A i \in DOMAIN rest : i \in Nat \ {0} /\ k + i \in DOMAIN path /\ rest[i] = path[k + i]
  <2> SUFFICES ASSUME NEW i \in DOMAIN rest
               PROVE  i \in Nat \ {0} /\ k + i \in DOMAIN path /\ rest[i] = path[k + i]
    OBVIOUS
  <2>1. k \in Nat /\ Len(path) \in Nat /\ i \in 1 .. Len(rest)
    BY <1>1, <1>4
  <2>2. i \in 1 .. Len(path) - (k + 1) + 1 /\ (k + 1) + i - 1 = k + i
    BY <1>3, <2>1
  <2> QED BY <1>1, <1>3, <2>1, <2>2
<1>6. IsInjective(rest)
  <2> SUFFICES ASSUME NEW i \in DOMAIN rest, NEW j \in DOMAIN rest, rest[i] = rest[j]
               PROVE  i = j
    BY DEF IsInjective
  <2>1. k + i = k + j
    BY <1>1, <1>5
  <2> QED BY <2>1, <1>1, <1>5
<1>7. \A i \in DOMAIN rest : now[rest[i]] = 0
  <2> SUFFICES ASSUME NEW i \in DOMAIN rest PROVE now[path[k + i]] = 0
    BY <1>5
  <2>1. k + i # k /\ k + i \in DOMAIN path
    BY <1>1, <1>4, <1>5
  <2>2. path[k + i] \in Cells \ {path[k]}
    BY <2>1, <1>1
  <2> QED BY <2>1, <2>2 DEF FreePath
<1> QED BY <1>3, <1>6, <1>7 DEF FreePath, rest

(* A leg of a walk ends on a free cell and leaves a free path.              *)
LEMMA WalkOn ==
  ASSUME Board(fighters, occupancy), NEW wk \in Walks, wk.fid \in DOMAIN fighters,
         wk.path # <<>>, FreePath(occupancy, wk.path), walk_on(wk)
  PROVE  /\ Board(fighters', occupancy') /\ DOMAIN fighters' = DOMAIN fighters
         /\ walk' # NoWalk =>
              walk' \in Walks /\ walk'.fid = wk.fid /\ FreePath(occupancy', walk'.path)
         /\ pending_awakenings' = <<>> => walk' = NoWalk
<1> DEFINE from(i) == IF i = 1 THEN wk.from ELSE wk.path[i - 1]
           cuts == { i \in DOMAIN wk.path :
                       i = Len(wk.path) \/ enters_awakening_zone(wk, from(i), wk.path[i]) }
           stop == CHOOSE i \in cuts : \A j \in cuts : i <= j
           to == wk.path[stop]
           fs == place_entity(fighters, wk.fid, to)
           rest == SubSeq(wk.path, stop + 1, Len(wk.path))
<1>1. /\ wk.path \in Seq(Cells) /\ Len(wk.path) \in Nat \ {0}
      /\ DOMAIN wk.path = 1 .. Len(wk.path)
  BY EmptySeq, SeqIsFunction DEF FreePath
<1>2. stop \in DOMAIN wk.path
  <2>1. cuts \in SUBSET Nat /\ Len(wk.path) \in cuts
    BY <1>1
  <2> HIDE DEF cuts
  <2>2. \E i \in cuts : \A j \in cuts : i <= j
    BY <2>1, HasFirst
  <2>3. stop \in cuts
    BY <2>2, Zenon
  <2> QED BY <2>3 DEF cuts
<1>3. /\ fighters' = fs /\ occupancy' = Occupied(occupancy, fighters, wk.fid, to)
      /\ \/ walk' = NoWalk
         \/ walk' = [wk EXCEPT !.from = to, !.path = rest] /\ pending_awakenings' # <<>>
  BY Zenon DEF walk_on
<1> HIDE DEF stop
<1>4. to \in Cells /\ occupancy[to] = 0
  BY <1>1, <1>2 DEF FreePath
<1>5. /\ fs \in Seq(Fighter) /\ DOMAIN fs = DOMAIN fighters /\ fs[wk.fid].cell = to
      /\ \A g \in DOMAIN fighters : g # wk.fid => fs[g] = fighters[g]
  BY <1>4, PlaceEntity DEF Board
<1>6. /\ Board(fs, Occupied(occupancy, fighters, wk.fid, to))
      /\ \A c \in Cells \ {to} :
           occupancy[c] = 0 => Occupied(occupancy, fighters, wk.fid, to)[c] = 0
  <2> HIDE DEF fs, to
  <2> QED BY <1>4, <1>5, PlacedBoard
<1>7. FreePath(occupancy', rest)
  <2>1. \A c \in Cells \ {wk.path[stop]} : occupancy[c] = 0 => occupancy'[c] = 0
    BY <1>3, <1>6
  <2> QED BY <1>2, <2>1, PathRest
<1>8. LET v == [wk EXCEPT !.from = to, !.path = rest]
      IN v \in Walks /\ v.fid = wk.fid /\ v.path = rest
  <2>1. rest \in Seq(Cells)
    BY <1>7 DEF FreePath
  <2> HIDE DEF rest, to
  <2> QED BY <1>4, <2>1 DEF Walks
<1> HIDE DEF fs, to, rest
<1> QED BY <1>3, <1>5, <1>6, <1>7, <1>8
-----------------------------------------------------------------------------
LEMMA LeekIsFighter ==
  ASSUME NEW team \in Teams, NEW cell \in Cells
  PROVE  Leek(team, cell) \in Fighter /\ Leek(team, cell).cell = cell
BY DEF Leek, Fighter

LEMMA InitIInv == Init => IInv
<1> SUFFICES ASSUME Init PROVE IInv
  OBVIOUS
<1>1. PICK a \in Cells, b \in Cells :
        /\ a # b /\ fighters = <<Leek(1, a), Leek(2, b)>>
        /\ occupancy = [c \in Cells |-> IF c = a THEN 1 ELSE IF c = b THEN 2 ELSE 0]
  BY DEF Init
<1> DEFINE p == Leek(1, a)
           q == Leek(2, b)
<1>2. p \in Fighter /\ p.cell = a /\ q \in Fighter /\ q.cell = b
  BY LeekIsFighter DEF Teams
<1> HIDE DEF p, q
<1>3. /\ <<p, q>> \in Seq(Fighter) /\ DOMAIN <<p, q>> = {1, 2}
      /\ <<p, q>>[1] = p /\ <<p, q>>[2] = q
  <2>1. DOMAIN <<p, q>> = 1 .. 2
    OBVIOUS
  <2> QED BY <1>2, <2>1
<1>4. fighters = <<p, q>>
  BY <1>1 DEF p, q
<1>5. /\ fighters \in Seq(Fighter) /\ DOMAIN fighters = {1, 2}
      /\ fighters[1].cell = a /\ fighters[2].cell = b /\ a # NoCell /\ b # NoCell
  BY <1>2, <1>3, <1>4, OffBoard
<1>6. Board(fighters, occupancy)
  BY <1>1, <1>5 DEF Board
<1>7. LoopInv /\ WalkInv
  BY DEF Init, LoopInv, WalkInv
<1> QED BY <1>6, <1>7 DEF IInv

(* A builtin that wakes nobody returns, any other has its awakenings played. *)
LEMMA AnswerKeepsLoop ==
  ASSUME LoopInv, phase = "act", DOMAIN fighters \subseteq DOMAIN fighters',
         \/ phase' = "drain"
         \/ phase' = "act" /\ pending_awakenings' = <<>>,
         UNCHANGED <<actor, awakening_plant, walk>>
  PROVE  LoopInv' /\ WalkInv'
BY DEF LoopInv, WalkInv

(* The one who acts outside an awakening, and what a builtin starts from.   *)
LEMMA Acting ==
  ASSUME IInv, Runs
  PROVE  /\ phase = "act" /\ actor \in DOMAIN fighters /\ walk = NoWalk
         /\ pending_awakenings = <<>> /\ awakening_plant = 0
BY DEF IInv, LoopInv, Runs

LEMMA DoomedAreFighters ==
  ASSUME NEW f \in DOMAIN fighters
  PROVE  Doomed(fighters, f) \in SUBSET DOMAIN fighters
BY Zenon DEF Doomed

(* A death, in whosever turn, keeps the board and the free path.            *)
LEMMA DiesKeepsBoard ==
  ASSUME IInv, NEW dead \in SUBSET DOMAIN fighters,
         fighters' = Slain(fighters, dead),
         occupancy' = Vacated(occupancy, fighters, dead)
  PROVE  /\ Board(fighters', occupancy') /\ DOMAIN fighters' = DOMAIN fighters
         /\ \A path : FreePath(occupancy, path) => FreePath(occupancy', path)
<1>1. /\ Board(fighters', occupancy') /\ DOMAIN fighters' = DOMAIN fighters
      /\ \A c \in Cells : occupancy[c] = 0 => occupancy'[c] = 0
  BY SlainBoard DEF IInv
<1>2. ASSUME NEW path, FreePath(occupancy, path) PROVE FreePath(occupancy', path)
  <2>1. path \in Seq(Cells) /\ IsInjective(path)
    BY <1>2 DEF FreePath
  <2>2. \A i \in DOMAIN path : path[i] \in Cells /\ occupancy[path[i]] = 0
    BY <1>2, <2>1, SeqIsFunction DEF FreePath
  <2> QED BY <1>1, <2>1, <2>2 DEF FreePath
<1> QED BY <1>1, <1>2

(* The end of a turn leaves no AI running.                                  *)
LEMMA EndKeepsLoop ==
  ASSUME LoopInv, phase \in {"begin", "act"}, phase' \in {"begin", "over"},
         UNCHANGED <<pending_awakenings, awakening_plant, walk>>
  PROVE  LoopInv' /\ WalkInv'
BY DEF LoopInv, WalkInv

LEMMA TurnStep ==
  ASSUME IInv, NEW f \in DOMAIN fighters, begin_act(f) \/ begin_upkeep(f) \/ begin_skip(f)
  PROVE  IInv'
<1>1. CASE begin_act(f)
  BY <1>1 DEF begin_act, TurnBegins, IInv, LoopInv, WalkInv, world, walking
<1>2. CASE begin_upkeep(f)
  <2>1. /\ phase = "begin" /\ phase' \in {"begin", "over"} /\ UNCHANGED <<fighters, occupancy>>
        /\ UNCHANGED <<pending_awakenings, awakening_plant, walk>>
    BY <1>2 DEF begin_upkeep, TurnBegins, end_turn, walking
  <2> QED BY <2>1, EndKeepsLoop DEF IInv
<1>3. CASE begin_skip(f)
  <2> DEFINE dead == Doomed(fighters, f)
  <2>1. /\ phase = "begin" /\ phase' \in {"begin", "over"}
        /\ fighters' = Slain(fighters, dead) /\ occupancy' = Vacated(occupancy, fighters, dead)
        /\ UNCHANGED <<pending_awakenings, awakening_plant, walk>>
    BY <1>3 DEF begin_skip, TurnBegins, end_turn, walking
  <2>2. dead \in SUBSET DOMAIN fighters
    BY DoomedAreFighters
  <2> HIDE DEF dead
  <2>3. Board(fighters', occupancy')
    BY <2>1, <2>2, DiesKeepsBoard
  <2> QED BY <2>1, <2>3, EndKeepsLoop DEF IInv
<1> QED BY <1>1, <1>2, <1>3

LEMMA AttackStep ==
  ASSUME IInv, NEW f \in DOMAIN fighters, attack(f) \/ plant_attacks(f)
  PROVE  IInv'
<1> DEFINE dead == Doomed(fighters, f)
<1>1. fighters' = Slain(fighters, dead) /\ occupancy' = Vacated(occupancy, fighters, dead)
  BY DEF attack, plant_attacks, Dies
<1>2. dead \in SUBSET DOMAIN fighters
  BY DoomedAreFighters
<1> HIDE DEF dead
<1>3. /\ Board(fighters', occupancy') /\ DOMAIN fighters' = DOMAIN fighters
      /\ \A path : FreePath(occupancy, path) => FreePath(occupancy', path)
  BY <1>1, <1>2, DiesKeepsBoard
<1>4. UNCHANGED <<phase, actor, pending_awakenings, awakening_plant, walk>>
  BY DEF attack, plant_attacks, loop, plants, walking
<1>5. LoopInv' /\ WalkInv'
  BY <1>3, <1>4 DEF IInv, LoopInv, WalkInv
<1> QED BY <1>3, <1>5 DEF IInv

(* One fighter lands on a free cell: a slide, a teleport.                   *)
LEMMA MovedStep ==
  ASSUME IInv, Runs, NEW f \in DOMAIN fighters, NEW line \in Seq(Cells), line # <<>>,
         occupancy[line[Len(line)]] = 0, Moved(f, line)
  PROVE  IInv'
<1> DEFINE to == line[Len(line)]
           fs == place_entity(fighters, f, to)
<1>1. to \in Cells /\ occupancy[to] = 0
  <2>1. Len(line) \in 1 .. Len(line)
    BY EmptySeq
  <2> QED BY <2>1, ElementOfSeq
<1>2. /\ fighters' = fs /\ occupancy' = Occupied(occupancy, fighters, f, to)
      /\ \/ phase' = "drain"
         \/ phase' = phase /\ pending_awakenings' = <<>>
      /\ UNCHANGED <<actor, awakening_plant, walk>>
  BY DEF Moved, Calls, walking
<1> HIDE DEF to
<1>3. /\ fs \in Seq(Fighter) /\ DOMAIN fs = DOMAIN fighters /\ fs[f].cell = to
      /\ \A g \in DOMAIN fighters : g # f => fs[g] = fighters[g]
  BY <1>1, PlaceEntity DEF IInv, Board
<1> HIDE DEF fs
<1>4. Board(fs, Occupied(occupancy, fighters, f, to))
  BY <1>1, <1>3, PlacedBoard DEF IInv
<1>5. LoopInv' /\ WalkInv'
  BY <1>2, <1>3, Acting, AnswerKeepsLoop DEF IInv
<1> QED BY <1>2, <1>4, <1>5 DEF IInv

(* A slide crosses free cells of the board.                                 *)
LEMMA SlidLine ==
  ASSUME NEW f, slide_entity(f)
  PROVE  /\ Runs
         /\ \E line \in Seq(Cells) :
              line # <<>> /\ occupancy[line[Len(line)]] = 0 /\ Moved(f, line)
<1>1. PICK line \in Lines(fighters[actor].cell, fighters[f].cell) : Moved(f, line) /\ Runs
  BY DEF slide_entity, Acts
<1>2. PICK n \in 1 .. MaxPath : \E way : line = Line(fighters[f].cell, way, n)
  BY <1>1 DEF Lines
<1>3. \A i \in DOMAIN line : line[i] \in Cells /\ occupancy[line[i]] = 0
  BY <1>1 DEF Lines, Free
<1>4. DOMAIN line = 1 .. n /\ n \in Nat \ {0} /\ line = [i \in 1 .. n |-> line[i]]
  BY <1>2, LimitsAssumption DEF Line
<1>5. line \in [1 .. n -> Cells]
  BY <1>3, <1>4
<1>6. line \in Seq(Cells) /\ Len(line) = n
  BY <1>4, <1>5, FunctionIsSeq, LenProperties
<1>7. line # <<>> /\ occupancy[line[Len(line)]] = 0
  BY <1>3, <1>4, <1>6
<1> QED BY <1>1, <1>6, <1>7

LEMMA SlideStep ==
  ASSUME IInv, NEW f \in DOMAIN fighters, slide_entity(f)
  PROVE  IInv'
BY SlidLine, MovedStep

LEMMA TeleportStep == IInv /\ teleport_entity => IInv'
<1> SUFFICES ASSUME IInv, teleport_entity PROVE IInv'
  OBVIOUS
<1>1. PICK cell \in Cells : occupancy[cell] = 0 /\ Moved(actor, <<cell>>) /\ Runs
  BY DEF teleport_entity, Free, Acts
<1>2. <<cell>> \in Seq(Cells) /\ <<cell>> # <<>> /\ occupancy[<<cell>>[Len(<<cell>>)]] = 0
  BY <1>1
<1> QED BY <1>1, <1>2, Acting, MovedStep

LEMMA InvertStep ==
  ASSUME IInv, NEW target \in DOMAIN fighters, invert_entities(target)
  PROVE  IInv'
<1> DEFINE here == fighters[actor].cell
           there == fighters[target].cell
           swapped == place_entity(place_entity(fighters, actor, there), target, here)
<1>1. /\ Runs /\ target # actor /\ here # NoCell /\ there # NoCell
      /\ fighters' = swapped
      /\ occupancy' = [occupancy EXCEPT ![here] = target, ![there] = actor]
      /\ \/ phase' = "drain"
         \/ phase' = phase /\ pending_awakenings' = <<>>
      /\ UNCHANGED <<actor, awakening_plant, walk>>
  BY DEF invert_entities, Acts, Calls, walking
<1>2. actor \in DOMAIN fighters /\ phase = "act"
  BY <1>1, Acting
<1>4. Board(fighters', occupancy') /\ DOMAIN fighters' = DOMAIN fighters
  <2>1. /\ Board(swapped, [occupancy EXCEPT ![here] = target, ![there] = actor])
        /\ DOMAIN swapped = DOMAIN fighters
    <3>1. Board(fighters, occupancy) /\ actor # target
      BY <1>1 DEF IInv
    <3> QED BY <3>1, <1>1, <1>2, SwappedBoard, Zenon
  <2> HIDE DEF swapped, here, there
  <2> QED BY <1>1, <2>1
<1> HIDE DEF swapped, here, there
<1>5. LoopInv' /\ WalkInv'
  BY <1>1, <1>2, <1>4, AnswerKeepsLoop DEF IInv
<1> QED BY <1>4, <1>5 DEF IInv

LEMMA SummonStep ==
  ASSUME IInv, NEW s \in Summons, NEW cell \in Cells, summon_entity(s[1], cell, s[2])
  PROVE  IInv'
<1> DEFINE r == [Leek(fighters[actor].team, cell) EXCEPT
                   !.kind = s[1], !.summoner = actor, !.ai = s[2]]
<1>1. /\ Runs /\ occupancy[cell] = 0
      /\ fighters' = Append(fighters, r)
      /\ occupancy' = [occupancy EXCEPT ![cell] = Len(fighters) + 1]
      /\ \/ phase' = "drain"
         \/ phase' = phase /\ pending_awakenings' = <<>>
      /\ UNCHANGED <<actor, awakening_plant, walk>>
  BY DEF summon_entity, Acts, Free, Calls, walking
<1>2. actor \in DOMAIN fighters /\ phase = "act"
  BY <1>1, Acting
<1>3. r \in Fighter /\ r.cell = cell
  <2>1. fighters[actor].team \in Teams /\ actor \in Nat
    <3>1. fighters[actor] \in Fighter /\ actor \in Nat
      BY <1>2, SeqIsFunction DEF IInv, Board
    <3> QED BY <3>1 DEF Fighter
  <2>2. s[1] \in {"leek", "bulb", "plant"} /\ s[2] \in BOOLEAN
    BY SummonsAssumption
  <2> DEFINE team == fighters[actor].team
             kind == s[1]
             ai == s[2]
  <2>3. team \in Teams /\ actor \in Nat /\ kind \in {"leek", "bulb", "plant"} /\ ai \in BOOLEAN
    BY <2>1, <2>2
  <2> HIDE DEF team, kind, ai
  <2>4. LET q == [Leek(team, cell) EXCEPT !.kind = kind, !.summoner = actor, !.ai = ai]
        IN q \in Fighter /\ q.cell = cell
    BY <2>3 DEF Leek, Fighter
  <2> QED BY <2>4 DEF team, kind, ai
<1> HIDE DEF r
<1>4. /\ Board(Append(fighters, r), [occupancy EXCEPT ![cell] = Len(fighters) + 1])
      /\ DOMAIN fighters \subseteq DOMAIN Append(fighters, r)
  BY <1>1, <1>3, BornBoard DEF IInv
<1>5. LoopInv' /\ WalkInv'
  BY <1>1, <1>2, <1>4, AnswerKeepsLoop DEF IInv
<1> QED BY <1>1, <1>4, <1>5 DEF IInv

LEMMA ResurrectStep ==
  ASSUME IInv, NEW f \in DOMAIN fighters, NEW cell \in Cells, resurrect_entity(f, cell)
  PROVE  IInv'
<1> DEFINE gs == [place_entity(fighters, f, cell) EXCEPT ![f].alive = TRUE]
<1>1. /\ Runs /\ occupancy[cell] = 0
      /\ fighters' = gs /\ occupancy' = Occupied(occupancy, fighters, f, cell)
      /\ \/ phase' = "drain"
         \/ phase' = phase /\ pending_awakenings' = <<>>
      /\ UNCHANGED <<actor, awakening_plant, walk>>
  <2>1. /\ Runs /\ occupancy[cell] = 0
        /\ Calls("other", gs, Asleep)
        /\ occupancy' = Occupied(occupancy, fighters, f, cell) /\ UNCHANGED walking
    BY Zenon DEF resurrect_entity, Acts, Free
  <2> HIDE DEF gs
  <2> QED BY <2>1 DEF Calls, walking
<1>2. /\ gs \in Seq(Fighter) /\ DOMAIN gs = DOMAIN fighters /\ gs[f].cell = cell
      /\ \A g \in DOMAIN fighters : g # f => gs[g] = fighters[g]
  BY RevivedFighter DEF IInv, Board
<1> HIDE DEF gs
<1>3. Board(gs, Occupied(occupancy, fighters, f, cell))
  BY <1>1, <1>2, PlacedBoard DEF IInv
<1>4. LoopInv' /\ WalkInv'
  BY <1>1, <1>2, Acting, AnswerKeepsLoop DEF IInv
<1> QED BY <1>1, <1>3, <1>4 DEF IInv

LEMMA MoveStep == IInv /\ move_entity => IInv'
<1> SUFFICES ASSUME IInv, move_entity PROVE IInv'
  OBVIOUS
<1> DEFINE here == fighters[actor].cell
           awaits == { p \in Living(fighters) : p # actor /\ IsPlant(fighters, p) }
<1>1. /\ Runs /\ here # NoCell
      /\ \E path \in Paths(here) :
           walk_on([fid |-> actor, from |-> here, path |-> path, plants |-> awaits])
      /\ \/ phase' = "drain" /\ pending_awakenings' # <<>>
         \/ phase' = phase /\ pending_awakenings' = <<>>
      /\ UNCHANGED <<actor, awakening_plant>>
  BY DEF move_entity
<1>2. phase = "act" /\ actor \in DOMAIN fighters
  BY <1>1, Acting
<1>3. here \in Cells /\ actor \in Nat
  <2>1. fighters[actor] \in Fighter /\ actor \in Nat
    BY <1>2, SeqIsFunction DEF IInv, Board
  <2> QED BY <1>1, <2>1 DEF Fighter
<1>4. awaits \in SUBSET Nat
  <2>1. DOMAIN fighters \subseteq Nat
    BY SeqIsFunction DEF IInv, Board
  <2> QED BY <2>1 DEF Living
<1>5. PICK path \in Paths(here) :
        walk_on([fid |-> actor, from |-> here, path |-> path, plants |-> awaits])
  BY <1>1
<1> HIDE DEF here, awaits
<1> DEFINE wk == [fid |-> actor, from |-> here, path |-> path, plants |-> awaits]
<1>6. path # <<>> /\ FreePath(occupancy, path)
  <2>1. /\ path \in BoundedSeq({ c \in Cells : Free(c) }, MaxPath)
        /\ path # <<>> /\ IsInjective(path)
    BY DEF Paths
  <2>2. PICK n \in 0 .. MaxPath : path \in [1 .. n -> { c \in Cells : Free(c) }]
    BY <2>1 DEF BoundedSeq, SeqOf
  <2>3. n \in Nat /\ path \in [1 .. n -> Cells] /\ \A i \in 1 .. n : occupancy[path[i]] = 0
    BY <2>2, LimitsAssumption DEF Free
  <2>4. path \in Seq(Cells) /\ DOMAIN path = 1 .. n
    BY <2>3, FunctionIsSeq
  <2> QED BY <2>1, <2>3, <2>4 DEF FreePath
<1>7. wk \in Walks /\ wk.fid = actor /\ wk.path = path
  BY <1>3, <1>4, <1>6 DEF Walks, FreePath
<1>8. walk_on(wk)
  BY <1>5
<1> HIDE DEF wk
<1>9. /\ Board(fighters', occupancy') /\ DOMAIN fighters' = DOMAIN fighters
      /\ walk' # NoWalk =>
           walk' \in Walks /\ walk'.fid = wk.fid /\ FreePath(occupancy', walk'.path)
      /\ pending_awakenings' = <<>> => walk' = NoWalk
  BY <1>2, <1>6, <1>7, <1>8, WalkOn DEF IInv
<1>10. WalkInv'
  BY <1>2, <1>7, <1>9 DEF WalkInv
<1>11. LoopInv'
  BY <1>1, <1>2, <1>9 DEF LoopInv, IInv
<1> QED BY <1>9, <1>10, <1>11 DEF IInv

LEMMA AwakeningStep ==
  ASSUME IInv, next_awakening \/ finish_awakening \/ take_walk_result
  PROVE  IInv'
<1>1. UNCHANGED <<fighters, occupancy, actor, walk>>
  BY DEF next_awakening, finish_awakening, take_walk_result, world, walking, plants
<1>2. LoopInv'
  BY <1>1 DEF next_awakening, finish_awakening, take_walk_result, plants, IInv, LoopInv
<1> QED BY <1>1, <1>2 DEF IInv, WalkInv

LEMMA ResumeStep == IInv /\ resume_walk => IInv'
<1> SUFFICES ASSUME IInv, resume_walk PROVE IInv'
  OBVIOUS
<1>1. /\ phase = "drain" /\ walk # NoWalk
      /\ UNCHANGED <<phase, actor, awakening_plant>>
  BY DEF resume_walk, loop
<1>2. walk \in Walks /\ walk.fid \in DOMAIN fighters /\ FreePath(occupancy, walk.path)
  BY <1>1 DEF IInv, WalkInv
<1>3. CASE walk.path = <<>>
  BY <1>1, <1>3 DEF resume_walk, IInv, LoopInv, WalkInv
<1>4. CASE walk.path # <<>>
  <2>1. walk_on(walk)
    BY <1>4 DEF resume_walk
  <2>2. /\ Board(fighters', occupancy') /\ DOMAIN fighters' = DOMAIN fighters
        /\ walk' # NoWalk =>
             walk' \in Walks /\ walk'.fid = walk.fid /\ FreePath(occupancy', walk'.path)
    BY <1>2, <1>4, <2>1, WalkOn DEF IInv
  <2> QED BY <1>1, <1>2, <2>2 DEF IInv, LoopInv, WalkInv
<1> QED BY <1>3, <1>4

LEMMA StepIInv == IInv /\ [Next]_vars => IInv'
<1> SUFFICES ASSUME IInv, [Next]_vars PROVE IInv'
  OBVIOUS
<1>1. ASSUME NEW f \in DOMAIN fighters, begin_act(f) \/ begin_upkeep(f) \/ begin_skip(f)
      PROVE  IInv'
  BY <1>1, TurnStep
<1>2. CASE end_entity_turn
  <2>1. /\ phase = "act" /\ phase' \in {"begin", "over"} /\ UNCHANGED <<fighters, occupancy>>
        /\ UNCHANGED <<pending_awakenings, awakening_plant, walk>>
    BY <1>2 DEF end_entity_turn, end_turn, plants, walking
  <2> QED BY <2>1, EndKeepsLoop DEF IInv
<1>3. ASSUME NEW f \in DOMAIN fighters,
             attack(f) \/ slide_entity(f) \/ invert_entities(f) \/ plant_attacks(f)
      PROVE  IInv'
  BY <1>3, AttackStep, SlideStep, InvertStep
<1>4. ASSUME NEW f \in DOMAIN fighters, NEW cell \in Cells, resurrect_entity(f, cell)
      PROVE  IInv'
  BY <1>4, ResurrectStep
<1>5. ASSUME NEW s \in Summons, NEW cell \in Cells, summon_entity(s[1], cell, s[2])
      PROVE  IInv'
  BY <1>5, SummonStep
<1>6. CASE teleport_entity \/ move_entity
  BY <1>6, TeleportStep, MoveStep
<1>7. CASE next_awakening \/ finish_awakening \/ take_walk_result
  BY <1>7, AwakeningStep
<1>8. CASE resume_walk
  BY <1>8, ResumeStep
<1>9. CASE Over \/ UNCHANGED vars
  BY <1>9 DEF Over, vars, world, loop, plants, walking, IInv, LoopInv, WalkInv
<1> QED BY <1>1, <1>2, <1>3, <1>4, <1>5, <1>6, <1>7, <1>8, <1>9 DEF Next

(* In every state of a fight, whoever acts: the invariant the two theorems  *)
(* below follow from.                                                       *)
THEOREM Invariance == Spec => []IInv
BY InitIInv, StepIInv, PTL DEF Spec

(* place_entity, deaths, swaps, summons, revivals and walks cut short and   *)
(* resumed leave cells and occupancy in agreement, with the living on the   *)
(* board: no two fighters on a cell and none left on a cell it has left.    *)
THEOREM BoardAgreement == Spec => []BoardAgrees
<1>1. IInv => BoardAgrees
  <2> SUFFICES ASSUME IInv PROVE BoardAgrees
    OBVIOUS
  <2> QED BY DEF IInv, Board, BoardAgrees
<1> QED BY <1>1, Invariance, PTL

(* play_awakenings returns to an AI, and a turn ends, only with every       *)
(* awakening played, no plant awake and no walk waiting.                    *)
THEOREM NoAwakeningLeft == Spec => []AwakeningsAreDrained
<1>1. IInv => AwakeningsAreDrained
  BY DEF IInv, LoopInv, AwakeningsAreDrained
<1> QED BY <1>1, Invariance, PTL
-----------------------------------------------------------------------------
(***************************************************************************)
(* The play order.  Positions are compared by their rank: how many of the  *)
(* positions that stay stand up to them.                                   *)
(***************************************************************************)
(* How many of a set of positions stand up to one of them: its rank.        *)
LEMMA Ranks ==
  ASSUME NEW S, IsFiniteSet(S), S \subseteq Int
  PROVE  /\ Cardinality(S) \in Nat
         /\ \A i \in Int : Upto(S, i) \in 0 .. Cardinality(S)
         /\ \A i \in S : Upto(S, i) \in 1 .. Cardinality(S)
         /\ \A i, j \in Int : i <= j => Upto(S, i) <= Upto(S, j)
         /\ \A i \in Int, j \in S : i < j => Upto(S, i) < Upto(S, j)
<1> DEFINE low(i) == { j \in S : j <= i }
<1>1. \A i \in Int : low(i) \in SUBSET S /\ IsFiniteSet(low(i))
  BY FS_Subset, Zenon
<1>2. Cardinality(S) \in Nat
  BY FS_CardinalityType
<1>3. \A i \in Int : Cardinality(low(i)) \in Nat /\ Cardinality(low(i)) <= Cardinality(S)
  <2> SUFFICES ASSUME NEW i \in Int
               PROVE  Cardinality(low(i)) \in Nat /\ Cardinality(low(i)) <= Cardinality(S)
    OBVIOUS
  <2>1. low(i) \in SUBSET S /\ IsFiniteSet(low(i))
    BY <1>1
  <2> HIDE DEF low
  <2>2. Cardinality(low(i)) \in Nat
    BY <2>1, FS_CardinalityType
  <2>3. Cardinality(low(i)) <= Cardinality(S)
    BY <2>1, FS_Subset
  <2> QED BY <2>2, <2>3
<1>4. ASSUME NEW i \in Int, NEW j \in Int, i <= j
      PROVE  Cardinality(low(i)) <= Cardinality(low(j))
  <2> DEFINE A == low(i)
             B == low(j)
  <2>0. \A x \in S : x <= i => x <= j
    BY <1>4
  <2>1. A \subseteq B
    BY <2>0, Zenon
  <2>2. IsFiniteSet(B)
    BY <1>1
  <2> HIDE DEF A, B
  <2>3. Cardinality(A) <= Cardinality(B)
    BY <2>1, <2>2, FS_Subset, Zenon
  <2> QED BY <2>3 DEF A, B
<1>5. ASSUME NEW i \in Int, NEW j \in S, i < j
      PROVE  Cardinality(low(i)) < Cardinality(low(j))
  <2> DEFINE A == low(i)
             B == low(j)
  <2>0. (\A x \in S : x <= i => x <= j) /\ j <= j /\ ~(j <= i)
    BY <1>5
  <2>1. A \subseteq B /\ j \in B /\ j \notin A
    BY <2>0, Zenon
  <2>2. IsFiniteSet(B) /\ Cardinality(A) \in Nat /\ Cardinality(B) \in Nat
    BY <1>1, <1>3, <2>1
  <2> HIDE DEF A, B
  <2>3. Cardinality(A) <= Cardinality(B) /\ (Cardinality(B) = Cardinality(A) => B = A)
    BY <2>1, <2>2, FS_Subset, Zenon
  <2>4. Cardinality(A) < Cardinality(B)
    BY <2>1, <2>2, <2>3
  <2> QED BY <2>4 DEF A, B
<1>6. \A i : Upto(S, i) = Cardinality(low(i))
  BY Zenon DEF Upto
<1> HIDE DEF low
<1>7. \A j \in S : j - 1 \in Int /\ j - 1 < j /\ j \in Int
  OBVIOUS
<1>8. ASSUME NEW i \in S PROVE Upto(S, i) \in 1 .. Cardinality(S)
  <2>1. Cardinality(low(i - 1)) < Cardinality(low(i)) /\ Cardinality(low(i - 1)) \in Nat
    BY <1>3, <1>5, <1>7
  <2>2. Cardinality(low(i)) \in Nat /\ Cardinality(low(i)) <= Cardinality(S)
    BY <1>3, <1>7
  <2> QED BY <2>1, <2>2, <1>2, <1>6
<1>9. \A i \in Int : Upto(S, i) \in 0 .. Cardinality(S)
  BY <1>2, <1>3, <1>6
<1>10. \A i, j \in Int : i <= j => Upto(S, i) <= Upto(S, j)
  BY <1>4, <1>6
<1>11. \A i \in Int, j \in S : i < j => Upto(S, i) < Upto(S, j)
  BY <1>5, <1>6
<1> QED BY <1>2, <1>8, <1>9, <1>10, <1>11

(* Every rank is the rank of one position.                                  *)
LEMMA RankIsTaken ==
  ASSUME NEW S, IsFiniteSet(S), S \subseteq Int, NEW n \in 1 .. Cardinality(S)
  PROVE  \E i \in S : Upto(S, i) = n
<1> DEFINE T == 1 .. Cardinality(S)
           r == [i \in S |-> Upto(S, i)]
<1>1. /\ Cardinality(S) \in Nat
      /\ \A i \in S : Upto(S, i) \in T
      /\ \A i \in Int, j \in S : i < j => Upto(S, i) < Upto(S, j)
  BY Ranks
<1>2. IsFiniteSet(T) /\ Cardinality(T) = Cardinality(S)
  <2> DEFINE m == Cardinality(S)
  <2>1. m \in Nat
    BY <1>1
  <2> HIDE DEF m
  <2>2. IsFiniteSet(1 .. m) /\ Cardinality(1 .. m) = m
    BY <2>1, FS_Interval
  <2> QED BY <2>2 DEF m
<1>3. r \in [S -> T] /\ \A i \in S : r[i] = Upto(S, i)
  BY <1>1
<1>4. \A i, j \in S : r[i] = r[j] => i = j
  <2> SUFFICES ASSUME NEW i \in S, NEW j \in S, i < j PROVE r[i] # r[j]
    OBVIOUS
  <2>1. Upto(S, i) < Upto(S, j) /\ Upto(S, i) \in Int /\ Upto(S, j) \in Int
    BY <1>1
  <2> QED BY <2>1, <1>3
<1> HIDE DEF r
<1>5. r \in Injection(S, T)
  BY <1>3, <1>4 DEF Injection, IsInjective
<1> HIDE DEF T
<1>6. r \in Surjection(S, T)
  BY <1>2, <1>5, FS_Injection
<1>7. \A m \in T : \E i \in S : r[i] = m
  BY <1>6 DEF Surjection
<1> QED BY <1>3, <1>7 DEF T
-----------------------------------------------------------------------------
(***************************************************************************)
(* The order on its own.                                                   *)
(***************************************************************************)
Orders == [fids : Seq(Nat), position : Int, turn : Int]

(* The order holds the living, each once, and the cursor is on it or just   *)
(* before it.                                                               *)
Standing(fs, o) ==
  /\ o \in Orders /\ IsInjective(o.fids) /\ Range(o.fids) = Living(fs)
  /\ o.position \in -1 .. Len(o.fids) - 1

(* The positions in left move to the places r gives them in q: their order  *)
(* is kept, and so is the side of the cursor each one is on.                *)
Shift(o, q, left, r) ==
  /\ r \in [left -> DOMAIN q.fids]
  /\ \A i, j \in left : i < j => r[i] < r[j]
  /\ \A i \in left : q.fids[r[i]] = o.fids[i]
  /\ \A i \in left : i <= o.position + 1 <=> r[i] <= q.position + 1
  /\ o.position + 1 \in left => r[o.position + 1] = q.position + 1

(* Nothing but what is left of o is in q.                                   *)
ClosesUp(o, q, left) ==
  \E r : Shift(o, q, left, r) /\ \A n \in DOMAIN q.fids : \E i \in left : n = r[i]

LEMMA OrderFields ==
  ASSUME NEW o \in Orders
  PROVE  /\ o.fids \in Seq(Nat) /\ o.position \in Int /\ o.turn \in Int
         /\ Len(o.fids) \in Nat /\ DOMAIN o.fids = 1 .. Len(o.fids)
         /\ \A i \in DOMAIN o.fids : o.fids[i] \in Nat
<1>1. o.fids \in Seq(Nat) /\ o.position \in Int /\ o.turn \in Int
  BY DEF Orders
<1>2. Len(o.fids) \in Nat /\ DOMAIN o.fids = 1 .. Len(o.fids)
  BY <1>1, SeqIsFunction
<1>3. \A i \in DOMAIN o.fids : o.fids[i] \in Nat
  BY <1>1, <1>2, ElementOfSeq
<1> QED BY <1>1, <1>2, <1>3

LEMMA OrderUpdate ==
  ASSUME NEW o \in Orders, NEW s, NEW n, NEW q, q = [o EXCEPT !.fids = s, !.position = n]
  PROVE  /\ q.fids = s /\ q.position = n /\ q.turn = o.turn
         /\ s \in Seq(Nat) /\ n \in Int => q \in Orders
BY DEF Orders

(* What is picked from a sequence is what it has at those positions, in     *)
(* their order.                                                             *)
LEMMA PickedElements ==
  ASSUME NEW S, NEW s \in Seq(S), NEW left \in SUBSET DOMAIN s
  PROVE  /\ IsFiniteSet(left) /\ left \subseteq Int /\ Cardinality(left) \in Nat
         /\ Picked(s, left) \in Seq(S) /\ Len(Picked(s, left)) = Cardinality(left)
         /\ DOMAIN Picked(s, left) = 1 .. Cardinality(left)
         /\ \A i \in left : Picked(s, left)[Upto(left, i)] = s[i]
         /\ \A n \in 1 .. Cardinality(left) :
              \E i \in left : Upto(left, i) = n /\ Picked(s, left)[n] = s[i]
<1> DEFINE at(n) == CHOOSE i \in left : Upto(left, i) = n
<1>1. Len(s) \in Nat /\ DOMAIN s = 1 .. Len(s) /\ \A i \in DOMAIN s : s[i] \in S
  BY SeqIsFunction, ElementOfSeq
<1>2. IsFiniteSet(left) /\ left \subseteq Int
  <2>1. IsFiniteSet(DOMAIN s)
    BY <1>1, FS_Interval
  <2>2. left \subseteq Int
    BY <1>1
  <2> QED BY <2>1, <2>2, FS_Subset
<1>3. Picked(s, left) = [n \in 1 .. Cardinality(left) |-> s[at(n)]]
  BY Zenon DEF Picked
<1>4. Cardinality(left) \in Nat
  BY <1>2, FS_CardinalityType
<1>5. \A n \in 1 .. Cardinality(left) : at(n) \in left /\ Upto(left, at(n)) = n
  <2> SUFFICES ASSUME NEW n \in 1 .. Cardinality(left)
               PROVE  at(n) \in left /\ Upto(left, at(n)) = n
    OBVIOUS
  <2>1. \E i \in left : Upto(left, i) = n
    BY <1>2, RankIsTaken
  <2> QED BY <2>1, Zenon
<1> HIDE DEF at
<1>6. \A n \in 1 .. Cardinality(left) : s[at(n)] \in S
  BY <1>1, <1>5
<1>7. Picked(s, left) \in [1 .. Cardinality(left) -> S]
  BY <1>3, <1>6
<1>8. Picked(s, left) \in Seq(S) /\ DOMAIN Picked(s, left) = 1 .. Cardinality(left)
  BY <1>4, <1>7, FunctionIsSeq
<1>9. Len(Picked(s, left)) = Cardinality(left)
  BY <1>4, <1>8, LenProperties
<1>10. ASSUME NEW i \in left PROVE Picked(s, left)[Upto(left, i)] = s[i]
  <2> DEFINE n == Upto(left, i)
  <2>1. n \in 1 .. Cardinality(left)
    BY <1>2, Ranks
  <2>2. at(n) \in left /\ Upto(left, at(n)) = n
    BY <1>5, <2>1
  <2>3. at(n) = i
    <3>1. \A a, b \in left : a < b => Upto(left, a) < Upto(left, b)
      BY <1>2, Ranks
    <3>2. \A a \in left : a \in Int /\ Upto(left, a) \in Int
      BY <1>2, Ranks
    <3> QED BY <3>1, <3>2, <2>2
  <2> QED BY <1>3, <2>1, <2>3
<1>11. \A n \in 1 .. Cardinality(left) :
         \E i \in left : Upto(left, i) = n /\ Picked(s, left)[n] = s[i]
  BY <1>3, <1>5, Zenon
<1> QED BY <1>2, <1>4, <1>8, <1>9, <1>10, <1>11

(* Taking elements out keeps the others in order.                           *)
LEMMA KeptElements ==
  ASSUME NEW s \in Seq(Nat), NEW gone
  PROVE  LET left == { i \in DOMAIN s : s[i] \notin gone }
         IN /\ IsFiniteSet(left) /\ left \subseteq Int /\ Cardinality(left) \in Nat
            /\ Kept(s, gone) \in Seq(Nat) /\ Len(Kept(s, gone)) = Cardinality(left)
            /\ DOMAIN Kept(s, gone) = 1 .. Cardinality(left)
            /\ \A i \in left : Kept(s, gone)[Upto(left, i)] = s[i]
<1> DEFINE left == { i \in DOMAIN s : s[i] \notin gone }
<1>1. left \in SUBSET DOMAIN s /\ Kept(s, gone) = Picked(s, left)
  BY Zenon DEF Kept
<1> HIDE DEF left
<1>2. /\ IsFiniteSet(left) /\ left \subseteq Int /\ Cardinality(left) \in Nat
      /\ Kept(s, gone) \in Seq(Nat) /\ Len(Kept(s, gone)) = Cardinality(left)
      /\ DOMAIN Kept(s, gone) = 1 .. Cardinality(left)
      /\ \A i \in left : Kept(s, gone)[Upto(left, i)] = s[i]
  BY <1>1, PickedElements
<1> QED BY <1>2 DEF left

(* Deaths: the survivors close up, and the cursor stays where it was among  *)
(* them.                                                                    *)
LEMMA Removal ==
  ASSUME NEW fs, NEW o, Standing(fs, o), NEW dead, NEW q, q = remove_entities(o, dead),
         NEW left, \A i : i \in left <=> i \in DOMAIN o.fids /\ o.fids[i] \notin dead
  PROVE  /\ q \in Orders /\ q.turn = o.turn
         /\ q.position \in -1 .. Len(q.fids) - 1
         /\ ClosesUp(o, q, left)
<1> DEFINE survivors == { i \in DOMAIN o.fids : o.fids[i] \notin dead }
           cleared == { i \in DOMAIN o.fids : o.fids[i] \in dead /\ i - 1 <= o.position }
           after == remove_entities(o, dead)
           r == [i \in survivors |-> Upto(survivors, i)]
           p == o.position + 1
<1>1. /\ o.fids \in Seq(Nat) /\ o.position \in Int /\ o.turn \in Int
      /\ Len(o.fids) \in Nat /\ DOMAIN o.fids = 1 .. Len(o.fids)
      /\ p \in 0 .. Len(o.fids) /\ p \in Int
  BY OrderFields DEF Standing
<1>2. /\ after.fids = Kept(o.fids, dead) /\ after.turn = o.turn
      /\ after.position = o.position - Cardinality(cleared)
      /\ after.fids \in Seq(Nat) /\ after.position \in Int => after \in Orders
  <2> DEFINE s == Kept(o.fids, dead)
             n == o.position - Cardinality(cleared)
  <2>1. after = [o EXCEPT !.fids = s, !.position = n]
    BY Zenon DEF remove_entities
  <2>2. o \in Orders
    BY DEF Standing
  <2> HIDE DEF s, n, after
  <2>3. after.fids = s /\ after.position = n /\ after.turn = o.turn
    BY <2>1, <2>2 DEF Orders
  <2>4. s \in Seq(Nat) /\ n \in Int => after \in Orders
    BY <2>1, <2>2, OrderUpdate
  <2> QED BY <2>3, <2>4 DEF s, n
<1> HIDE DEF after
<1>3. /\ IsFiniteSet(survivors) /\ survivors \subseteq Int /\ Cardinality(survivors) \in Nat
      /\ after.fids \in Seq(Nat) /\ Len(after.fids) = Cardinality(survivors)
      /\ DOMAIN after.fids = 1 .. Cardinality(survivors)
      /\ \A i \in survivors : after.fids[Upto(survivors, i)] = o.fids[i]
  <2>1. o.fids \in Seq(Nat)
    BY <1>1
  <2> DEFINE t == o.fids
  <2>2. t \in Seq(Nat) /\ after.fids = Kept(t, dead) /\ survivors = { i \in DOMAIN t : t[i] \notin dead }
    BY <2>1, <1>2
  <2> HIDE DEF t, survivors
  <2>3. /\ IsFiniteSet(survivors) /\ survivors \subseteq Int /\ Cardinality(survivors) \in Nat
        /\ Kept(t, dead) \in Seq(Nat) /\ Len(Kept(t, dead)) = Cardinality(survivors)
        /\ DOMAIN Kept(t, dead) = 1 .. Cardinality(survivors)
        /\ \A i \in survivors : Kept(t, dead)[Upto(survivors, i)] = t[i]
    BY <2>2, KeptElements
  <2> QED BY <2>2, <2>3 DEF t
<1>4. Upto(survivors, p) = after.position + 1
  <2> DEFINE low == { j \in survivors : j <= p }
  <2>1. \A j \in Int : j - 1 <= o.position <=> j <= p
    BY <1>1
  <2>2. low \cup cleared = 1 .. p
    <3>1. ASSUME NEW j PROVE j \in low \cup cleared <=> j \in DOMAIN o.fids /\ j <= p
      <4>1. j \in DOMAIN o.fids => (j - 1 <= o.position <=> j <= p)
        <5>1. j \in DOMAIN o.fids => j \in Int
          BY <1>1
        <5> QED BY <2>1, <5>1, Zenon
      <4> HIDE DEF p
      <4> QED BY <4>1, Zenon
    <3>2. \A j : j \in 1 .. p <=> j \in 1 .. Len(o.fids) /\ j <= p
      BY <1>1
    <3> DEFINE both == low \cup cleared
    <3>3. \A j : j \in both <=> j \in 1 .. p
      BY <1>1, <3>1, <3>2, Zenon
    <3> HIDE DEF both
    <3>4. both = 1 .. p
      BY <3>3
    <3> QED BY <3>4 DEF both
  <2>3. low \cap cleared = {}
    BY Zenon
  <2>4. Upto(survivors, p) = Cardinality(low)
    BY DEF Upto
  <2>5. low \in SUBSET (1 .. p) /\ cleared \in SUBSET (1 .. p)
    BY <2>2, Zenon
  <2>12. o.position = p - 1 /\ o.position \in Int /\ p \in Int /\ p >= 0
    BY <1>1
  <2> HIDE DEF low, cleared, p
  <2>6. IsFiniteSet(1 .. p) /\ Cardinality(1 .. p) = p
    BY <2>12, FS_Interval
  <2>7. IsFiniteSet(low) /\ IsFiniteSet(cleared)
    BY <2>5, <2>6, FS_Subset
  <2>8. Cardinality(low \cup cleared) = Cardinality(low) + Cardinality(cleared) - Cardinality(low \cap cleared)
    BY <2>7, FS_Union
  <2>9. Cardinality(low) \in Nat /\ Cardinality(cleared) \in Nat /\ Cardinality(low \cap cleared) = 0
    BY <2>3, <2>7, FS_CardinalityType, FS_EmptySet
  <2>10. p = Cardinality(low) + Cardinality(cleared)
    <3>1. Cardinality(low \cup cleared) = p
      BY <2>2, <2>6, Zenon
    <3> QED BY <2>8, <2>9, <2>12, <3>1
  <2>11. after.position = o.position - Cardinality(cleared)
    BY <1>2, Zenon DEF cleared
  <2> QED BY <2>4, <2>9, <2>10, <2>11, <2>12
<1> HIDE DEF after, cleared
<1>5. /\ \A i \in Int : Upto(survivors, i) \in 0 .. Cardinality(survivors)
      /\ \A i \in survivors : Upto(survivors, i) \in 1 .. Cardinality(survivors)
      /\ \A i, j \in Int : i <= j => Upto(survivors, i) <= Upto(survivors, j)
      /\ \A i \in Int, j \in survivors : i < j => Upto(survivors, i) < Upto(survivors, j)
  <2> HIDE DEF survivors
  <2> QED BY <1>3, Ranks
<1> HIDE DEF survivors, p
<1>6. after.position + 1 \in 0 .. Len(after.fids)
  BY <1>1, <1>3, <1>4, <1>5
<1>7. after.position \in Int
  <2>1. IsFiniteSet(cleared)
    <3>1. IsFiniteSet(DOMAIN o.fids) /\ cleared \in SUBSET DOMAIN o.fids
      BY <1>1, FS_Interval DEF cleared
    <3> QED BY <3>1, FS_Subset
  <2> QED BY <1>1, <1>2, <2>1, FS_CardinalityType DEF cleared
<1>8. after \in Orders /\ after.position \in -1 .. Len(after.fids) - 1
  <2>1. after \in Orders
    BY <1>1, <1>2, <1>3, <1>7 DEF Orders
  <2> QED BY <2>1, <1>3, <1>6, <1>7
<1>9. \A i \in survivors : i <= p <=> Upto(survivors, i) <= Upto(survivors, p)
  <2> SUFFICES ASSUME NEW i \in survivors PROVE i <= p <=> Upto(survivors, i) <= Upto(survivors, p)
    OBVIOUS
  <2>1. i \in Int /\ p \in Int /\ Upto(survivors, i) \in Int /\ Upto(survivors, p) \in Int
    BY <1>1, <1>3, <1>5
  <2>2. CASE i <= p
    BY <2>1, <2>2, <1>5
  <2>3. CASE p < i
    BY <2>1, <2>3, <1>5
  <2> QED BY <2>1, <2>2, <2>3
<1>10. r \in [survivors -> DOMAIN after.fids] /\ \A i \in survivors : r[i] = Upto(survivors, i)
  BY <1>3, <1>5
<1> HIDE DEF r
<1>11. Shift(o, after, survivors, r)
  <2>1. \A i, j \in survivors : i < j => r[i] < r[j]
    BY <1>3, <1>5, <1>10
  <2>2. \A i \in survivors : after.fids[r[i]] = o.fids[i]
    BY <1>3, <1>10
  <2>3. \A i \in survivors : i <= o.position + 1 <=> r[i] <= after.position + 1
    BY <1>4, <1>9, <1>10 DEF p
  <2>4. o.position + 1 \in survivors => r[o.position + 1] = after.position + 1
    BY <1>4, <1>10 DEF p
  <2> QED BY <1>10, <2>1, <2>2, <2>3, <2>4 DEF Shift
<1>12. \A n \in DOMAIN after.fids : \E i \in survivors : n = r[i]
  <2>1. \A n \in DOMAIN after.fids : \E i \in survivors : n = Upto(survivors, i)
    BY <1>3, RankIsTaken
  <2> QED BY <1>10, <2>1
<1>13. q = after /\ left = survivors
  <2>1. \A i : i \in left <=> i \in survivors
    BY Zenon DEF survivors
  <2>2. left = survivors
    BY <2>1
  <2> QED BY <2>2 DEF after
<1>14. ClosesUp(o, after, survivors)
  BY <1>11, <1>12 DEF ClosesUp
<1> QED BY <1>2, <1>8, <1>13, <1>14

(* One more element, at position k.                                         *)
Inserted(s, t, k, f) ==
  /\ t \in Seq(Nat) /\ Len(t) = Len(s) + 1 /\ k \in 1 .. Len(t) /\ t[k] = f
  /\ \A i \in DOMAIN s : t[IF i < k THEN i ELSE i + 1] = s[i]

LEMMA InsertAtInserts ==
  ASSUME NEW s \in Seq(Nat), NEW k \in 1 .. Len(s) + 1, NEW f \in Nat
  PROVE  Inserted(s, InsertAt(s, k, f), k, f)
<1> DEFINE n == Len(s)
           a == SubSeq(s, 1, k - 1)
           b == SubSeq(s, k, n)
           t == (a \o <<f>>) \o b
<1>1. n \in Nat /\ DOMAIN s = 1 .. n /\ k \in 1 .. n + 1 /\ \A i \in 1 .. n : s[i] \in Nat
  BY SeqIsFunction, ElementOfSeq
<1>2. a \in Seq(Nat) /\ Len(a) = k - 1 /\ \A i \in 1 .. k - 1 : a[i] = s[i]
  <2>1. 1 \in Int /\ k - 1 \in Int /\ \A i \in 1 .. k - 1 : s[i] \in Nat
    BY <1>1
  <2>2. a \in Seq(Nat)
    BY <2>1, SubSeqProperties, Zenon
  <2>3. Len(a) = IF 1 <= k - 1 THEN (k - 1) - 1 + 1 ELSE 0
    BY <2>1, SubSeqProperties
  <2>4. \A i \in 1 .. (k - 1) - 1 + 1 : a[i] = s[1 + i - 1]
    BY <2>1, SubSeqProperties
  <2> HIDE DEF a
  <2> QED BY <1>1, <2>2, <2>3, <2>4
<1>3. /\ b \in Seq(Nat) /\ Len(b) = n - k + 1
      /\ \A i \in 1 .. n - k + 1 : b[i] = s[k + i - 1]
  <2>1. k \in Int /\ n \in Int /\ \A i \in k .. n : s[i] \in Nat
    BY <1>1
  <2> HIDE DEF n
  <2>2. b \in Seq(Nat)
    BY <2>1, SubSeqProperties, Zenon
  <2>3. Len(b) = IF k <= n THEN n - k + 1 ELSE 0
    BY <2>1, SubSeqProperties
  <2>4. \A i \in 1 .. n - k + 1 : b[i] = s[k + i - 1]
    BY <2>1, SubSeqProperties
  <2> HIDE DEF b
  <2> QED BY <1>1, <2>2, <2>3, <2>4
<1>4. InsertAt(s, k, f) = t
  BY DEF InsertAt
<1> HIDE DEF a, b, n
<1>5. /\ a \o <<f>> \in Seq(Nat) /\ Len(a \o <<f>>) = k
      /\ \A i \in 1 .. k - 1 : (a \o <<f>>)[i] = s[i]
      /\ (a \o <<f>>)[k] = f
  BY <1>1, <1>2
<1> DEFINE c == a \o <<f>>
<1> HIDE DEF c
<1>6. /\ c \o b \in Seq(Nat) /\ Len(c \o b) = n + 1
      /\ \A i \in 1 .. k : (c \o b)[i] = c[i]
      /\ \A i \in k + 1 .. n + 1 : (c \o b)[i] = b[i - k]
  <2>1. c \in Seq(Nat) /\ Len(c) = k
    BY <1>5 DEF c
  <2>2. c \o b \in Seq(Nat) /\ Len(c \o b) = Len(c) + Len(b)
    BY <2>1, <1>3, ConcatProperties
  <2>3. \A i \in 1 .. Len(c) + Len(b) :
          (c \o b)[i] = IF i <= Len(c) THEN c[i] ELSE b[i - Len(c)]
    BY <2>1, <1>3, ConcatProperties
  <2>4. Len(b) \in Nat /\ Len(b) = n - k + 1 /\ n \in Nat /\ k \in 1 .. n + 1
    BY <1>1, <1>3
  <2> HIDE DEF c
  <2>5. Len(c \o b) = n + 1
    BY <2>1, <2>2, <2>4
  <2>6. \A i \in 1 .. k : (c \o b)[i] = c[i]
    BY <2>1, <2>3, <2>4
  <2>7. \A i \in k + 1 .. n + 1 : (c \o b)[i] = b[i - k]
    BY <2>1, <2>3, <2>4
  <2> QED BY <2>2, <2>5, <2>6, <2>7
<1>7. t = c \o b
  BY DEF c
<1> HIDE DEF t
<1>8. \A i \in 1 .. n : t[IF i < k THEN i ELSE i + 1] = s[i]
  <2> SUFFICES ASSUME NEW i \in 1 .. n PROVE t[IF i < k THEN i ELSE i + 1] = s[i]
    OBVIOUS
  <2>1. CASE i < k
    <3>1. i \in 1 .. k - 1 /\ i \in 1 .. k
      BY <2>1, <1>1
    <3>2. t[i] = c[i] /\ c[i] = s[i]
      BY <3>1, <1>5, <1>6, <1>7 DEF c
    <3> QED BY <2>1, <3>2
  <2>2. CASE ~(i < k)
    <3>1. i + 1 \in k + 1 .. n + 1 /\ (i + 1) - k \in 1 .. n - k + 1
      BY <2>2, <1>1
    <3>2. t[i + 1] = b[(i + 1) - k]
      BY <3>1, <1>6, <1>7
    <3>3. b[(i + 1) - k] = s[k + ((i + 1) - k) - 1]
      BY <3>1, <1>3
    <3>4. k + ((i + 1) - k) - 1 = i
      BY <1>1
    <3> QED BY <2>2, <3>2, <3>3, <3>4
  <2> QED BY <2>1, <2>2
<1>9. t[k] = f
  BY <1>1, <1>5, <1>6, <1>7 DEF c
<1> QED BY <1>1, <1>4, <1>6, <1>7, <1>8, <1>9 DEF Inserted, n

LEMMA AppendInserts ==
  ASSUME NEW s \in Seq(Nat), NEW f \in Nat
  PROVE  Inserted(s, Append(s, f), Len(s) + 1, f)
<1>1. Len(s) \in Nat /\ DOMAIN s = 1 .. Len(s)
  BY SeqIsFunction
<1>2. /\ Append(s, f) \in Seq(Nat) /\ Len(Append(s, f)) = Len(s) + 1
      /\ Append(s, f)[Len(s) + 1] = f
      /\ \A i \in 1 .. Len(s) : Append(s, f)[i] = s[i]
  BY AppendProperties
<1> QED BY <1>1, <1>2 DEF Inserted

(* The positions in left go where r says; what is new in q, if anything, is *)
(* f, once, that was not in o.                                              *)
Rearranged(o, q, left, r, new, f) ==
  /\ left \subseteq DOMAIN o.fids /\ new \subseteq DOMAIN q.fids /\ Shift(o, q, left, r)
  /\ \A n \in DOMAIN q.fids : n \in new \/ \E i \in left : n = r[i]
  /\ \A n \in new : q.fids[n] = f
  /\ \A n, m \in new : n = m
  /\ new # {} => \A i \in left : o.fids[i] # f

(* What is in an order once it is rearranged.                               *)
Gathers(s, t, left, new, f) ==
  \A g : g \in Range(t) <=> (\E i \in left : g = s[i]) \/ (new # {} /\ g = f)

LEMMA RearrangedOrder ==
  ASSUME NEW o, NEW q, NEW left, NEW r, NEW new, NEW f,
         Rearranged(o, q, left, r, new, f), IsInjective(o.fids)
  PROVE  IsInjective(q.fids) /\ Gathers(o.fids, q.fids, left, new, f)
<1>1. /\ \A n \in DOMAIN q.fids :
           (n \in new /\ q.fids[n] = f) \/
           (\E i \in left : n = r[i] /\ q.fids[n] = o.fids[i])
      /\ \A n \in new : n \in DOMAIN q.fids /\ q.fids[n] = f
      /\ \A i \in left : r[i] \in DOMAIN q.fids /\ q.fids[r[i]] = o.fids[i]
  BY DEF Rearranged, Shift
<1>2. \A i, j \in left : o.fids[i] = o.fids[j] => i = j
  BY DEF Rearranged, IsInjective
<1>3. ASSUME NEW n \in DOMAIN q.fids, NEW m \in DOMAIN q.fids, q.fids[n] = q.fids[m]
      PROVE  n = m
  <2>1. CASE n \in new /\ m \in new
    BY <2>1 DEF Rearranged
  <2>2. CASE n \in new /\ m \notin new
    BY <2>2, <1>1, <1>3 DEF Rearranged
  <2>3. CASE n \notin new /\ m \in new
    BY <2>3, <1>1, <1>3 DEF Rearranged
  <2>4. CASE n \notin new /\ m \notin new
    BY <2>4, <1>1, <1>2, <1>3
  <2> QED BY <2>1, <2>2, <2>3, <2>4
<1>4. IsInjective(q.fids)
  BY <1>3 DEF IsInjective
<1>5. Range(q.fids) = { q.fids[n] : n \in DOMAIN q.fids }
  BY DEF Range
<1>6. ASSUME NEW g
      PROVE  g \in { q.fids[n] : n \in DOMAIN q.fids }
             <=> (\E i \in left : g = o.fids[i]) \/ (new # {} /\ g = f)
  BY <1>1
<1>7. \A g : g \in Range(q.fids) <=> (\E i \in left : g = o.fids[i]) \/ (new # {} /\ g = f)
  BY <1>5, <1>6, Zenon
<1> QED BY <1>4, <1>7, Zenon DEF Gathers

(* The leeks in an order stand as they were drawn.                          *)
Drawn(fids) ==
  \A i, j \in DOMAIN initial_order, a, b \in DOMAIN fids :
    i < j /\ fids[a] = initial_order[i] /\ fids[b] = initial_order[j] => a < b

LEMMA RearrangedDraw ==
  ASSUME NEW o, NEW q, NEW left, NEW r, NEW new, NEW f,
         Rearranged(o, q, left, r, new, f), Drawn(o.fids), IsInjective(initial_order),
         DOMAIN initial_order \subseteq Int,
         \A k \in new, i, j \in DOMAIN initial_order, b \in left :
           /\ initial_order[i] = f /\ i < j /\ initial_order[j] = o.fids[b] => k < r[b]
           /\ initial_order[i] = f /\ j < i /\ initial_order[j] = o.fids[b] => r[b] < k
  PROVE  Drawn(q.fids)
<1> SUFFICES ASSUME NEW i \in DOMAIN initial_order, NEW j \in DOMAIN initial_order,
                    NEW n \in DOMAIN q.fids, NEW m \in DOMAIN q.fids,
                    i < j, q.fids[n] = initial_order[i], q.fids[m] = initial_order[j]
             PROVE  n < m
  BY DEF Drawn
<1>1. /\ \A k \in DOMAIN q.fids :
           (k \in new /\ q.fids[k] = f) \/
           (\E a \in left : k = r[a] /\ q.fids[k] = o.fids[a])
      /\ \A a, b \in left : a < b => r[a] < r[b]
      /\ left \subseteq DOMAIN o.fids
  BY DEF Rearranged, Shift
<1>2. CASE n \in new /\ m \in new
  <2>1. initial_order[i] = initial_order[j]
    BY <1>2 DEF Rearranged
  <2>2. i = j
    BY <2>1 DEF IsInjective
  <2> QED BY <2>2
<1>3. CASE n \in new /\ m \notin new
  <2>1. PICK b \in left : m = r[b] /\ q.fids[m] = o.fids[b]
    BY <1>1, <1>3
  <2>2. q.fids[n] = f
    BY <1>3 DEF Rearranged
  <2> QED BY <1>3, <2>1, <2>2
<1>4. CASE n \notin new /\ m \in new
  <2>1. PICK b \in left : n = r[b] /\ q.fids[n] = o.fids[b]
    BY <1>1, <1>4
  <2>2. q.fids[m] = f
    BY <1>4 DEF Rearranged
  <2> QED BY <1>4, <2>1, <2>2
<1>5. CASE n \notin new /\ m \notin new
  <2>1. PICK a \in left : n = r[a] /\ q.fids[n] = o.fids[a]
    BY <1>1, <1>5
  <2>2. PICK b \in left : m = r[b] /\ q.fids[m] = o.fids[b]
    BY <1>1, <1>5
  <2>3. a < b
    BY <1>1, <2>1, <2>2 DEF Drawn
  <2> QED BY <1>1, <2>1, <2>2, <2>3
<1> QED BY <1>2, <1>3, <1>4, <1>5

(* Of a round, up to a position: whoever was in the order all along has had *)
(* a turn, and behind it nobody has.                                        *)
Round(fids, cut, seen, all) ==
  \A i \in DOMAIN fids : IF i <= cut THEN fids[i] \in all => fids[i] \in seen
                                     ELSE fids[i] \notin seen

LEMMA RearrangedRound ==
  ASSUME NEW o, NEW q, NEW left, NEW r, NEW new, NEW f,
         Rearranged(o, q, left, r, new, f),
         NEW seen, NEW all,
         \A i \in left : IF i <= o.position + 1
                         THEN o.fids[i] \in all => o.fids[i] \in seen
                         ELSE o.fids[i] \notin seen,
         new # {} => f \notin seen,
         \A k \in new : k <= q.position + 1 => f \notin all
  PROVE  Round(q.fids, q.position + 1, seen, all)
<1> SUFFICES ASSUME NEW n \in DOMAIN q.fids
             PROVE  IF n <= q.position + 1 THEN q.fids[n] \in all => q.fids[n] \in seen
                                           ELSE q.fids[n] \notin seen
  BY DEF Round
<1>1. CASE n \in new
  BY <1>1 DEF Rearranged
<1>2. CASE n \notin new
  <2>1. PICK i \in left : n = r[i]
    BY <1>2 DEF Rearranged
  <2>2. q.fids[n] = o.fids[i] /\ (i <= o.position + 1 <=> n <= q.position + 1)
    BY <2>1 DEF Rearranged, Shift
  <2> QED BY <2>2
<1> QED BY <1>1, <1>2

LEMMA RearrangedCursor ==
  ASSUME NEW o, NEW q, NEW left, NEW r, NEW new, NEW f,
         Rearranged(o, q, left, r, new, f),
         o.position + 1 \in left, q.position \in -1 .. Len(q.fids) - 1,
         q.fids \in Seq(Nat), o.position \in 0 .. Len(o.fids) - 1
  PROVE  current(q) = current(o)
<1>1. /\ r[o.position + 1] \in DOMAIN q.fids /\ r[o.position + 1] = q.position + 1
      /\ q.fids[q.position + 1] = o.fids[o.position + 1]
  BY DEF Rearranged, Shift
<1>2. DOMAIN q.fids = 1 .. Len(q.fids) /\ Len(q.fids) \in Nat
  BY SeqIsFunction
<1>3. q.position \in 0 .. Len(q.fids) - 1
  BY <1>1, <1>2
<1> QED BY <1>1, <1>3 DEF current

(* An insertion: the cursor goes along with the element it is on.           *)
LEMMA InsertionRearranges ==
  ASSUME NEW fs, NEW o, Standing(fs, o), NEW q \in Orders, NEW k, NEW f,
         Inserted(o.fids, q.fids, k, f), f \notin Range(o.fids),
         q.position = IF k <= o.position + 1 THEN o.position + 1 ELSE o.position
  PROVE  LET r == [i \in DOMAIN o.fids |-> IF i < k THEN i ELSE i + 1]
         IN /\ Rearranged(o, q, DOMAIN o.fids, r, {k}, f)
            /\ q.position \in -1 .. Len(q.fids) - 1
<1> DEFINE r == [i \in DOMAIN o.fids |-> IF i < k THEN i ELSE i + 1]
           p == o.position + 1
<1>1. /\ o.fids \in Seq(Nat) /\ o.position \in Int
      /\ Len(o.fids) \in Nat /\ DOMAIN o.fids = 1 .. Len(o.fids)
      /\ p \in 0 .. Len(o.fids)
  BY OrderFields DEF Standing
<1>2. /\ Len(q.fids) = Len(o.fids) + 1 /\ k \in 1 .. Len(q.fids) /\ q.fids[k] = f
      /\ DOMAIN q.fids = 1 .. Len(q.fids)
      /\ \A i \in DOMAIN o.fids : q.fids[IF i < k THEN i ELSE i + 1] = o.fids[i]
  BY SeqIsFunction DEF Inserted
<1>3. \A i \in DOMAIN o.fids : r[i] = IF i < k THEN i ELSE i + 1
  OBVIOUS
<1>4. r \in [DOMAIN o.fids -> DOMAIN q.fids]
  BY <1>1, <1>2
<1> HIDE DEF r
<1>5. /\ \A i, j \in DOMAIN o.fids : i < j => r[i] < r[j]
      /\ \A i \in DOMAIN o.fids : q.fids[r[i]] = o.fids[i]
  BY <1>1, <1>2, <1>3
<1>6. /\ \A i \in DOMAIN o.fids : i <= p <=> r[i] <= q.position + 1
      /\ p \in DOMAIN o.fids => r[p] = q.position + 1
  <2>1. p \in Int /\ k \in Int /\ q.position + 1 = IF k <= p THEN p + 1 ELSE p
    BY <1>1, <1>2
  <2>2. \A i \in DOMAIN o.fids : i \in Int /\ r[i] = IF i < k THEN i ELSE i + 1
    BY <1>1, <1>3
  <2> DEFINE c == q.position + 1
  <2>3. c = IF k <= p THEN p + 1 ELSE p
    BY <2>1
  <2> HIDE DEF p, c
  <2>4. ASSUME NEW i \in DOMAIN o.fids PROVE i <= p <=> r[i] <= c
    <3>1. CASE k <= p /\ i < k
      BY <3>1, <2>1, <2>2, <2>3
    <3>2. CASE k <= p /\ ~(i < k)
      BY <3>2, <2>1, <2>2, <2>3
    <3>3. CASE ~(k <= p) /\ i < k
      BY <3>3, <2>1, <2>2, <2>3
    <3>4. CASE ~(k <= p) /\ ~(i < k)
      BY <3>4, <2>1, <2>2, <2>3
    <3> QED BY <3>1, <3>2, <3>3, <3>4
  <2>5. p \in DOMAIN o.fids => r[p] = c
    BY <2>1, <2>2, <2>3
  <2> QED BY <2>4, <2>5 DEF c
<1>7. Shift(o, q, DOMAIN o.fids, r)
  BY <1>4, <1>5, <1>6 DEF Shift
<1>8. ASSUME NEW n \in DOMAIN q.fids PROVE n = k \/ \E i \in DOMAIN o.fids : n = r[i]
  <2>1. CASE n < k
    <3>1. n \in DOMAIN o.fids
      BY <2>1, <1>1, <1>2
    <3> QED BY <2>1, <3>1, <1>3
  <2>2. CASE n > k
    <3>1. n - 1 \in DOMAIN o.fids /\ r[n - 1] = n
      BY <2>2, <1>1, <1>2, <1>3
    <3> QED BY <3>1
  <2> QED BY <2>1, <2>2, <1>1, <1>2
<1>9. \A i \in DOMAIN o.fids : o.fids[i] # f
  BY DEF Range
<1>10. Rearranged(o, q, DOMAIN o.fids, r, {k}, f)
  BY <1>2, <1>7, <1>8, <1>9 DEF Rearranged
<1>11. q.position \in -1 .. Len(q.fids) - 1
  BY <1>1, <1>2
<1> QED BY <1>10, <1>11 DEF r
-----------------------------------------------------------------------------
(***************************************************************************)
(* The order in a fight.                                                   *)
(***************************************************************************)
(* The positions whose turn of the round has come: when a turn is about to  *)
(* begin, those before the cursor.                                          *)
Cut == IF phase = "begin" THEN order.position ELSE order.position + 1

OrderInv ==
  /\ Standing(fighters, order)
  /\ initial_order \in Seq(DOMAIN fighters) /\ IsInjective(initial_order)
  /\ Drawn(order.fids)
  /\ phase \in {"begin", "over"} => actor = 0
  /\ actor # 0 /\ fighters[actor].alive => current(order) = actor
  /\ played \subseteq Living(fighters) /\ steady \subseteq Living(fighters)
  /\ phase # "over" => Round(order.fids, Cut, played, steady)

LEMMA InitOrder == Init => OrderInv
<1> SUFFICES ASSUME Init PROVE OrderInv
  OBVIOUS
<1>1. PICK draw \in {<<1, 2>>, <<2, 1>>}, a \in Cells, b \in Cells :
        /\ fighters = <<Leek(1, a), Leek(2, b)>>
        /\ order = [fids |-> draw, position |-> 0, turn |-> 1] /\ initial_order = draw
        /\ phase = "begin" /\ actor = 0 /\ played = {} /\ steady = {1, 2}
  BY DEF Init
<1>2. /\ draw \in Seq({1, 2}) /\ Len(draw) = 2 /\ DOMAIN draw = {1, 2} /\ Range(draw) = {1, 2}
      /\ draw \in Seq(Nat) /\ IsInjective(draw)
  <2>1. draw \in Seq({1, 2}) /\ Len(draw) = 2 /\ draw \in Seq(Nat)
    <3>1. CASE draw = <<1, 2>>
      BY <3>1
    <3>2. CASE draw = <<2, 1>>
      BY <3>2
    <3> QED BY <3>1, <3>2
  <2>2. DOMAIN draw = {1, 2}
    <3>1. DOMAIN draw = 1 .. 2
      BY <2>1, LenProperties
    <3> QED BY <3>1
  <2>3. (draw[1] = 1 /\ draw[2] = 2) \/ (draw[1] = 2 /\ draw[2] = 1)
    OBVIOUS
  <2>4. Range(draw) = {1, 2}
    BY <2>2, <2>3 DEF Range
  <2> QED BY <2>1, <2>2, <2>3, <2>4 DEF IsInjective
<1>3. DOMAIN fighters = {1, 2} /\ Living(fighters) = {1, 2}
  <2> DEFINE p == Leek(1, a)
             q == Leek(2, b)
  <2>1. p.alive = TRUE /\ q.alive = TRUE
    BY DEF Leek
  <2>2. fighters = <<p, q>>
    BY <1>1
  <2> HIDE DEF p, q
  <2>3. DOMAIN fighters = 1 .. 2 /\ fighters[1] = p /\ fighters[2] = q
    BY <2>2
  <2>4. DOMAIN fighters = {1, 2}
    BY <2>3
  <2>5. \A f : f \in Living(fighters) <=> f \in {1, 2}
    BY <2>1, <2>3, <2>4 DEF Living
  <2> QED BY <2>4, <2>5
<1>4. Standing(fighters, order)
  <2>1. order.fids = draw /\ order.position = 0 /\ order.turn = 1
    BY <1>1
  <2>2. order \in Orders
    BY <1>1, <1>2 DEF Orders
  <2>3. 0 \in -1 .. Len(draw) - 1
    BY <1>2
  <2> QED BY <1>2, <1>3, <2>1, <2>2, <2>3, Zenon DEF Standing
<1>5. Drawn(order.fids)
  BY <1>1, <1>2 DEF Drawn, IsInjective
<1>6. Round(order.fids, Cut, played, steady)
  BY <1>1, <1>2 DEF Round, Cut
<1> QED BY <1>1, <1>2, <1>3, <1>4, <1>5, <1>6 DEF OrderInv

LEMMA SameLiving ==
  ASSUME NEW fs, NEW gs, DOMAIN gs = DOMAIN fs, \A f \in DOMAIN fs : gs[f].alive = fs[f].alive
  PROVE  Living(gs) = Living(fs)
BY Zenon DEF Living

LEMMA PlacedAlive ==
  ASSUME NEW fs \in Seq(Fighter), NEW f \in DOMAIN fs, NEW cell
  PROVE  LET gs == place_entity(fs, f, cell)
         IN /\ DOMAIN gs = DOMAIN fs
            /\ \A g \in DOMAIN fs : /\ gs[g].alive = fs[g].alive
                                    /\ gs[g].summoner = fs[g].summoner
<1>1. fs[f] \in Fighter
  BY SeqIsFunction
<1> DEFINE r == [fs[f] EXCEPT !.cell = cell]
<1>2. r.alive = fs[f].alive /\ r.summoner = fs[f].summoner
  BY <1>1 DEF Fighter
<1>3. place_entity(fs, f, cell) = [fs EXCEPT ![f] = r]
  BY DEF place_entity
<1> HIDE DEF r
<1> QED BY <1>2, <1>3

(* A step that leaves the living and the order alone, in a turn.            *)
LEMMA QuietStep ==
  ASSUME OrderInv, UNCHANGED <<order, initial_order, played, steady, actor>>,
         DOMAIN fighters' = DOMAIN fighters,
         \A f \in DOMAIN fighters : fighters'[f].alive = fighters[f].alive,
         actor # 0 => actor \in DOMAIN fighters,
         phase \in {"act", "drain", "plant"}, phase' \in {"act", "drain", "plant"}
  PROVE  OrderInv'
<1>1. Living(fighters') = Living(fighters)
  BY SameLiving
<1>2. Standing(fighters, order)' /\ Drawn(order.fids)'
  BY <1>1 DEF OrderInv, Standing, Drawn
<1>3. Cut' = Cut
  BY DEF Cut
<1>4. Round(order.fids, Cut, played, steady)'
  BY <1>3 DEF OrderInv, Round
<1>5. current(order)' = current(order)
  BY DEF current
<1> QED BY <1>1, <1>2, <1>4, <1>5 DEF OrderInv

LEMMA WalkOnAlive ==
  ASSUME Board(fighters, occupancy), NEW wk, wk.fid \in DOMAIN fighters, walk_on(wk)
  PROVE  /\ DOMAIN fighters' = DOMAIN fighters
         /\ \A f \in DOMAIN fighters : /\ fighters'[f].alive = fighters[f].alive
                                       /\ fighters'[f].summoner = fighters[f].summoner
<1>1. \E to : fighters' = place_entity(fighters, wk.fid, to)
  BY Zenon DEF walk_on
<1> QED BY <1>1, PlacedAlive DEF Board

LEMMA SlainLiving ==
  ASSUME NEW fs \in Seq(Fighter), NEW dead \in SUBSET DOMAIN fs
  PROVE  /\ Living(Slain(fs, dead)) = Living(fs) \ dead
         /\ DOMAIN Slain(fs, dead) = DOMAIN fs
         /\ \A f \in DOMAIN fs : /\ Slain(fs, dead)[f].alive => fs[f].alive /\ f \notin dead
                                 /\ Slain(fs, dead)[f].summoner = fs[f].summoner
<1> DEFINE gs == Slain(fs, dead)
<1>1. /\ DOMAIN gs = DOMAIN fs
      /\ \A f \in DOMAIN fs \ dead : gs[f] = fs[f]
      /\ \A f \in dead : gs[f] = [fs[f] EXCEPT !.alive = FALSE, !.cell = NoCell]
  BY Zenon DEF Slain
<1>2. \A f \in DOMAIN fs : fs[f] \in Fighter
  BY SeqIsFunction
<1>3. \A f \in dead : gs[f].alive = FALSE /\ gs[f].summoner = fs[f].summoner
  <2> SUFFICES ASSUME NEW f \in dead
               PROVE  gs[f].alive = FALSE /\ gs[f].summoner = fs[f].summoner
    OBVIOUS
  <2>1. fs[f] \in Fighter /\ gs[f] = [fs[f] EXCEPT !.alive = FALSE, !.cell = NoCell]
    BY <1>1, <1>2
  <2> HIDE DEF gs
  <2>2. [fs[f] EXCEPT !.alive = FALSE, !.cell = NoCell].alive = FALSE
    BY <2>1, RecordFields, Zenon
  <2>3. [fs[f] EXCEPT !.alive = FALSE, !.cell = NoCell].summoner = fs[f].summoner
    BY <2>1, RecordFields, Zenon
  <2> QED BY <2>1, <2>2, <2>3
<1> HIDE DEF gs
<1>4. Living(gs) = Living(fs) \ dead
  BY <1>1, <1>3 DEF Living
<1> QED BY <1>1, <1>3, <1>4 DEF gs

(* What deaths leave of an order.                                           *)
LEMMA RemovedOrder ==
  ASSUME NEW fs \in Seq(Fighter), NEW o, Standing(fs, o), Drawn(o.fids),
         initial_order \in Seq(DOMAIN fs), IsInjective(initial_order),
         NEW dead \in SUBSET DOMAIN fs, NEW seen, NEW all,
         \A i \in DOMAIN o.fids : o.fids[i] \notin dead =>
           IF i <= o.position + 1 THEN o.fids[i] \in all => o.fids[i] \in seen
                                  ELSE o.fids[i] \notin seen
  PROVE  LET q == remove_entities(o, dead)
         IN /\ Standing(Slain(fs, dead), q) /\ Drawn(q.fids) /\ q.turn = o.turn
            /\ Round(q.fids, q.position + 1, seen \ dead, all \ dead)
            /\ Round(q.fids, q.position + 1, seen \ dead, all)
            /\ current(o) # 0 /\ current(o) \notin dead => current(q) = current(o)
<1> DEFINE q == remove_entities(o, dead)
           left == { i \in DOMAIN o.fids : o.fids[i] \notin dead }
<1> HIDE DEF q
<1>3. \A i : i \in left <=> i \in DOMAIN o.fids /\ o.fids[i] \notin dead
  BY Zenon DEF left
<1> HIDE DEF left
<1>1. /\ q \in Orders /\ q.turn = o.turn /\ q.position \in -1 .. Len(q.fids) - 1
      /\ ClosesUp(o, q, left)
  <2>1. q = remove_entities(o, dead)
    BY DEF q
  <2> QED BY <1>3, <2>1, Removal
<1>2. PICK r : Shift(o, q, left, r) /\ \A n \in DOMAIN q.fids : \E i \in left : n = r[i]
  BY <1>1 DEF ClosesUp
<1>0. Range(o.fids) = { o.fids[i] : i \in DOMAIN o.fids } /\ DOMAIN initial_order \subseteq Int
  BY SeqIsFunction DEF Range
<1>5. \A g : g \in Living(fs) \ dead <=> \E i \in left : g = o.fids[i]
  <2>1. \A g : g \in Living(fs) <=> \E i \in DOMAIN o.fids : g = o.fids[i]
    BY <1>0 DEF Standing
  <2> QED BY <1>3, <2>1
<1>6. Rearranged(o, q, left, r, {}, 0)
  BY <1>2, <1>3 DEF Rearranged
<1>7. IsInjective(q.fids) /\ Range(q.fids) = Living(fs) \ dead
  <2>1. IsInjective(o.fids)
    BY DEF Standing
  <2>2. /\ IsInjective(q.fids)
        /\ \A g : g \in Range(q.fids) <=> \/ \E i \in left : g = o.fids[i]
                                          \/ {} # {} /\ g = 0
    BY <1>6, <2>1, RearrangedOrder, Zenon DEF Gathers
  <2>3. \A g : g \in Range(q.fids) <=> g \in Living(fs) \ dead
    BY <1>5, <2>2, Zenon
  <2> QED BY <2>2, <2>3
<1>8. Standing(Slain(fs, dead), q)
  BY <1>1, <1>7, SlainLiving DEF Standing
<1>9. Drawn(q.fids)
  BY <1>0, <1>6, RearrangedDraw
<1>10. /\ Round(q.fids, q.position + 1, seen \ dead, all \ dead)
       /\ Round(q.fids, q.position + 1, seen \ dead, all)
  <2>1. \A i \in left : IF i <= o.position + 1
                        THEN o.fids[i] \in all => o.fids[i] \in seen
                        ELSE o.fids[i] \notin seen
    BY <1>3
  <2> DEFINE s == seen \ dead
             a == all \ dead
  <2>2. \A i \in left : IF i <= o.position + 1
                        THEN o.fids[i] \in a => o.fids[i] \in s
                        ELSE o.fids[i] \notin s
    BY <1>3, <2>1
  <2>5. \A i \in left : IF i <= o.position + 1
                        THEN o.fids[i] \in all => o.fids[i] \in s
                        ELSE o.fids[i] \notin s
    BY <1>3, <2>1
  <2> HIDE DEF s, a
  <2>3. Round(q.fids, q.position + 1, s, a)
    BY <1>6, <2>2, RearrangedRound
  <2>4. Round(q.fids, q.position + 1, s, all)
    BY <1>6, <2>5, RearrangedRound
  <2> QED BY <2>3, <2>4 DEF s, a
<1>11. ASSUME current(o) # 0, current(o) \notin dead PROVE current(q) = current(o)
  <2>1. o.position \in 0 .. Len(o.fids) - 1 /\ current(o) = o.fids[o.position + 1]
    BY <1>11 DEF current
  <2>2. o.position + 1 \in DOMAIN o.fids
    BY <2>1, OrderFields DEF Standing
  <2>3. o.position + 1 \in left
    BY <1>3, <1>11, <2>1, <2>2
  <2>4. q.fids \in Seq(Nat)
    BY <1>1, OrderFields
  <2> QED BY <1>1, <1>6, <2>1, <2>3, <2>4, RearrangedCursor
<1> QED BY <1>1, <1>8, <1>9, <1>10, <1>11 DEF q

LEMMA ModSelf == \A n \in Nat \ {0} : n % n = 0
OBVIOUS

LEMMA CursorMoved ==
  ASSUME NEW o \in Orders, NEW n \in Int, NEW q, q = [o EXCEPT !.position = n]
  PROVE  q \in Orders /\ q.fids = o.fids /\ q.position = n /\ q.turn = o.turn
BY DEF Orders

(* next: to the one behind, or, behind the last, to the first of a round    *)
(* that begins.                                                             *)
LEMMA NextOrder ==
  ASSUME NEW fs, NEW o, Standing(fs, o), o.fids # <<>>
  PROVE  /\ Standing(fs, next(o)) /\ next(o).fids = o.fids
         /\ \/ /\ next(o).turn = o.turn /\ next(o).position = o.position + 1
            \/ /\ next(o).turn # o.turn /\ next(o).position = 0
               /\ o.position + 1 = Len(o.fids)
<1>1. /\ o \in Orders /\ o.fids \in Seq(Nat) /\ o.position \in Int /\ o.turn \in Int
      /\ o.position \in -1 .. Len(o.fids) - 1 /\ Len(o.fids) \in Nat \ {0}
  <2>1. o.fids \in Seq(Nat) /\ Len(o.fids) \in Nat
    BY OrderFields DEF Standing
  <2>2. Len(o.fids) # 0
    BY <2>1, EmptySeq
  <2> QED BY <2>1, <2>2, OrderFields DEF Standing
<1>2. CASE o.position + 1 >= Len(o.fids)
  <2>1. (o.position + 1) % Len(o.fids) = 0 /\ o.position + 1 = Len(o.fids)
    <3>1. o.position + 1 = Len(o.fids)
      BY <1>1, <1>2
    <3>2. Len(o.fids) % Len(o.fids) = 0
      BY <1>1, ModSelf
    <3> QED BY <3>1, <3>2
  <2> DEFINE t == o.turn + 1
  <2>2. next(o) = [o EXCEPT !.position = 0, !.turn = t] /\ t \in Int
    <3>1. t \in Int
      BY <1>1
    <3>2. next(o) = [o EXCEPT !.position = (o.position + 1) % Len(o.fids), !.turn = t]
      BY <1>2, Zenon DEF next
    <3> HIDE DEF t
    <3> QED BY <2>1, <3>1, <3>2, Zenon
  <2> HIDE DEF t
  <2>3. /\ next(o) \in Orders /\ next(o).fids = o.fids /\ next(o).position = 0
        /\ next(o).turn = t
    <3> DEFINE q == next(o)
               z == 0
    <3>1. q = [o EXCEPT !.position = z, !.turn = t] /\ z \in Int
      BY <2>2
    <3> HIDE DEF q, z
    <3>2. q \in Orders /\ q.fids = o.fids /\ q.position = z /\ q.turn = t
      <4>1. o \in Orders /\ t \in Int /\ z \in Int
        BY <1>1, <2>2, <3>1
      <4>2. q = [o EXCEPT !.position = z, !.turn = t]
        BY <3>1
      <4> QED BY <4>1, <4>2 DEF Orders
    <3> QED BY <3>2 DEF q, z
  <2>4. t # o.turn
    BY <1>1 DEF t
  <2> QED BY <1>1, <2>1, <2>3, <2>4 DEF Standing
<1>3. CASE ~(o.position + 1 >= Len(o.fids))
  <2> DEFINE n == o.position + 1
  <2>1. next(o) = [o EXCEPT !.position = n] /\ n \in Int
    BY <1>1, <1>3 DEF next
  <2> HIDE DEF n
  <2>2. /\ next(o) \in Orders /\ next(o).fids = o.fids
        /\ next(o).position = n /\ next(o).turn = o.turn
    <3> DEFINE q == next(o)
    <3>1. q = [o EXCEPT !.position = n]
      BY <2>1
    <3> HIDE DEF q
    <3>2. q \in Orders /\ q.fids = o.fids /\ q.position = n /\ q.turn = o.turn
      BY <1>1, <2>1, <3>1, CursorMoved
    <3> QED BY <3>2 DEF q
  <2>3. n = o.position + 1 /\ n \in -1 .. Len(o.fids) - 1
    BY <1>1, <1>3, <2>2 DEF n
  <2> QED BY <1>1, <2>2, <2>3 DEF Standing
<1> QED BY <1>2, <1>3

LEMMA UnfinishedLives ==
  ASSUME NEW fs, NEW o, Standing(fs, o), ~is_finished(fs)
  PROVE  o.fids # <<>>
<1> SUFFICES ASSUME o.fids = <<>> PROVE FALSE
  OBVIOUS
<1>1. Living(fs) = {}
  <2>1. Range(o.fids) = {}
    BY DEF Range
  <2> QED BY <2>1 DEF Standing
<1>2. { fs[f].team : f \in Living(fs) } = {}
  BY <1>1
<1>3. Cardinality({ fs[f].team : f \in Living(fs) }) = 0
  BY <1>2, FS_EmptySet, Zenon
<1> QED BY <1>3 DEF is_finished

(* The end of a turn, in whatever state it leaves fighters and order.       *)
LEMMA EndTurn ==
  ASSUME NEW fs, NEW o, Standing(fs, o), Drawn(o.fids), IsInjective(initial_order),
         initial_order \in Seq(DOMAIN fs), NEW seen \in SUBSET Living(fs),
         Round(o.fids, o.position + 1, seen, steady),
         fighters' = fs, initial_order' = initial_order, end_turn(fs, o, seen)
  PROVE  /\ OrderInv'
         /\ order'.turn # o.turn => o.position + 1 = Len(o.fids)
<1> DEFINE after == IF is_finished(fs) THEN o ELSE next(o)
<1>1. /\ order' = after /\ actor' = 0
      /\ phase' \in {"begin", "over"} /\ (is_finished(fs) => phase' = "over")
      /\ IF after.turn # o.turn
         THEN played' = {} /\ steady' = Range(after.fids)
         ELSE played' = seen /\ steady' = steady \cap Living(fs)
  BY DEF end_turn
<1>2. /\ Standing(fs, after) /\ after.fids = o.fids
      /\ \/ is_finished(fs) /\ after = o
         \/ /\ after.turn = o.turn /\ after.position = o.position + 1
         \/ /\ after.turn # o.turn /\ after.position = 0 /\ o.position + 1 = Len(o.fids)
  BY NextOrder, UnfinishedLives
<1> HIDE DEF after
<1>3. Standing(fighters, order)' /\ Drawn(order.fids)'
  BY <1>1, <1>2 DEF Standing, Drawn
<1>4. played' \subseteq Living(fighters') /\ steady' \subseteq Living(fighters')
  BY <1>1, <1>2 DEF Standing
<1>5. ASSUME phase' # "over" PROVE Round(order.fids, Cut, played, steady)'
  <2>1. Cut' = after.position /\ order'.fids = o.fids
    BY <1>1, <1>2, <1>5 DEF Cut
  <2>2. CASE after.turn = o.turn /\ after.position = o.position + 1
    <3>1. played' = seen /\ steady' = steady \cap Living(fs)
      BY <1>1, <2>2
    <3> QED BY <2>1, <2>2, <3>1 DEF Round
  <2>3. CASE after.turn # o.turn /\ after.position = 0
    <3>1. played' = {} /\ Cut' = 0
      BY <1>1, <2>1, <2>3
    <3>2. \A i \in DOMAIN o.fids : ~(i <= 0)
      BY OrderFields DEF Standing
    <3> QED BY <2>1, <3>1, <3>2 DEF Round
  <2> QED BY <1>1, <1>2, <1>5, <2>2, <2>3
<1>6. order'.turn # o.turn => o.position + 1 = Len(o.fids)
  BY <1>1, <1>2
<1> QED BY <1>1, <1>3, <1>4, <1>5, <1>6 DEF OrderInv

(* NobodyIsSkipped, of one step.                                            *)
WholeRound ==
  order'.turn # order.turn =>
    (steady \ played) \cap Living(fighters')
      \subseteq (IF phase = "begin" THEN {current(order)} ELSE {})

(* The fighter whose turn it is stands at the cursor.                       *)
LEMMA AtTheCursor ==
  ASSUME NEW fs \in Seq(Fighter), NEW o, Standing(fs, o), NEW f, f # 0, current(o) = f
  PROVE  /\ o.position + 1 \in DOMAIN o.fids /\ o.fids[o.position + 1] = f
         /\ o.position \in 0 .. Len(o.fids) - 1
         /\ f \in Living(fs)
<1>1. o.position \in 0 .. Len(o.fids) - 1 /\ current(o) = o.fids[o.position + 1]
  BY DEF current
<1>2. o.position + 1 \in DOMAIN o.fids
  BY <1>1, OrderFields DEF Standing
<1>3. f \in Range(o.fids)
  BY <1>1, <1>2 DEF Range
<1> QED BY <1>1, <1>2, <1>3 DEF Standing

LEMMA FightersAre == IInv => fighters \in Seq(Fighter) /\ DOMAIN fighters \subseteq Nat \ {0}
<1> SUFFICES ASSUME IInv PROVE fighters \in Seq(Fighter) /\ DOMAIN fighters \subseteq Nat \ {0}
  OBVIOUS
<1>1. fighters \in Seq(Fighter)
  BY DEF IInv, Board
<1> QED BY <1>1, SeqIsFunction

LEMMA BeginActOrder ==
  ASSUME IInv, OrderInv, NEW f \in DOMAIN fighters, begin_act(f)
  PROVE  OrderInv' /\ WholeRound
<1>1. /\ phase = "begin" /\ f = current(order) /\ phase' = "act" /\ actor' = f
      /\ played' = played \cup {f}
      /\ UNCHANGED <<fighters, order, initial_order, steady>>
  BY DEF begin_act, TurnBegins, world
<1>2. f # 0 /\ fighters \in Seq(Fighter)
  BY FightersAre
<1>3. /\ order.position + 1 \in DOMAIN order.fids /\ order.fids[order.position + 1] = f
      /\ f \in Living(fighters)
  BY <1>1, <1>2, AtTheCursor DEF OrderInv
<1>4. DOMAIN order.fids = 1 .. Len(order.fids) /\ order.position \in Int
  BY OrderFields DEF OrderInv, Standing
<1>5. Round(order.fids, order.position, played, steady)
  BY <1>1 DEF OrderInv, Cut
<1>6. Round(order.fids, order.position + 1, played \cup {f}, steady)
  <2> SUFFICES ASSUME NEW i \in DOMAIN order.fids
               PROVE  IF i <= order.position + 1
                      THEN order.fids[i] \in steady => order.fids[i] \in played \cup {f}
                      ELSE order.fids[i] \notin played \cup {f}
    BY DEF Round
  <2>1. IF i <= order.position THEN order.fids[i] \in steady => order.fids[i] \in played
                               ELSE order.fids[i] \notin played
    BY <1>5 DEF Round
  <2>2. i # order.position + 1 => order.fids[i] # f
    BY <1>3 DEF OrderInv, Standing, IsInjective
  <2> QED BY <1>3, <1>4, <2>1, <2>2
<1>7. Round(order.fids, Cut, played, steady)'
  BY <1>1, <1>6 DEF Cut
<1>8. current(order)' = current(order)
  BY <1>1 DEF current
<1>9. OrderInv'
  <2>1. Standing(fighters, order)' /\ Drawn(order.fids)'
    BY <1>1 DEF OrderInv, Standing, Drawn
  <2>2. played' \subseteq Living(fighters') /\ steady' \subseteq Living(fighters')
    BY <1>1, <1>3 DEF OrderInv
  <2> QED BY <1>1, <1>7, <1>8, <2>1, <2>2 DEF OrderInv
<1> QED BY <1>1, <1>9 DEF WholeRound

LEMMA UpkeepOrder ==
  ASSUME IInv, OrderInv, NEW f \in DOMAIN fighters, begin_upkeep(f)
  PROVE  OrderInv' /\ WholeRound
<1> DEFINE seen == played \cup {f}
<1>1. /\ phase = "begin" /\ f = current(order)
      /\ end_turn(fighters, order, seen)
      /\ UNCHANGED <<fighters, initial_order>>
  BY DEF begin_upkeep, TurnBegins
<1>2. f # 0 /\ fighters \in Seq(Fighter)
  BY FightersAre
<1>3. /\ order.position + 1 \in DOMAIN order.fids /\ order.fids[order.position + 1] = f
      /\ f \in Living(fighters)
  BY <1>1, <1>2, AtTheCursor DEF OrderInv
<1>4. DOMAIN order.fids = 1 .. Len(order.fids) /\ order.position \in Int
  BY OrderFields DEF OrderInv, Standing
<1>5. Round(order.fids, order.position, played, steady)
  BY <1>1 DEF OrderInv, Cut
<1>6. Round(order.fids, order.position + 1, seen, steady)
  <2> SUFFICES ASSUME NEW i \in DOMAIN order.fids
               PROVE  IF i <= order.position + 1
                      THEN order.fids[i] \in steady => order.fids[i] \in seen
                      ELSE order.fids[i] \notin seen
    BY DEF Round
  <2>1. IF i <= order.position THEN order.fids[i] \in steady => order.fids[i] \in played
                               ELSE order.fids[i] \notin played
    BY <1>5 DEF Round
  <2>2. i # order.position + 1 => order.fids[i] # f
    BY <1>3 DEF OrderInv, Standing, IsInjective
  <2> QED BY <1>3, <1>4, <2>1, <2>2
<1>7. seen \in SUBSET Living(fighters)
  BY <1>3 DEF OrderInv
<1> HIDE DEF seen
<1>8. OrderInv' /\ (order'.turn # order.turn => order.position + 1 = Len(order.fids))
  BY <1>1, <1>6, <1>7, EndTurn DEF OrderInv
<1>9. WholeRound
  <2> SUFFICES ASSUME order.position + 1 = Len(order.fids), NEW g \in steady \ played,
                      g \in Living(fighters')
               PROVE  g = f
    BY <1>1, <1>8 DEF WholeRound
  <2>1. PICK i \in DOMAIN order.fids : g = order.fids[i]
    BY <1>1 DEF OrderInv, Standing, Range
  <2>2. ~(i <= order.position)
    BY <1>5, <2>1 DEF Round
  <2>3. i = order.position + 1
    BY <1>4, <2>1, <2>2
  <2> QED BY <1>3, <2>1, <2>3
<1> QED BY <1>8, <1>9

LEMMA EndEntityTurnOrder ==
  ASSUME IInv, OrderInv, end_entity_turn
  PROVE  OrderInv' /\ WholeRound
<1>1. /\ phase = "act" /\ end_turn(fighters, order, played)
      /\ UNCHANGED <<fighters, initial_order>>
  BY DEF end_entity_turn
<1>2. Round(order.fids, order.position + 1, played, steady)
  BY <1>1 DEF OrderInv, Cut
<1>3. OrderInv' /\ (order'.turn # order.turn => order.position + 1 = Len(order.fids))
  BY <1>1, <1>2, EndTurn DEF OrderInv
<1>4. WholeRound
  <2> SUFFICES ASSUME order.position + 1 = Len(order.fids), NEW g \in steady \ played,
                      g \in Living(fighters')
               PROVE  FALSE
    BY <1>1, <1>3 DEF WholeRound
  <2>1. PICK i \in DOMAIN order.fids : g = order.fids[i]
    BY <1>1 DEF OrderInv, Standing, Range
  <2>2. ~(i <= order.position + 1)
    BY <1>2, <2>1 DEF Round
  <2>3. DOMAIN order.fids = 1 .. Len(order.fids) /\ Len(order.fids) \in Nat
    BY OrderFields DEF OrderInv, Standing
  <2> QED BY <2>1, <2>2, <2>3
<1> QED BY <1>3, <1>4

(* Whoever dies before it plays leaves with its summons, and the turn after *)
(* its own begins.                                                          *)
LEMMA SkipOrder ==
  ASSUME IInv, OrderInv, NEW f \in DOMAIN fighters, begin_skip(f)
  PROVE  OrderInv' /\ WholeRound
<1> DEFINE dead == Doomed(fighters, f)
           fs == Slain(fighters, dead)
           q == remove_entities(order, dead)
           seen == played \ dead
<1>1. /\ phase = "begin" /\ f = current(order)
      /\ end_turn(fs, q, seen) /\ fighters' = fs
      /\ UNCHANGED initial_order
  BY DEF begin_skip, TurnBegins
<1>2. f # 0 /\ fighters \in Seq(Fighter)
  BY FightersAre
<1>3. /\ order.position + 1 \in DOMAIN order.fids /\ order.fids[order.position + 1] = f
      /\ f \in Living(fighters)
  BY <1>1, <1>2, AtTheCursor DEF OrderInv
<1>4. DOMAIN order.fids = 1 .. Len(order.fids) /\ order.position \in Int
  BY OrderFields DEF OrderInv, Standing
<1>5. Round(order.fids, order.position, played, steady)
  BY <1>1 DEF OrderInv, Cut
<1>6. dead \in SUBSET DOMAIN fighters /\ f \in dead
  BY Zenon DEF Doomed
<1> HIDE DEF dead
<1>7. ASSUME NEW i \in DOMAIN order.fids, order.fids[i] \notin dead
      PROVE  IF i <= order.position + 1 THEN order.fids[i] \in steady => order.fids[i] \in played
                                        ELSE order.fids[i] \notin played
  <2>1. IF i <= order.position THEN order.fids[i] \in steady => order.fids[i] \in played
                               ELSE order.fids[i] \notin played
    BY <1>5 DEF Round
  <2>2. i # order.position + 1
    BY <1>3, <1>6, <1>7
  <2> QED BY <1>4, <2>1, <2>2
<1>8. /\ Standing(fs, q) /\ Drawn(q.fids) /\ q.turn = order.turn
      /\ Round(q.fids, q.position + 1, seen, steady)
  BY <1>2, <1>6, <1>7, RemovedOrder DEF OrderInv
<1>9. Living(fs) = Living(fighters) \ dead /\ DOMAIN fs = DOMAIN fighters
  BY <1>2, <1>6, SlainLiving
<1>10. seen \in SUBSET Living(fs)
  BY <1>9 DEF OrderInv
<1>11. initial_order \in Seq(DOMAIN fs) /\ IsInjective(initial_order)
  BY <1>9 DEF OrderInv
<1> HIDE DEF fs, q, seen
<1>12. OrderInv' /\ (order'.turn # q.turn => q.position + 1 = Len(q.fids))
  BY <1>1, <1>8, <1>10, <1>11, EndTurn
<1>13. WholeRound
  <2> SUFFICES ASSUME q.position + 1 = Len(q.fids), NEW g \in steady \ played,
                      g \in Living(fs)
               PROVE  FALSE
    BY <1>1, <1>8, <1>12 DEF WholeRound
  <2>1. PICK i \in DOMAIN q.fids : g = q.fids[i]
    BY <1>8 DEF Standing, Range
  <2>2. ~(i <= q.position + 1)
    BY <1>8, <2>1 DEF Round, seen
  <2>3. DOMAIN q.fids = 1 .. Len(q.fids) /\ Len(q.fids) \in Nat
    BY <1>8, OrderFields DEF Standing
  <2> QED BY <2>1, <2>2, <2>3
<1> QED BY <1>12, <1>13

(* A death during a turn.                                                   *)
LEMMA AttackOrder ==
  ASSUME IInv, OrderInv, NEW victim \in DOMAIN fighters, attack(victim) \/ plant_attacks(victim)
  PROVE  OrderInv' /\ WholeRound
<1> DEFINE dead == Doomed(fighters, victim)
           fs == Slain(fighters, dead)
           q == remove_entities(order, dead)
<1>1. /\ phase \in {"act", "plant"} /\ fighters' = fs /\ order' = q
      /\ played' = played \ dead /\ steady' = steady \ dead
      /\ UNCHANGED <<initial_order, phase, actor>>
  BY DEF attack, plant_attacks, Dies, Acts, Runs, loop
<1>2. fighters \in Seq(Fighter) /\ DOMAIN fighters \subseteq Nat \ {0}
  BY FightersAre
<1>3. dead \in SUBSET DOMAIN fighters
  BY DoomedAreFighters
<1> HIDE DEF dead
<1>4. Round(order.fids, order.position + 1, played, steady)
  BY <1>1 DEF OrderInv, Cut
<1>5. \A i \in DOMAIN order.fids : order.fids[i] \notin dead =>
        IF i <= order.position + 1 THEN order.fids[i] \in steady => order.fids[i] \in played
                                   ELSE order.fids[i] \notin played
  BY <1>4 DEF Round
<1>6. /\ Standing(fs, q) /\ Drawn(q.fids) /\ q.turn = order.turn
      /\ Round(q.fids, q.position + 1, played \ dead, steady \ dead)
      /\ current(order) # 0 /\ current(order) \notin dead => current(q) = current(order)
  BY <1>2, <1>3, <1>5, RemovedOrder DEF OrderInv
<1>7. /\ Living(fs) = Living(fighters) \ dead /\ DOMAIN fs = DOMAIN fighters
      /\ \A g \in DOMAIN fighters : fs[g].alive => fighters[g].alive /\ g \notin dead
  BY <1>2, <1>3, SlainLiving
<1>8. actor \in DOMAIN fighters
  BY <1>1 DEF IInv, LoopInv
<1> HIDE DEF fs, q
<1>9. Standing(fighters, order)' /\ Drawn(order.fids)'
  BY <1>1, <1>6 DEF Standing, Drawn
<1>10. Round(order.fids, Cut, played, steady)'
  BY <1>1, <1>6 DEF Cut
<1>11. actor' # 0 /\ fighters'[actor'].alive => current(order') = actor'
  BY <1>1, <1>2, <1>6, <1>7, <1>8 DEF OrderInv
<1>12. OrderInv'
  BY <1>1, <1>7, <1>9, <1>10, <1>11 DEF OrderInv
<1> QED BY <1>1, <1>6, <1>12 DEF WholeRound

(* The steps that neither kill nor bring anyone into the order.             *)
(* The steps of a turn that bring nobody in and kill nobody: the loop goes  *)
(* on with the same order and the same living.                              *)
Quiet ==
  /\ UNCHANGED <<order, initial_order, played, steady, actor>>
  /\ DOMAIN fighters' = DOMAIN fighters
  /\ \A f \in DOMAIN fighters : /\ fighters'[f].alive = fighters[f].alive
                                /\ fighters'[f].summoner = fighters[f].summoner
  /\ phase \in {"act", "drain", "plant"} /\ phase' \in {"act", "drain", "plant"}

LEMMA QuietSteps ==
  ASSUME IInv,
         \/ \E f \in DOMAIN fighters : slide_entity(f) \/ invert_entities(f)
         \/ teleport_entity \/ move_entity \/ resume_walk
         \/ next_awakening \/ finish_awakening \/ take_walk_result
  PROVE  Quiet
<1>1. fighters \in Seq(Fighter) /\ Board(fighters, occupancy)
  BY FightersAre DEF IInv
<1>2. ASSUME NEW f \in DOMAIN fighters, NEW line, Moved(f, line), Runs PROVE Quiet
  <2>1. \E to : fighters' = place_entity(fighters, f, to)
    BY <1>2, Zenon DEF Moved, Calls
  <2>2. /\ DOMAIN fighters' = DOMAIN fighters
        /\ \A g \in DOMAIN fighters : /\ fighters'[g].alive = fighters[g].alive
                                      /\ fighters'[g].summoner = fighters[g].summoner
    BY <1>1, <2>1, PlacedAlive
  <2>3. UNCHANGED <<order, initial_order, played, steady, actor>>
    BY <1>2 DEF Moved, Calls, history
  <2>4. phase = "act" /\ phase' \in {"act", "drain"}
    BY <1>2 DEF Moved, Calls, Runs
  <2> QED BY <2>2, <2>3, <2>4 DEF Quiet
<1>3. ASSUME NEW f \in DOMAIN fighters, slide_entity(f) PROVE Quiet
  <2>1. \E line : Moved(f, line) /\ Runs
    BY <1>3 DEF slide_entity, Acts
  <2> QED BY <1>2, <2>1
<1>4. ASSUME teleport_entity PROVE Quiet
  <2>1. actor \in DOMAIN fighters /\ \E line : Moved(actor, line) /\ Runs
    BY <1>4, Acting DEF teleport_entity, Acts
  <2> QED BY <1>2, <2>1
<1>5. ASSUME NEW f \in DOMAIN fighters, invert_entities(f) PROVE Quiet
  <2> DEFINE once == place_entity(fighters, actor, fighters[f].cell)
  <2>1. /\ Runs /\ fighters' = place_entity(once, f, fighters[actor].cell)
        /\ fighters[f].cell # NoCell
        /\ phase' \in {phase, "drain"}
        /\ UNCHANGED <<order, initial_order, played, steady, actor>>
    BY <1>5 DEF invert_entities, Acts, Calls, history
  <2>2. actor \in DOMAIN fighters /\ phase = "act" /\ fighters[f].cell \in Cells
    <3>1. fighters[f] \in Fighter
      BY <1>1, SeqIsFunction
    <3> QED BY <2>1, <3>1, Acting DEF Fighter
  <2>3. once \in Seq(Fighter) /\ DOMAIN once = DOMAIN fighters
    BY <1>1, <2>2, PlaceEntity
  <2>4. \A g \in DOMAIN fighters : /\ once[g].alive = fighters[g].alive
                                   /\ once[g].summoner = fighters[g].summoner
    BY <1>1, <2>2, PlacedAlive
  <2> HIDE DEF once
  <2>5. /\ DOMAIN fighters' = DOMAIN once
        /\ \A g \in DOMAIN once : /\ fighters'[g].alive = once[g].alive
                                  /\ fighters'[g].summoner = once[g].summoner
    BY <2>1, <2>3, PlacedAlive
  <2> QED BY <2>1, <2>2, <2>3, <2>4, <2>5 DEF Quiet
<1>6. ASSUME move_entity PROVE Quiet
  <2>1. /\ Runs /\ \E wk : wk.fid = actor /\ walk_on(wk)
        /\ phase' \in {phase, "drain"}
        /\ UNCHANGED <<order, initial_order, played, steady, actor>>
    <3>1. /\ Runs
          /\ \E path \in Paths(fighters[actor].cell) :
               walk_on([fid |-> actor, from |-> fighters[actor].cell, path |-> path,
                        plants |-> { p \in Living(fighters) : p # actor /\ IsPlant(fighters, p) }])
          /\ phase' \in {phase, "drain"}
          /\ UNCHANGED <<order, initial_order, played, steady, actor>>
      BY <1>6 DEF move_entity, history
    <3>2. \A path, plants_ : [fid |-> actor, from |-> fighters[actor].cell, path |-> path,
                              plants |-> plants_].fid = actor
      OBVIOUS
    <3> QED BY <3>1, <3>2, Zenon
  <2>2. phase = "act" /\ actor \in DOMAIN fighters
    BY <2>1, Acting
  <2> QED BY <1>1, <2>1, <2>2, WalkOnAlive DEF Quiet
<1>7. ASSUME resume_walk PROVE Quiet
  <2>1. /\ phase = "drain" /\ walk # NoWalk
        /\ UNCHANGED <<order, initial_order, played, steady, actor, phase>>
    BY <1>7 DEF resume_walk, loop, history
  <2>2. CASE walk.path = <<>>
    BY <1>7, <2>1, <2>2 DEF resume_walk, Quiet
  <2>3. CASE walk.path # <<>>
    <3>1. walk_on(walk)
      BY <1>7, <2>3 DEF resume_walk
    <3>2. walk.fid \in DOMAIN fighters
      BY <2>1 DEF IInv, WalkInv
    <3> QED BY <1>1, <2>1, <3>1, <3>2, WalkOnAlive DEF Quiet
  <2> QED BY <2>2, <2>3
<1>8. ASSUME next_awakening \/ finish_awakening \/ take_walk_result PROVE Quiet
  BY <1>8 DEF next_awakening, finish_awakening, take_walk_result, world, history, Quiet
<1> QED BY <1>3, <1>4, <1>5, <1>6, <1>7, <1>8

LEMMA QuietOrder ==
  ASSUME IInv, OrderInv, Quiet
  PROVE  OrderInv' /\ WholeRound
<1>1. actor # 0 => actor \in DOMAIN fighters
  BY DEF IInv, LoopInv, Quiet
<1>2. OrderInv'
  BY <1>1, QuietStep DEF Quiet
<1> QED BY <1>2 DEF WholeRound, Quiet

(* Whoever enters during a turn: alive from now on, not in the order yet,   *)
(* and without a turn this round.                                           *)
LEMMA EntryOrder ==
  ASSUME IInv, OrderInv, phase = "act", phase' \in {"act", "drain"}, current(order) = actor,
         NEW f \in Nat \ {0}, f \notin Living(fighters),
         Living(fighters') = Living(fighters) \cup {f},
         DOMAIN fighters \subseteq DOMAIN fighters',
         UNCHANGED <<initial_order, actor, played>>,
         NEW k, Inserted(order.fids, order'.fids, k, f), order' \in Orders,
         order'.turn = order.turn,
         order'.position = IF k <= order.position + 1 THEN order.position + 1
                                                      ELSE order.position,
         steady' = steady \/ (steady' = steady \cup {f} /\ ~(k <= order.position + 1)),
         \A i, j \in DOMAIN initial_order, b \in DOMAIN order.fids :
           /\ initial_order[i] = f /\ i < j /\ initial_order[j] = order.fids[b] => k <= b
           /\ initial_order[i] = f /\ j < i /\ initial_order[j] = order.fids[b] => b < k
  PROVE  OrderInv' /\ WholeRound
<1> DEFINE o == order
           q == order'
           r == [i \in DOMAIN order.fids |-> IF i < k THEN i ELSE i + 1]
<1>1. /\ o \in Orders /\ IsInjective(o.fids) /\ Range(o.fids) = Living(fighters)
      /\ o.fids \in Seq(Nat) /\ Len(o.fids) \in Nat /\ DOMAIN o.fids = 1 .. Len(o.fids)
      /\ o.position \in Int /\ Standing(fighters, o) /\ Drawn(o.fids)
  BY OrderFields DEF OrderInv, Standing
<1>2. k \in Int
  BY <1>1 DEF Inserted
<1>3. f \notin Range(o.fids)
  BY <1>1
<1>4. /\ Rearranged(o, q, DOMAIN o.fids, r, {k}, f)
      /\ q.position \in -1 .. Len(q.fids) - 1
  BY <1>1, <1>3, InsertionRearranges
<1>5. \A i \in DOMAIN o.fids : r[i] = IF i < k THEN i ELSE i + 1
  OBVIOUS
<1> HIDE DEF r
<1>6. Standing(fighters', q)
  <2>1. /\ IsInjective(q.fids)
        /\ \A g : g \in Range(q.fids) <=> \/ \E i \in DOMAIN o.fids : g = o.fids[i]
                                          \/ {k} # {} /\ g = f
    <3> DEFINE left == DOMAIN o.fids
               new == {k}
    <3>1. Rearranged(o, q, left, r, new, f) /\ IsInjective(o.fids)
      BY <1>1, <1>4
    <3> HIDE DEF left, new, o, q
    <3>2. IsInjective(q.fids) /\ Gathers(o.fids, q.fids, left, new, f)
      BY <3>1, RearrangedOrder
    <3> QED BY <3>2, Zenon DEF left, new, Gathers
  <2>2. \A g : g \in Living(fighters) <=> \E i \in DOMAIN o.fids : g = o.fids[i]
    BY <1>1 DEF Range
  <2>3. \A g : g \in Range(q.fids) <=> g \in Living(fighters) \cup {f}
    BY <2>1, <2>2
  <2>4. Range(q.fids) = Living(fighters')
    BY <2>3
  <2> QED BY <1>4, <2>1, <2>4 DEF Standing
<1>7. Drawn(q.fids)
  <2>1. DOMAIN initial_order \subseteq Int /\ IsInjective(initial_order)
    BY SeqIsFunction DEF OrderInv
  <2>2. \A m \in {k}, i, j \in DOMAIN initial_order, b \in DOMAIN o.fids :
           /\ initial_order[i] = f /\ i < j /\ initial_order[j] = o.fids[b] => m < r[b]
           /\ initial_order[i] = f /\ j < i /\ initial_order[j] = o.fids[b] => r[b] < m
    <3> SUFFICES ASSUME NEW i \in DOMAIN initial_order, NEW j \in DOMAIN initial_order,
                        NEW b \in DOMAIN o.fids, initial_order[i] = f,
                        initial_order[j] = o.fids[b]
                 PROVE  (i < j => k < r[b]) /\ (j < i => r[b] < k)
      OBVIOUS
    <3>1. (i < j => k <= b) /\ (j < i => b < k)
      OBVIOUS
    <3>2. b \in Int /\ r[b] = IF b < k THEN b ELSE b + 1
      BY <1>1, <1>5
    <3> QED BY <1>2, <3>1, <3>2
  <2> DEFINE left == DOMAIN o.fids
             new == {k}
  <2>3. Rearranged(o, q, left, r, new, f) /\ Drawn(o.fids)
    BY <1>1, <1>4
  <2>4. \A m \in new, i, j \in DOMAIN initial_order, b \in left :
           /\ initial_order[i] = f /\ i < j /\ initial_order[j] = o.fids[b] => m < r[b]
           /\ initial_order[i] = f /\ j < i /\ initial_order[j] = o.fids[b] => r[b] < m
    BY <2>2
  <2> HIDE DEF left, new, o, q
  <2> QED BY <2>1, <2>3, <2>4, RearrangedDraw
<1>8. Round(q.fids, q.position + 1, played, steady')
  <2>1. Round(o.fids, o.position + 1, played, steady)
    BY DEF OrderInv, Cut
  <2>2. \A i \in DOMAIN o.fids : o.fids[i] # f
    BY <1>3 DEF Range
  <2>3. \A i \in DOMAIN o.fids : o.fids[i] \in steady' <=> o.fids[i] \in steady
    BY <2>2
  <2>4. \A i \in DOMAIN o.fids : IF i <= o.position + 1
                                 THEN o.fids[i] \in steady' => o.fids[i] \in played
                                 ELSE o.fids[i] \notin played
    BY <2>1, <2>3 DEF Round
  <2>5. f \notin played /\ f \notin steady
    BY DEF OrderInv
  <2>6. k <= q.position + 1 => f \notin steady'
    BY <1>1, <1>2, <2>5
  <2> DEFINE all == steady'
  <2>7. /\ \A i \in DOMAIN o.fids : IF i <= o.position + 1
                                    THEN o.fids[i] \in all => o.fids[i] \in played
                                    ELSE o.fids[i] \notin played
        /\ {k} # {} => f \notin played
        /\ \A m \in {k} : m <= q.position + 1 => f \notin all
    BY <2>4, <2>5, <2>6
  <2> HIDE DEF all
  <2>8. Round(q.fids, q.position + 1, played, all)
    BY <1>4, <2>7, RearrangedRound
  <2> QED BY <2>8 DEF all
<1>9. current(q) = actor
  <2>1. actor # 0 /\ fighters \in Seq(Fighter)
    BY FightersAre DEF IInv, LoopInv
  <2>2. o.position + 1 \in DOMAIN o.fids /\ o.position \in 0 .. Len(o.fids) - 1
    BY <1>1, <2>1, AtTheCursor
  <2>3. q.fids \in Seq(Nat)
    BY DEF Orders
  <2> QED BY <1>4, <2>2, <2>3, RearrangedCursor
<1>10. initial_order \in Seq(DOMAIN fighters') /\ IsInjective(initial_order)
  <2>1. initial_order \in Seq(DOMAIN fighters) /\ IsInjective(initial_order)
    BY DEF OrderInv
  <2>2. \A i \in 1 .. Len(initial_order) : initial_order[i] \in DOMAIN fighters'
    BY <2>1, ElementOfSeq
  <2>3. initial_order \in [1 .. Len(initial_order) -> DOMAIN fighters']
    BY <2>1, <2>2, SeqIsFunction
  <2> QED BY <2>1, <2>3, FunctionIsSeq, SeqIsFunction
<1>11. OrderInv'
  <2>1. Standing(fighters, order)' /\ Drawn(order.fids)'
    BY <1>6, <1>7 DEF Standing, Drawn
  <2>2. Round(order.fids, Cut, played, steady)'
    BY <1>8 DEF Cut
  <2>3. played' \subseteq Living(fighters') /\ steady' \subseteq Living(fighters')
    BY DEF OrderInv
  <2>4. current(order)' = actor
    BY <1>9
  <2>5. actor' = actor /\ phase' # "begin" /\ phase' # "over"
    OBVIOUS
  <2> QED BY <1>10, <2>1, <2>2, <2>3, <2>4, <2>5 DEF OrderInv
<1> QED BY <1>11 DEF WholeRound

(* An AI acts in its own turn: the cursor is on its fighter.                *)
LEMMA ActsAtTheCursor ==
  ASSUME IInv, Acts
  PROVE  /\ phase = "act" /\ actor \in DOMAIN fighters /\ actor # 0
         /\ current(order) = actor
<1>1. phase = "act" /\ actor \in DOMAIN fighters /\ awakening_plant = 0
  BY Acting DEF Acts
<1>2. actor # 0
  BY <1>1, FightersAre
<1> QED BY <1>1, <1>2 DEF Acts, can_act

LEMMA IndexIs ==
  ASSUME NEW o, IsInjective(o.fids), NEW i \in DOMAIN o.fids
  PROVE  IndexOf(o, o.fids[i]) = i
BY DEF IndexOf, IsInjective

LEMMA SummonOrder ==
  ASSUME IInv, OrderInv, NEW s \in Summons, NEW cell \in Cells, summon_entity(s[1], cell, s[2])
  PROVE  OrderInv' /\ WholeRound
<1> DEFINE f == Len(fighters) + 1
           k == order.position + 2
           r == [Leek(fighters[actor].team, cell) EXCEPT
                   !.kind = s[1], !.summoner = actor, !.ai = s[2]]
<1>1. /\ Acts /\ fighters' = Append(fighters, r)
      /\ order' = add_summon(order, actor, f) /\ steady' = steady \cup {f}
      /\ phase' \in {phase, "drain"}
      /\ UNCHANGED <<initial_order, actor, played>>
  BY DEF summon_entity, Calls
<1>2. /\ phase = "act" /\ actor \in DOMAIN fighters /\ actor # 0 /\ current(order) = actor
      /\ fighters \in Seq(Fighter) /\ DOMAIN fighters = 1 .. Len(fighters)
      /\ Len(fighters) \in Nat
  BY <1>1, ActsAtTheCursor, FightersAre, SeqIsFunction
<1>3. r.alive = TRUE
  BY DEF Leek
<1> HIDE DEF r
<1>4. /\ Living(fighters') = Living(fighters) \cup {f} /\ f \notin Living(fighters)
      /\ DOMAIN fighters \subseteq DOMAIN fighters'
  <2>1. /\ Len(fighters') = f /\ fighters'[f] = r
        /\ \A g \in DOMAIN fighters : fighters'[g] = fighters[g]
    BY <1>1, <1>2
  <2>2. DOMAIN fighters' = 1 .. f /\ DOMAIN fighters' = DOMAIN fighters \cup {f}
    BY <1>1, <1>2
  <2>3. f \notin DOMAIN fighters
    BY <1>2
  <2> HIDE DEF f
  <2>4. \A g : g \in Living(fighters') <=> g \in Living(fighters) \cup {f}
    BY <1>3, <2>1, <2>2, <2>3 DEF Living
  <2> QED BY <2>2, <2>3, <2>4 DEF Living
<1>5. /\ order \in Orders /\ order.fids \in Seq(Nat) /\ order.position \in Int
      /\ Len(order.fids) \in Nat /\ Standing(fighters, order) /\ IsInjective(order.fids)
  BY OrderFields DEF OrderInv, Standing
<1>6. /\ order.position + 1 \in DOMAIN order.fids /\ order.fids[order.position + 1] = actor
      /\ order.position \in 0 .. Len(order.fids) - 1
  BY <1>2, <1>5, AtTheCursor
<1>7. IndexOf(order, actor) + 1 = k
  <2>1. IndexOf(order, actor) = order.position + 1
    BY <1>5, <1>6, IndexIs
  <2> QED BY <1>5, <2>1
<1>8. k \in 1 .. Len(order.fids) + 1 /\ k \in Int /\ ~(k <= order.position + 1)
  BY <1>5, <1>6
<1>9. f \in Nat \ {0}
  BY <1>2
<1> HIDE DEF k
<1>10. /\ order'.fids = InsertAt(order.fids, k, f) /\ order'.position = order.position
       /\ order'.turn = order.turn /\ order' \in Orders
       /\ Inserted(order.fids, order'.fids, k, f)
  <2> DEFINE t == InsertAt(order.fids, k, f)
  <2>1. Inserted(order.fids, t, k, f) /\ t \in Seq(Nat)
    <3>1. Inserted(order.fids, t, k, f)
      BY <1>5, <1>8, <1>9, InsertAtInserts
    <3> QED BY <3>1 DEF Inserted
  <2>2. order' = [order EXCEPT !.fids = t]
    BY <1>1, <1>7, Zenon DEF add_summon
  <2> HIDE DEF t
  <2>3. order'.fids = t /\ order'.position = order.position /\ order'.turn = order.turn
    BY <1>5, <2>2 DEF Orders
  <2>4. order' \in Orders
    BY <1>5, <2>1, <2>2 DEF Orders
  <2> QED BY <2>1, <2>3, <2>4 DEF t
<1>11. \A i \in DOMAIN initial_order : initial_order[i] # f
  <2>1. \A i \in DOMAIN initial_order : initial_order[i] \in DOMAIN fighters
    BY SeqIsFunction, ElementOfSeq DEF OrderInv
  <2> QED BY <1>2, <2>1
<1> HIDE DEF f
<1>12. phase' \in {"act", "drain"}
  BY <1>1, <1>2
<1> QED BY <1>1, <1>2, <1>4, <1>8, <1>9, <1>10, <1>11, <1>12, EntryOrder

(* Where a revived fighter joins the order.                                 *)
LEMMA RevivedPlace ==
  ASSUME IInv, OrderInv, NEW f \in DOMAIN fighters, ~fighters[f].alive
  PROVE  \E k : /\ Inserted(order.fids, Revived(order, f).fids, k, f)
                /\ Revived(order, f) \in Orders /\ Revived(order, f).turn = order.turn
                /\ Revived(order, f).position = IF k <= order.position + 1
                                                THEN order.position + 1 ELSE order.position
                /\ \A i, j \in DOMAIN initial_order, b \in DOMAIN order.fids :
                     /\ initial_order[i] = f /\ i < j /\ initial_order[j] = order.fids[b] => k <= b
                     /\ initial_order[i] = f /\ j < i /\ initial_order[j] = order.fids[b] => b < k
<1> DEFINE drawn == { i \in DOMAIN initial_order : initial_order[i] = f }
           after == { j \in DOMAIN initial_order :
                        fighters[initial_order[j]].alive /\ \E i \in drawn : i < j }
           first == CHOOSE j \in after : \A m \in after : j <= m
           q == Revived(order, f)
<1>1. /\ order \in Orders /\ order.fids \in Seq(Nat) /\ order.position \in Int
      /\ Len(order.fids) \in Nat /\ DOMAIN order.fids = 1 .. Len(order.fids)
      /\ order.position \in -1 .. Len(order.fids) - 1
      /\ IsInjective(order.fids) /\ Range(order.fids) = Living(fighters)
  BY OrderFields DEF OrderInv, Standing
<1>2. f \in Nat
  BY FightersAre
<1>3. /\ DOMAIN initial_order \subseteq Nat /\ IsInjective(initial_order)
      /\ \A i \in DOMAIN initial_order : initial_order[i] \in DOMAIN fighters
  BY SeqIsFunction, ElementOfSeq DEF OrderInv
<1>4. \A b \in DOMAIN order.fids : order.fids[b] \in DOMAIN fighters /\ fighters[order.fids[b]].alive
  <2>1. \A b \in DOMAIN order.fids : order.fids[b] \in Living(fighters)
    BY <1>1 DEF Range
  <2> QED BY <2>1 DEF Living
<1>5. CASE after = {}
  <2> DEFINE t == Append(order.fids, f)
             k == Len(order.fids) + 1
  <2>1. q = [order EXCEPT !.fids = t]
    BY <1>5, Zenon DEF Revived
  <2>2. Inserted(order.fids, t, k, f) /\ t \in Seq(Nat)
    BY <1>1, <1>2, AppendInserts DEF Inserted
  <2> HIDE DEF q, t
  <2>3. q.fids = t /\ q.position = order.position /\ q.turn = order.turn /\ q \in Orders
    <3>1. q.fids = t /\ q.position = order.position /\ q.turn = order.turn
      BY <1>1, <2>1 DEF Orders
    <3>2. q \in Orders
      BY <1>1, <2>1, <2>2 DEF Orders
    <3> QED BY <3>1, <3>2
  <2>4. ~(k <= order.position + 1) /\ \A b \in DOMAIN order.fids : b < k
    BY <1>1
  <2>5. \A i, j \in DOMAIN initial_order, b \in DOMAIN order.fids :
          ~(initial_order[i] = f /\ i < j /\ initial_order[j] = order.fids[b])
    BY <1>4, <1>5
  <2> HIDE DEF k
  <2>6. /\ Inserted(order.fids, q.fids, k, f) /\ q \in Orders /\ q.turn = order.turn
        /\ q.position = IF k <= order.position + 1 THEN order.position + 1 ELSE order.position
        /\ \A i, j \in DOMAIN initial_order, b \in DOMAIN order.fids :
             /\ initial_order[i] = f /\ i < j /\ initial_order[j] = order.fids[b] => k <= b
             /\ initial_order[i] = f /\ j < i /\ initial_order[j] = order.fids[b] => b < k
    BY <2>2, <2>3, <2>4, <2>5
  <2> QED BY <2>6 DEF q
<1>6. CASE after # {}
  <2> DEFINE k == IndexOf(order, initial_order[first])
             t == InsertAt(order.fids, k, f)
             n == IF k - 1 <= order.position THEN order.position + 1 ELSE order.position
  <2>1. first \in after /\ \A m \in after : first <= m
    <3>1. after \in SUBSET Nat
      BY <1>3
    <3> HIDE DEF after
    <3>2. \E j \in after : \A m \in after : j <= m
      BY <1>6, <3>1, HasFirst
    <3> QED BY <3>2, Zenon
  <2>2. q = [order EXCEPT !.fids = t, !.position = n]
    BY <1>6, Zenon DEF Revived, insert_entity
  <2> HIDE DEF first, q
  <2>3. /\ first \in DOMAIN initial_order /\ fighters[initial_order[first]].alive
        /\ initial_order[first] \in DOMAIN fighters
    BY <1>3, <2>1
  <2>4. \E a \in DOMAIN order.fids : order.fids[a] = initial_order[first]
    <3>1. initial_order[first] \in Range(order.fids)
      BY <1>1, <2>3 DEF Living
    <3> QED BY <3>1 DEF Range
  <2>5. PICK a \in DOMAIN order.fids : order.fids[a] = initial_order[first]
    BY <2>4
  <2>6. k = a
    BY <1>1, <2>5, IndexIs
  <2>7. k \in DOMAIN order.fids /\ order.fids[k] = initial_order[first] /\ k \in 1 .. Len(order.fids) + 1
    BY <1>1, <2>5, <2>6
  <2> HIDE DEF k
  <2>8. Inserted(order.fids, t, k, f) /\ t \in Seq(Nat)
    <3>1. Inserted(order.fids, t, k, f)
      BY <1>1, <1>2, <2>7, InsertAtInserts
    <3> QED BY <3>1 DEF Inserted
  <2>9. n \in Int /\ n = IF k <= order.position + 1 THEN order.position + 1 ELSE order.position
    BY <1>1, <2>7
  <2> HIDE DEF t, n
  <2>10. q.fids = t /\ q.position = n /\ q.turn = order.turn /\ q \in Orders
    <3>1. q.fids = t /\ q.position = n /\ q.turn = order.turn
      BY <1>1, <2>2 DEF Orders
    <3>2. q \in Orders
      BY <1>1, <2>2, <2>8, <2>9 DEF Orders
    <3> QED BY <3>1, <3>2
  <2>11. ASSUME NEW i \in DOMAIN initial_order, NEW j \in DOMAIN initial_order,
                NEW b \in DOMAIN order.fids, initial_order[i] = f,
                initial_order[j] = order.fids[b]
         PROVE  (i < j => k <= b) /\ (j < i => b < k)
    <3>1. i < first
      BY <1>3, <2>1, <2>11 DEF IsInjective
    <3>2. ASSUME i < j PROVE k <= b
      <4>1. j \in after
        BY <1>4, <2>11, <3>2
      <4>2. first <= j
        BY <2>1, <4>1
      <4>3. CASE first = j
        <5>1. b = k
          BY <1>1, <2>7, <2>11, <4>3 DEF IsInjective
        <5> QED BY <1>1, <5>1
      <4>4. CASE first # j
        <5>1. first < j
          BY <1>3, <2>3, <4>2, <4>4
        <5>2. k < b
          BY <2>3, <2>7, <2>11, <5>1 DEF OrderInv, Drawn
        <5> QED BY <1>1, <2>7, <5>2
      <4> QED BY <4>3, <4>4
    <3>3. ASSUME j < i PROVE b < k
      <4>1. j < first
        BY <1>3, <2>3, <3>1, <3>3
      <4> QED BY <2>3, <2>7, <2>11, <4>1 DEF OrderInv, Drawn
    <3> QED BY <3>2, <3>3
  <2>12. /\ Inserted(order.fids, q.fids, k, f) /\ q \in Orders /\ q.turn = order.turn
         /\ q.position = IF k <= order.position + 1 THEN order.position + 1 ELSE order.position
         /\ \A i, j \in DOMAIN initial_order, b \in DOMAIN order.fids :
              /\ initial_order[i] = f /\ i < j /\ initial_order[j] = order.fids[b] => k <= b
              /\ initial_order[i] = f /\ j < i /\ initial_order[j] = order.fids[b] => b < k
    BY <2>8, <2>9, <2>10, <2>11
  <2> QED BY <2>12 DEF q
<1> QED BY <1>5, <1>6

LEMMA ResurrectOrder ==
  ASSUME IInv, OrderInv, NEW f \in DOMAIN fighters, NEW cell \in Cells, resurrect_entity(f, cell)
  PROVE  OrderInv' /\ WholeRound
<1> DEFINE gs == [place_entity(fighters, f, cell) EXCEPT ![f].alive = TRUE]
           q == Revived(order, f)
<1>1. /\ Acts /\ ~fighters[f].alive /\ fighters' = gs /\ order' = q
      /\ phase' \in {phase, "drain"}
      /\ UNCHANGED <<initial_order, actor, played, steady>>
  BY DEF resurrect_entity, Calls, history
<1>2. /\ phase = "act" /\ actor # 0 /\ current(order) = actor
      /\ fighters \in Seq(Fighter) /\ f \in Nat \ {0}
  BY <1>1, ActsAtTheCursor, FightersAre
<1>3. /\ DOMAIN gs = DOMAIN fighters
      /\ \A g \in DOMAIN fighters : g # f => gs[g] = fighters[g]
  BY <1>2, RevivedFighter
<1>4. gs[f].alive = TRUE
  <2> DEFINE hs == place_entity(fighters, f, cell)
  <2>1. hs \in Seq(Fighter) /\ DOMAIN hs = DOMAIN fighters
    BY <1>2, PlaceEntity
  <2> HIDE DEF hs
  <2>2. hs[f] \in Fighter
    BY <2>1, SeqIsFunction
  <2>3. [hs EXCEPT ![f].alive = TRUE][f].alive = TRUE
    BY <2>1, <2>2 DEF Fighter
  <2> QED BY <2>3 DEF hs
<1> HIDE DEF gs
<1>5. /\ Living(fighters') = Living(fighters) \cup {f} /\ f \notin Living(fighters)
      /\ DOMAIN fighters \subseteq DOMAIN fighters'
  BY <1>1, <1>3, <1>4 DEF Living
<1>6. PICK k : /\ Inserted(order.fids, q.fids, k, f) /\ q \in Orders /\ q.turn = order.turn
               /\ q.position = IF k <= order.position + 1
                               THEN order.position + 1 ELSE order.position
               /\ \A i, j \in DOMAIN initial_order, b \in DOMAIN order.fids :
                    /\ initial_order[i] = f /\ i < j /\ initial_order[j] = order.fids[b] => k <= b
                    /\ initial_order[i] = f /\ j < i /\ initial_order[j] = order.fids[b] => b < k
  BY <1>1, RevivedPlace
<1> HIDE DEF q
<1>7. phase' \in {"act", "drain"}
  BY <1>1, <1>2
<1> QED BY <1>1, <1>2, <1>5, <1>6, <1>7, EntryOrder
-----------------------------------------------------------------------------
LEMMA StepOrder == IInv /\ OrderInv /\ [Next]_vars => OrderInv' /\ (Next => WholeRound)
<1> SUFFICES ASSUME IInv, OrderInv, [Next]_vars PROVE OrderInv' /\ (Next => WholeRound)
  OBVIOUS
<1>1. ASSUME NEW f \in DOMAIN fighters, begin_act(f) \/ begin_upkeep(f) \/ begin_skip(f)
      PROVE  OrderInv' /\ WholeRound
  BY <1>1, BeginActOrder, UpkeepOrder, SkipOrder
<1>2. ASSUME end_entity_turn PROVE OrderInv' /\ WholeRound
  BY <1>2, EndEntityTurnOrder
<1>3. ASSUME NEW f \in DOMAIN fighters, attack(f) \/ plant_attacks(f)
      PROVE  OrderInv' /\ WholeRound
  BY <1>3, AttackOrder
<1>4. ASSUME \/ \E f \in DOMAIN fighters : slide_entity(f) \/ invert_entities(f)
             \/ teleport_entity \/ move_entity \/ resume_walk
             \/ next_awakening \/ finish_awakening \/ take_walk_result
      PROVE  OrderInv' /\ WholeRound
  BY <1>4, QuietSteps, QuietOrder
<1>5. ASSUME NEW f \in DOMAIN fighters, NEW cell \in Cells, resurrect_entity(f, cell)
      PROVE  OrderInv' /\ WholeRound
  BY <1>5, ResurrectOrder
<1>6. ASSUME NEW s \in Summons, NEW cell \in Cells, summon_entity(s[1], cell, s[2])
      PROVE  OrderInv' /\ WholeRound
  BY <1>6, SummonOrder
<1>7. ASSUME Over \/ UNCHANGED vars PROVE OrderInv' /\ WholeRound
  <2>1. UNCHANGED <<fighters, order, initial_order, phase, actor, played, steady>>
    BY <1>7 DEF Over, vars, world, loop, history
  <2>2. current(order)' = current(order) /\ Cut' = Cut
    BY <2>1 DEF current, Cut
  <2> QED BY <2>1, <2>2 DEF OrderInv, Standing, Drawn, Round, WholeRound
<1> QED BY <1>1, <1>2, <1>3, <1>4, <1>5, <1>6, <1>7 DEF Next

(* In every state of a fight, whoever acts, dies, returns or is summoned:   *)
(* the invariant the theorems below follow from.                            *)
THEOREM OrderInvariance == Spec => []OrderInv
<1>1. IInv /\ OrderInv /\ [Next]_vars => OrderInv'
  BY StepOrder
<1> QED BY <1>1, InitOrder, Invariance, PTL DEF Spec

(* remove_entities, add_summon, insert_entity and Append keep the order the *)
(* living, each once, and the leeks in it as they were drawn.               *)
THEOREM TheOrderIsTheLiving == Spec => []OrderIsTheLiving
<1>1. OrderInv => OrderIsTheLiving
  <2> SUFFICES ASSUME OrderInv PROVE OrderIsTheLiving
    OBVIOUS
  <2>1. IsInjective(order.fids) /\ Range(order.fids) = Living(fighters)
    BY DEF OrderInv, Standing
  <2>2. ASSUME NEW i \in DOMAIN initial_order, NEW j \in DOMAIN initial_order, i < j,
               {initial_order[i], initial_order[j]} \subseteq Range(order.fids)
        PROVE  IndexOf(order, initial_order[i]) < IndexOf(order, initial_order[j])
    <3>1. PICK a \in DOMAIN order.fids : order.fids[a] = initial_order[i]
      BY <2>2 DEF Range
    <3>2. PICK b \in DOMAIN order.fids : order.fids[b] = initial_order[j]
      BY <2>2 DEF Range
    <3>3. a < b
      BY <2>2, <3>1, <3>2 DEF OrderInv, Drawn
    <3>4. IndexOf(order, initial_order[i]) = a /\ IndexOf(order, initial_order[j]) = b
      BY <2>1, <3>1, <3>2, IndexIs
    <3> QED BY <3>3, <3>4
  <2> QED BY <2>1, <2>2 DEF OrderIsTheLiving
<1> QED BY <1>1, OrderInvariance, PTL

(* Every removal and insertion shifts position with the fighter it is on:   *)
(* the one whose AI runs stays the current one while it lives.              *)
THEOREM TheCursorFollows == Spec => []CursorFollowsTheActor
<1>1. OrderInv => CursorFollowsTheActor
  BY DEF OrderInv, CursorFollowsTheActor
<1> QED BY <1>1, OrderInvariance, PTL

(* Between two turns, the one to play next has not played this round.       *)
THEOREM NobodyTwice == Spec => []NobodyPlaysTwice
<1>1. IInv /\ OrderInv => NobodyPlaysTwice
  <2> SUFFICES ASSUME IInv, OrderInv, phase = "begin" PROVE current(order) \notin played
    BY DEF NobodyPlaysTwice
  <2>1. fighters \in Seq(Fighter) /\ DOMAIN fighters \subseteq Nat \ {0}
    BY FightersAre
  <2>2. CASE current(order) = 0
    BY <2>1, <2>2 DEF OrderInv, Living
  <2>3. CASE current(order) # 0
    <3>1. /\ order.position + 1 \in DOMAIN order.fids
          /\ order.fids[order.position + 1] = current(order)
      BY <2>1, <2>3, AtTheCursor DEF OrderInv
    <3>2. ~(order.position + 1 <= order.position)
      BY OrderFields DEF OrderInv, Standing
    <3>3. Round(order.fids, order.position, played, steady)
      BY DEF OrderInv, Cut
    <3> QED BY <3>1, <3>2, <3>3 DEF Round
  <2> QED BY <2>2, <2>3
<1> QED BY <1>1, Invariance, OrderInvariance, PTL

(* A round ends, whether by the last turn of the order or by a death that   *)
(* empties what is left of it, only with everyone in it served.             *)
THEOREM NobodySkipped == Spec => NobodyIsSkipped
<1>1. IInv /\ OrderInv /\ [Next]_vars =>
        [order'.turn # order.turn =>
           (steady \ played) \cap Living(fighters')
             \subseteq (IF phase = "begin" THEN {current(order)} ELSE {})]_vars
  BY StepOrder DEF WholeRound
<1> QED BY <1>1, Invariance, OrderInvariance, PTL DEF Spec, NobodyIsSkipped
-----------------------------------------------------------------------------
(***************************************************************************)
(* The awakenings.  A plant remembers whom it has woken for until that one *)
(* begins a turn; the queue holds what it still owes, the history what it  *)
(* has played.                                                             *)
(***************************************************************************)
(* Of the fighters in dom: w.by remembers every awakening that is queued or *)
(* past, and none is queued twice or played already.                        *)
Awake(w, dom, past) ==
  /\ w.by \in [dom -> SUBSET dom] /\ \A p \in dom : p \notin w.by[p]
  /\ w.queue \in Seq(dom \X dom) /\ IsInjective(w.queue)
  /\ past \subseteq dom \X dom
  /\ \A x \in Range(w.queue) \cup past : x[2] \in w.by[x[1]]
  /\ Range(w.queue) \cap past = {}

(* Plants that meet their triggers are queued once, and not those that woke *)
(* for them before.                                                         *)
LEMMA AwakePlant ==
  ASSUME NEW w, NEW dom, NEW past, Awake(w, dom, past),
         NEW pairs \in Seq(dom \X dom), \A i \in DOMAIN pairs : pairs[i][1] # pairs[i][2]
  PROVE  Awake(awake_plant(w, pairs), dom, past)
<1> DEFINE v == awake_plant(w, pairs)
           First(i) == /\ pairs[i][2] \notin w.by[pairs[i][1]]
                       /\ \A j \in 1 .. i - 1 : pairs[j] # pairs[i]
           new == { i \in DOMAIN pairs : First(i) }
           met(plant) == { pairs[i][2] : i \in { j \in DOMAIN pairs : pairs[j][1] = plant } }
           add == Picked(pairs, new)
<1>1. /\ w.by \in [dom -> SUBSET dom] /\ w.queue \in Seq(dom \X dom)
      /\ Len(w.queue) \in Nat /\ DOMAIN w.queue = 1 .. Len(w.queue)
      /\ DOMAIN pairs = 1 .. Len(pairs) /\ Len(pairs) \in Nat
      /\ \A i \in DOMAIN pairs : pairs[i] \in dom \X dom
  BY SeqIsFunction, ElementOfSeq DEF Awake
<1>2. /\ v.by = [plant \in dom |-> w.by[plant] \cup met(plant)]
      /\ v.queue = w.queue \o add
  <2>1. DOMAIN w.by = dom
    BY <1>1
  <2>2. v = [by |-> [plant \in DOMAIN w.by |-> w.by[plant] \cup met(plant)],
             queue |-> w.queue \o add]
    BY Zenon DEF awake_plant
  <2> HIDE DEF v, met, add
  <2> QED BY <2>1, <2>2
<1>3. \A p \in dom : met(p) \subseteq dom /\ p \notin met(p)
  BY <1>1
<1>4. \A i \in DOMAIN pairs : pairs[i][2] \in met(pairs[i][1])
  OBVIOUS
<1>5. new \in SUBSET DOMAIN pairs /\ \A i \in new : First(i)
  OBVIOUS
<1> HIDE DEF v, met, new
<1>6. /\ add \in Seq(dom \X dom) /\ DOMAIN add = 1 .. Len(add) /\ Len(add) \in Nat
      /\ \A n \in DOMAIN add : \E i \in new : Upto(new, i) = n /\ add[n] = pairs[i]
  BY <1>5, PickedElements
<1> HIDE DEF add
<1>7. \A n \in DOMAIN add :
        /\ add[n] \in dom \X dom /\ add[n][2] \in met(add[n][1])
        /\ add[n][2] \notin w.by[add[n][1]]
  BY <1>1, <1>4, <1>5, <1>6
<1>8. IsInjective(add)
  <2> SUFFICES ASSUME NEW n \in DOMAIN add, NEW m \in DOMAIN add, add[n] = add[m]
               PROVE  n = m
    BY DEF IsInjective
  <2>1. PICK i \in new : Upto(new, i) = n /\ add[n] = pairs[i]
    BY <1>6
  <2>2. PICK j \in new : Upto(new, j) = m /\ add[m] = pairs[j]
    BY <1>6
  <2>3. i \in 1 .. Len(pairs) /\ j \in 1 .. Len(pairs) /\ pairs[i] = pairs[j]
    BY <1>1, <1>5, <2>1, <2>2
  <2>4. ~(i < j) /\ ~(j < i)
    BY <1>1, <1>5, <2>3
  <2>5. i = j
    BY <1>1, <2>3, <2>4
  <2> QED BY <2>1, <2>2, <2>5
<1>9. v.by \in [dom -> SUBSET dom] /\ \A p \in dom : p \notin v.by[p]
  BY <1>1, <1>2, <1>3 DEF Awake
<1>10. \A n \in DOMAIN add : add[n] \notin Range(w.queue) \cup past
  BY <1>7 DEF Awake
<1>11. /\ v.queue \in Seq(dom \X dom) /\ Len(v.queue) = Len(w.queue) + Len(add)
       /\ DOMAIN v.queue = 1 .. Len(w.queue) + Len(add)
       /\ \A i \in 1 .. Len(w.queue) + Len(add) :
            v.queue[i] = IF i <= Len(w.queue) THEN w.queue[i] ELSE add[i - Len(w.queue)]
  <2> DEFINE q == w.queue
  <2>1. q \in Seq(dom \X dom) /\ add \in Seq(dom \X dom)
    BY <1>1, <1>6
  <2>2. v.queue = q \o add
    BY <1>2
  <2> HIDE DEF q
  <2>3. /\ q \o add \in Seq(dom \X dom) /\ Len(q \o add) = Len(q) + Len(add)
        /\ \A i \in 1 .. Len(q) + Len(add) :
             (q \o add)[i] = IF i <= Len(q) THEN q[i] ELSE add[i - Len(q)]
    BY <2>1, ConcatProperties
  <2>4. DOMAIN (q \o add) = 1 .. Len(q) + Len(add)
    BY <2>3, SeqIsFunction
  <2> QED BY <2>2, <2>3, <2>4 DEF q
<1>12. \A i \in DOMAIN v.queue :
         IF i \in DOMAIN w.queue
         THEN v.queue[i] = w.queue[i]
         ELSE i - Len(w.queue) \in DOMAIN add /\ v.queue[i] = add[i - Len(w.queue)]
  <2> DEFINE k == Len(w.queue)
             n == Len(add)
             q == v.queue
  <2>1. k \in Nat /\ n \in Nat /\ DOMAIN w.queue = 1 .. k /\ DOMAIN add = 1 .. n
    BY <1>1, <1>6
  <2>2. DOMAIN q = 1 .. k + n
        /\ \A i \in 1 .. k + n : q[i] = IF i <= k THEN w.queue[i] ELSE add[i - k]
    BY <1>11
  <2> HIDE DEF k, n, q
  <2>3. ASSUME NEW i \in 1 .. k + n
        PROVE  IF i \in 1 .. k THEN q[i] = w.queue[i]
                               ELSE i - k \in 1 .. n /\ q[i] = add[i - k]
    <3>1. CASE i <= k
      BY <2>1, <2>2, <3>1
    <3>2. CASE ~(i <= k)
      BY <2>1, <2>2, <3>2
    <3> QED BY <3>1, <3>2
  <2> QED BY <2>1, <2>2, <2>3 DEF k, n, q
<1>13. IsInjective(v.queue)
  <2> SUFFICES ASSUME NEW i \in DOMAIN v.queue, NEW j \in DOMAIN v.queue,
                      v.queue[i] = v.queue[j]
               PROVE  i = j
    BY DEF IsInjective
  <2>1. i \in Int /\ j \in Int
    BY <1>1, <1>6, <1>11
  <2>2. CASE i \in DOMAIN w.queue /\ j \in DOMAIN w.queue
    <3>1. w.queue[i] = w.queue[j]
      BY <1>12, <2>2
    <3> QED BY <2>2, <3>1 DEF Awake, IsInjective
  <2> DEFINE told == Range(w.queue)
  <2>3. /\ \A m \in DOMAIN w.queue : w.queue[m] \in told
        /\ \A n \in DOMAIN add : add[n] \notin told
    BY <1>10 DEF Range
  <2> HIDE DEF told
  <2>4. CASE i \in DOMAIN w.queue /\ j \notin DOMAIN w.queue
    BY <1>12, <2>4, <2>3
  <2>5. CASE i \notin DOMAIN w.queue /\ j \in DOMAIN w.queue
    BY <1>12, <2>5, <2>3
  <2>6. CASE i \notin DOMAIN w.queue /\ j \notin DOMAIN w.queue
    <3>1. i - Len(w.queue) = j - Len(w.queue)
      BY <1>8, <1>12, <2>6 DEF IsInjective
    <3> QED BY <1>1, <2>1, <3>1
  <2> QED BY <2>2, <2>4, <2>5, <2>6
<1>14. \A x \in Range(v.queue) : \/ x \in Range(w.queue)
                                 \/ \E n \in DOMAIN add : x = add[n]
  BY <1>12 DEF Range
<1>15. \A p \in dom : w.by[p] \subseteq v.by[p] /\ met(p) \subseteq v.by[p]
  BY <1>2
<1>16. \A x \in Range(v.queue) \cup past : x[2] \in v.by[x[1]]
  <2> SUFFICES ASSUME NEW x \in Range(v.queue) \cup past PROVE x[2] \in v.by[x[1]]
    OBVIOUS
  <2>1. CASE x \in Range(w.queue) \cup past
    <3>1. x \in dom \X dom
      BY <1>1, <2>1, ElementOfSeq DEF Awake, Range
    <3>2. x[2] \in w.by[x[1]] /\ x[1] \in dom
      BY <2>1, <3>1 DEF Awake
    <3> QED BY <1>15, <3>2
  <2>2. CASE \E n \in DOMAIN add : x = add[n]
    <3>1. x \in dom \X dom /\ x[2] \in met(x[1])
      BY <1>7, <2>2
    <3> QED BY <1>15, <3>1
  <2> QED BY <1>14, <2>1, <2>2
<1>17. Range(v.queue) \cap past = {}
  BY <1>10, <1>14 DEF Awake
<1> QED BY <1>9, <1>11, <1>13, <1>16, <1>17 DEF Awake, v

LEMMA TeamOrderOfFighters ==
  ASSUME NEW fs \in Seq(Fighter)
  PROVE  TeamOrder(fs) \in Seq(DOMAIN fs)
<1> DEFINE joined == [f \in DOMAIN fs |-> f]
           Team(t) == Picked(joined, { f \in DOMAIN fs : fs[f].team = t })
<1>1. TeamOrder(fs) = Team(1) \o Team(2)
  BY Zenon DEF TeamOrder
<1>2. joined \in Seq(DOMAIN fs) /\ DOMAIN joined = DOMAIN fs
  <2>1. Len(fs) \in Nat /\ DOMAIN fs = 1 .. Len(fs)
    BY SeqIsFunction
  <2>2. joined \in [1 .. Len(fs) -> DOMAIN fs]
    BY <2>1
  <2> HIDE DEF joined
  <2> QED BY <2>1, <2>2, FunctionIsSeq
<1> HIDE DEF joined
<1>3. \A t : Team(t) \in Seq(DOMAIN fs)
  <2> SUFFICES ASSUME NEW t PROVE Team(t) \in Seq(DOMAIN fs)
    OBVIOUS
  <2> DEFINE left == { f \in DOMAIN fs : fs[f].team = t }
  <2>1. left \in SUBSET DOMAIN joined
    BY <1>2
  <2> HIDE DEF left
  <2>2. Picked(joined, left) \in Seq(DOMAIN fs)
    BY <1>2, <2>1, PickedElements
  <2> QED BY <2>2 DEF left
<1> HIDE DEF Team
<1>4. Team(1) \in Seq(DOMAIN fs) /\ Team(2) \in Seq(DOMAIN fs)
  BY <1>3, Zenon
<1>5. Team(1) \o Team(2) \in Seq(DOMAIN fs)
  BY <1>4, ConcatProperties, Zenon
<1> QED BY <1>1, <1>5

(* Whom a fighter meets along a line.                                       *)
LEMMA AlongALine ==
  ASSUME NEW w, NEW fs \in Seq(Fighter), NEW past, Awake(w, DOMAIN fs, past),
         NEW f \in DOMAIN fs, NEW start, NEW line, Len(line) \in Nat
  PROVE  Awake(check_plant_triggers_along(w, fs, f, start, line), DOMAIN fs, past)
<1> DEFINE met == TeamOrder(fs)
           plant(k) == met[((k - 1) % Len(met)) + 1]
           cell(k) == ((k - 1) \div Len(met)) + 1
           from(i) == IF i = 1 THEN start ELSE line[i - 1]
           Enters(p, i) == /\ p # f /\ IsPlant(fs, p) /\ fs[p].alive
                           /\ InZone(fs, p, line[i]) /\ ~InZone(fs, p, from(i))
           meetings == [k \in 1 .. Len(line) * Len(met) |-> <<plant(k), f>>]
           entries == { k \in DOMAIN meetings : Enters(plant(k), cell(k)) }
           along == check_plant_triggers_along(w, fs, f, start, line)
<1>1. along = w \/ along = awake_plant(w, Picked(meetings, entries))
  BY Zenon DEF check_plant_triggers_along
<1>2. \A k \in entries : k \in DOMAIN meetings /\ plant(k) # f
  BY Zenon
<1>3. met \in Seq(DOMAIN fs) /\ Len(met) \in Nat
  BY TeamOrderOfFighters, SeqIsFunction
<1> HIDE DEF met, entries, along
<1>4. Len(line) * Len(met) \in Nat
  BY <1>3
<1>5. \A k \in 1 .. Len(line) * Len(met) : plant(k) \in DOMAIN fs
  <2> SUFFICES ASSUME NEW k \in 1 .. Len(line) * Len(met) PROVE plant(k) \in DOMAIN fs
    OBVIOUS
  <2> DEFINE m == Len(met)
             n == Len(line)
  <2>1. m # 0
    <3> SUFFICES ASSUME m = 0 PROVE FALSE
      OBVIOUS
    <3>1. n * m = 0
      BY <1>3
    <3> QED BY <3>1, <1>4
  <2>2. m \in Nat \ {0} /\ k \in Int
    BY <1>3, <1>4, <2>1
  <2> HIDE DEF m, n
  <2>3. (k - 1) % m \in 0 .. m - 1
    BY <2>2
  <2>4. ((k - 1) % m) + 1 \in 1 .. m
    BY <2>2, <2>3
  <2> QED BY <1>3, <2>4, ElementOfSeq DEF m
<1> HIDE DEF plant
<1>6. /\ meetings \in Seq((DOMAIN fs) \X (DOMAIN fs))
      /\ DOMAIN meetings = 1 .. Len(line) * Len(met)
      /\ \A k \in DOMAIN meetings : meetings[k] = <<plant(k), f>>
  <2>1. meetings \in [1 .. Len(line) * Len(met) -> (DOMAIN fs) \X (DOMAIN fs)]
    BY <1>5
  <2>2. \A k \in DOMAIN meetings : meetings[k] = <<plant(k), f>>
    OBVIOUS
  <2> HIDE DEF meetings
  <2> QED BY <1>4, <2>1, <2>2, FunctionIsSeq
<1> HIDE DEF meetings
<1>7. LET pairs == Picked(meetings, entries)
      IN /\ pairs \in Seq((DOMAIN fs) \X (DOMAIN fs))
         /\ \A i \in DOMAIN pairs : pairs[i][1] # pairs[i][2]
  <2>1. entries \in SUBSET DOMAIN meetings
    BY <1>2
  <2>2. \A k \in entries : meetings[k][1] # meetings[k][2]
    BY <1>2, <1>6
  <2> DEFINE pairs == Picked(meetings, entries)
  <2>3. /\ pairs \in Seq((DOMAIN fs) \X (DOMAIN fs))
        /\ \A i \in DOMAIN pairs : \E k \in entries : pairs[i] = meetings[k]
    BY <1>6, <2>1, PickedElements
  <2> HIDE DEF pairs
  <2>4. \A i \in DOMAIN pairs : pairs[i][1] # pairs[i][2]
    BY <2>2, <2>3
  <2> QED BY <2>3, <2>4 DEF pairs
<1>8. Awake(awake_plant(w, Picked(meetings, entries)), DOMAIN fs, past)
  BY <1>7, AwakePlant
<1>9. Awake(along, DOMAIN fs, past)
  BY <1>1, <1>8
<1> QED BY <1>9 DEF along

LEMMA AtACell ==
  ASSUME NEW w, NEW fs \in Seq(Fighter), NEW past, Awake(w, DOMAIN fs, past),
         NEW f \in DOMAIN fs, NEW from, NEW to
  PROVE  Awake(check_plant_triggers(w, fs, f, from, to), DOMAIN fs, past)
<1>1. Len(<<to>>) = 1
  OBVIOUS
<1> QED BY <1>1, AlongALine DEF check_plant_triggers

(* Whom a plant meets when it comes out of the ground.                      *)
LEMMA OutOfTheGround ==
  ASSUME NEW w, NEW fs \in Seq(Fighter), NEW past, Awake(w, DOMAIN fs, past),
         NEW plant \in DOMAIN fs
  PROVE  Awake(check_plant_planted(w, fs, plant), DOMAIN fs, past)
<1> DEFINE met == TeamOrder(fs)
           Around(f) == f # plant /\ fs[f].alive /\ InZone(fs, plant, fs[f].cell)
           meetings == [k \in DOMAIN met |-> <<plant, met[k]>>]
           near == { k \in DOMAIN met : Around(met[k]) }
           planted == check_plant_planted(w, fs, plant)
<1>1. planted = w \/ planted = awake_plant(w, Picked(meetings, near))
  BY Zenon DEF check_plant_planted
<1>2. \A k \in near : k \in DOMAIN met /\ met[k] # plant
  BY Zenon
<1>3. /\ met \in Seq(DOMAIN fs) /\ Len(met) \in Nat /\ DOMAIN met = 1 .. Len(met)
      /\ \A k \in DOMAIN met : met[k] \in DOMAIN fs
  BY TeamOrderOfFighters, SeqIsFunction, ElementOfSeq
<1> HIDE DEF met, near, planted
<1>4. /\ meetings \in Seq((DOMAIN fs) \X (DOMAIN fs)) /\ DOMAIN meetings = DOMAIN met
      /\ \A k \in DOMAIN meetings : meetings[k] = <<plant, met[k]>>
  <2>1. meetings \in [1 .. Len(met) -> (DOMAIN fs) \X (DOMAIN fs)]
    BY <1>3
  <2>2. \A k \in DOMAIN meetings : meetings[k] = <<plant, met[k]>>
    OBVIOUS
  <2> HIDE DEF meetings
  <2> QED BY <1>3, <2>1, <2>2, FunctionIsSeq
<1> HIDE DEF meetings
<1>5. LET pairs == Picked(meetings, near)
      IN /\ pairs \in Seq((DOMAIN fs) \X (DOMAIN fs))
         /\ \A i \in DOMAIN pairs : pairs[i][1] # pairs[i][2]
  <2>1. near \in SUBSET DOMAIN meetings
    BY <1>2, <1>4
  <2>2. \A k \in near : meetings[k][1] # meetings[k][2]
    BY <1>2, <1>4
  <2> DEFINE pairs == Picked(meetings, near)
  <2>3. /\ pairs \in Seq((DOMAIN fs) \X (DOMAIN fs))
        /\ \A i \in DOMAIN pairs : \E k \in near : pairs[i] = meetings[k]
    BY <1>4, <2>1, PickedElements
  <2> HIDE DEF pairs
  <2>4. \A i \in DOMAIN pairs : pairs[i][1] # pairs[i][2]
    BY <2>2, <2>3
  <2> QED BY <2>3, <2>4 DEF pairs
<1>6. Awake(awake_plant(w, Picked(meetings, near)), DOMAIN fs, past)
  BY <1>5, AwakePlant
<1>7. Awake(planted, DOMAIN fs, past)
  BY <1>1, <1>6
<1> QED BY <1>7 DEF planted
-----------------------------------------------------------------------------
AwakeInv == Awake(Asleep, DOMAIN fighters, woke)

LEMMA InitAwake == Init => AwakeInv
<1> SUFFICES ASSUME Init PROVE AwakeInv
  OBVIOUS
<1>1. /\ \E a, b \in Cells : fighters = <<Leek(1, a), Leek(2, b)>>
      /\ awakened_by = <<{}, {}>> /\ pending_awakenings = <<>> /\ woke = {}
  BY DEF Init
<1>2. DOMAIN fighters = {1, 2} /\ DOMAIN awakened_by = {1, 2}
  <2>1. \A p, q : DOMAIN <<p, q>> = {1, 2}
    OBVIOUS
  <2> QED BY <1>1, <2>1, Zenon
<1>3. awakened_by[1] = {} /\ awakened_by[2] = {}
  BY <1>1
<1>4. awakened_by \in [{1, 2} -> SUBSET {1, 2}]
  <2>1. awakened_by = [p \in {1, 2} |-> {}]
    BY <1>1
  <2> QED BY <2>1
<1>5. /\ pending_awakenings \in Seq({1, 2} \X {1, 2}) /\ Range(pending_awakenings) = {}
      /\ IsInjective(pending_awakenings)
  BY <1>1 DEF Range, IsInjective
<1> QED BY <1>1, <1>2, <1>3, <1>4, <1>5 DEF AwakeInv, Awake, Asleep

(* What a step makes of the awakenings.                                     *)
LEMMA AwakeningsLeft ==
  ASSUME NEW w, Awake(w, DOMAIN fighters', woke'),
         awakened_by' = w.by, pending_awakenings' = w.queue
  PROVE  AwakeInv'
BY DEF AwakeInv, Asleep, Awake

(* The one who begins a turn has nothing queued, and its past is forgotten. *)
LEMMA TurnAwake ==
  ASSUME IInv, AwakeInv, NEW f, TurnBegins(f), DOMAIN fighters' = DOMAIN fighters
  PROVE  AwakeInv'
<1> DEFINE dom == DOMAIN fighters
<1>1. /\ pending_awakenings = <<>> /\ pending_awakenings' = <<>>
      /\ awakened_by' = [g \in DOMAIN awakened_by |-> awakened_by[g] \ {f}]
      /\ woke' = { x \in woke : x[2] # f }
  BY DEF TurnBegins, clear_plant_triggers, IInv, LoopInv
<1>2. /\ awakened_by \in [dom -> SUBSET dom] /\ \A p \in dom : p \notin awakened_by[p]
      /\ woke \subseteq dom \X dom /\ \A x \in woke : x[2] \in awakened_by[x[1]]
  BY DEF AwakeInv, Awake, Asleep
<1> HIDE DEF dom
<1>3. awakened_by' \in [dom -> SUBSET dom] /\ \A p \in dom : p \notin awakened_by'[p]
  BY <1>1, <1>2
<1>4. woke' \subseteq dom \X dom /\ \A x \in woke' : x[2] \in awakened_by'[x[1]]
  <2> SUFFICES ASSUME NEW x \in woke'
               PROVE  x \in dom \X dom /\ x[2] \in awakened_by'[x[1]]
    OBVIOUS
  <2>1. x \in woke /\ x[2] # f /\ x \in dom \X dom
    BY <1>1, <1>2
  <2>2. x[1] \in dom /\ x[2] \in awakened_by[x[1]]
    BY <1>2, <2>1
  <2>3. awakened_by'[x[1]] = awakened_by[x[1]] \ {f}
    BY <1>1, <1>2, <2>2
  <2> QED BY <2>1, <2>2, <2>3
<1>5. /\ pending_awakenings' \in Seq(dom \X dom) /\ Range(pending_awakenings') = {}
      /\ IsInjective(pending_awakenings')
  BY <1>1 DEF Range, IsInjective
<1>6. DOMAIN fighters' = dom
  BY DEF dom
<1> QED BY <1>3, <1>4, <1>5, <1>6 DEF AwakeInv, Awake, Asleep

LEMMA UntouchedAwake ==
  ASSUME AwakeInv, DOMAIN fighters' = DOMAIN fighters,
         UNCHANGED <<awakened_by, pending_awakenings, woke>>
  PROVE  AwakeInv'
BY DEF AwakeInv, Awake, Asleep

LEMMA MovedAwake ==
  ASSUME AwakeInv, NEW f \in DOMAIN fighters, NEW line \in Seq(Cells), Moved(f, line),
         fighters' \in Seq(Fighter), DOMAIN fighters' = DOMAIN fighters
  PROVE  AwakeInv'
<1> DEFINE w == check_plant_triggers_along(Asleep, fighters', f, fighters[f].cell, line)
<1>1. awakened_by' = w.by /\ pending_awakenings' = w.queue /\ woke' = woke
  BY Zenon DEF Moved, Calls, history
<1>2. Awake(w, DOMAIN fighters', woke)
  <2>1. Len(line) \in Nat
    BY SeqIsFunction
  <2>2. Awake(Asleep, DOMAIN fighters', woke)
    BY DEF AwakeInv
  <2> QED BY <2>1, <2>2, AlongALine
<1> HIDE DEF w
<1> QED BY <1>1, <1>2, AwakeningsLeft

LEMMA InvertAwake ==
  ASSUME IInv, AwakeInv, NEW target \in DOMAIN fighters, invert_entities(target),
         fighters' \in Seq(Fighter), DOMAIN fighters' = DOMAIN fighters
  PROVE  AwakeInv'
<1> DEFINE here == fighters[actor].cell
           there == fighters[target].cell
           once == check_plant_triggers(Asleep, fighters', actor, here, there)
           w == check_plant_triggers(once, fighters', target, there, here)
<1>1. /\ Runs /\ awakened_by' = w.by /\ pending_awakenings' = w.queue /\ woke' = woke
  BY Zenon DEF invert_entities, Acts, Calls, history
<1>2. actor \in DOMAIN fighters'
  BY <1>1, Acting
<1> HIDE DEF here, there
<1>3. Awake(Asleep, DOMAIN fighters', woke)
  BY DEF AwakeInv
<1>4. Awake(once, DOMAIN fighters', woke)
  BY <1>2, <1>3, AtACell
<1> HIDE DEF once
<1>5. Awake(w, DOMAIN fighters', woke)
  BY <1>4, AtACell
<1> HIDE DEF w
<1> QED BY <1>1, <1>5, AwakeningsLeft

LEMMA WalkOnAwake ==
  ASSUME AwakeInv, NEW wk, wk.fid \in DOMAIN fighters, walk_on(wk), woke' = woke,
         fighters' \in Seq(Fighter), DOMAIN fighters' = DOMAIN fighters
  PROVE  AwakeInv'
<1>1. \E from, to : LET w == check_plant_triggers(Asleep, fighters', wk.fid, from, to)
                    IN awakened_by' = w.by /\ pending_awakenings' = w.queue
  BY Zenon DEF walk_on
<1>2. PICK from, to : LET w == check_plant_triggers(Asleep, fighters', wk.fid, from, to)
                      IN awakened_by' = w.by /\ pending_awakenings' = w.queue
  BY <1>1, Zenon
<1> DEFINE w == check_plant_triggers(Asleep, fighters', wk.fid, from, to)
<1>3. Awake(w, DOMAIN fighters', woke')
  BY AtACell DEF AwakeInv
<1>4. awakened_by' = w.by /\ pending_awakenings' = w.queue
  BY <1>2
<1> HIDE DEF w
<1> QED BY <1>3, <1>4, AwakeningsLeft

(* Nobody has woken a newcomer, and it has woken nobody.                    *)
LEMMA NewcomerAwake ==
  ASSUME NEW w, NEW n \in Nat, NEW past, Awake(w, 1 .. n, past)
  PROVE  Awake([w EXCEPT !.by = Append(@, {})], 1 .. n + 1, past)
<1> DEFINE dom == 1 .. n
           more == 1 .. n + 1
           by == Append(w.by, {})
<1>1. /\ w.by \in [dom -> SUBSET dom] /\ \A p \in dom : p \notin w.by[p]
      /\ w.queue \in Seq(dom \X dom) /\ IsInjective(w.queue)
      /\ past \subseteq dom \X dom
      /\ \A x \in Range(w.queue) \cup past : x[2] \in w.by[x[1]]
      /\ Range(w.queue) \cap past = {}
  BY DEF Awake
<1>2. dom \subseteq more /\ n + 1 \notin dom /\ more = dom \cup {n + 1} /\ DOMAIN w.by = 1 .. n
  BY <1>1
<1>3. w.by \in Seq(SUBSET dom) /\ Len(w.by) = n
  <2>1. w.by \in Seq(SUBSET dom)
    BY <1>1, FunctionIsSeq
  <2> QED BY <1>2, <2>1, LenProperties
<1>4. /\ by \in Seq(SUBSET dom) /\ Len(by) = n + 1 /\ by[n + 1] = {}
      /\ \A p \in 1 .. n : by[p] = w.by[p]
  <2>1. {} \in SUBSET dom
    OBVIOUS
  <2> HIDE DEF dom
  <2> QED BY <1>3, <2>1, AppendProperties
<1> HIDE DEF by
<1>5. by \in [more -> SUBSET dom]
  BY <1>4, SeqIsFunction
<1> HIDE DEF more
<1>6. by \in [more -> SUBSET more] /\ \A p \in more : p \notin by[p]
  BY <1>1, <1>2, <1>4, <1>5
<1>7. w.queue \in Seq(more \X more) /\ past \subseteq more \X more
  <2>1. dom \X dom \subseteq more \X more
    BY <1>2
  <2> HIDE DEF dom
  <2>2. Len(w.queue) \in Nat /\ w.queue \in [1 .. Len(w.queue) -> dom \X dom]
    BY <1>1, SeqIsFunction
  <2>3. w.queue \in [1 .. Len(w.queue) -> more \X more]
    BY <2>1, <2>2
  <2>4. w.queue \in Seq(more \X more)
    BY <2>2, <2>3, FunctionIsSeq
  <2> QED BY <1>1, <2>1, <2>4
<1>8. \A x \in Range(w.queue) \cup past : x[2] \in by[x[1]]
  <2> SUFFICES ASSUME NEW x \in Range(w.queue) \cup past PROVE x[2] \in by[x[1]]
    OBVIOUS
  <2>1. x \in dom \X dom
    <3> HIDE DEF dom
    <3> QED BY <1>1, ElementOfSeq, SeqIsFunction DEF Range
  <2>2. x[1] \in 1 .. n
    BY <2>1
  <2> QED BY <1>1, <1>4, <2>2
<1> DEFINE v == [w EXCEPT !.by = by]
<1>9. v.by = by /\ v.queue = w.queue
  <2>1. w.by \in [dom -> SUBSET dom]
    BY <1>1
  <2> QED BY <2>1
<1> HIDE DEF v
<1>10. Awake(v, more, past)
  BY <1>1, <1>6, <1>7, <1>8, <1>9 DEF Awake
<1> QED BY <1>10 DEF v, more, by

LEMMA SummonAwake ==
  ASSUME IInv, AwakeInv, NEW s \in Summons, NEW cell \in Cells, summon_entity(s[1], cell, s[2]),
         fighters' \in Seq(Fighter)
  PROVE  AwakeInv'
<1> DEFINE f == Len(fighters) + 1
           w == [Asleep EXCEPT !.by = Append(@, {})]
           at == check_plant_triggers(w, fighters', f, NoCell, cell)
           v == IF s[2] THEN check_plant_planted(at, fighters', f) ELSE w
<1>1. /\ awakened_by' = v.by /\ pending_awakenings' = v.queue /\ woke' = woke
      /\ \E r : fighters' = Append(fighters, r)
  BY Zenon DEF summon_entity, Calls
<1>2. /\ fighters \in Seq(Fighter) /\ Len(fighters) \in Nat
      /\ DOMAIN fighters = 1 .. Len(fighters)
  BY FightersAre, SeqIsFunction
<1>3. DOMAIN fighters' = 1 .. f /\ f \in DOMAIN fighters'
  BY <1>1, <1>2
<1>4. Awake(w, DOMAIN fighters', woke)
  <2>1. Awake(Asleep, 1 .. Len(fighters), woke)
    BY <1>2 DEF AwakeInv
  <2> QED BY <1>2, <1>3, <2>1, NewcomerAwake
<1> HIDE DEF w, f
<1>5. Awake(at, DOMAIN fighters', woke)
  BY <1>3, <1>4, AtACell
<1> HIDE DEF at
<1>6. Awake(check_plant_planted(at, fighters', f), DOMAIN fighters', woke)
  BY <1>3, <1>5, OutOfTheGround
<1>7. Awake(v, DOMAIN fighters', woke')
  BY <1>1, <1>4, <1>6
<1> HIDE DEF v
<1> QED BY <1>1, <1>7, AwakeningsLeft

(* The first of the queue goes to the past.                                 *)
LEMMA NextAwake ==
  ASSUME AwakeInv, next_awakening
  PROVE  AwakeInv' /\ Head(pending_awakenings) \notin woke
<1> DEFINE dom == DOMAIN fighters
           q == pending_awakenings
           first == Head(pending_awakenings)
<1>1. /\ q # <<>> /\ q' = Tail(q) /\ (woke' = woke \/ woke' = woke \cup {first})
      /\ UNCHANGED <<fighters, awakened_by>>
  BY DEF next_awakening, world
<1>2. /\ q \in Seq(dom \X dom) /\ IsInjective(q) /\ Range(q) \cap woke = {}
      /\ awakened_by \in [dom -> SUBSET dom] /\ \A p \in dom : p \notin awakened_by[p]
      /\ woke \subseteq dom \X dom
      /\ \A x \in Range(q) \cup woke : x[2] \in awakened_by[x[1]]
  BY DEF AwakeInv, Awake, Asleep
<1> HIDE DEF dom
<1>3. /\ Len(q) \in Nat \ {0} /\ DOMAIN q = 1 .. Len(q) /\ first = q[1]
      /\ Tail(q) \in Seq(dom \X dom) /\ Len(Tail(q)) = Len(q) - 1
      /\ \A i \in 1 .. Len(q) - 1 : Tail(q)[i] = q[i + 1]
  BY <1>1, <1>2, EmptySeq, SeqIsFunction, HeadTailProperties
<1> HIDE DEF q, first
<1>4. DOMAIN Tail(q) = 1 .. Len(q) - 1
  BY <1>3, SeqIsFunction
<1>5. first \in Range(q) /\ first \in dom \X dom /\ first \notin woke
  <2>1. 1 \in DOMAIN q
    BY <1>3
  <2> QED BY <1>2, <1>3, <2>1, ElementOfSeq DEF Range
<1>6. \A i \in DOMAIN Tail(q) : Tail(q)[i] \in Range(q) /\ Tail(q)[i] # first
  <2> SUFFICES ASSUME NEW i \in DOMAIN Tail(q)
               PROVE  Tail(q)[i] \in Range(q) /\ Tail(q)[i] # first
    OBVIOUS
  <2>1. i + 1 \in DOMAIN q /\ 1 \in DOMAIN q /\ i + 1 # 1 /\ Tail(q)[i] = q[i + 1]
    BY <1>3, <1>4
  <2> QED BY <1>2, <1>3, <2>1 DEF Range, IsInjective
<1>7. IsInjective(Tail(q))
  <2> SUFFICES ASSUME NEW i \in DOMAIN Tail(q), NEW j \in DOMAIN Tail(q), Tail(q)[i] = Tail(q)[j]
               PROVE  i = j
    BY DEF IsInjective
  <2>1. i + 1 \in DOMAIN q /\ j + 1 \in DOMAIN q /\ q[i + 1] = q[j + 1] /\ i \in Int /\ j \in Int
    BY <1>3, <1>4
  <2>2. i + 1 = j + 1
    BY <1>2, <2>1 DEF IsInjective
  <2> QED BY <2>1, <2>2
<1>8. \A x \in Range(Tail(q)) : x \in Range(q) /\ x # first
  BY <1>6 DEF Range
<1>9. /\ Range(Tail(q)) \cap woke' = {} /\ woke' \subseteq dom \X dom
      /\ \A x \in Range(Tail(q)) \cup woke' : x[2] \in awakened_by[x[1]]
  BY <1>1, <1>2, <1>5, <1>8
<1> DEFINE w == [by |-> awakened_by, queue |-> Tail(q)]
<1>10. w.by = awakened_by /\ w.queue = Tail(q)
  OBVIOUS
<1> HIDE DEF w
<1>11. Awake(w, dom, woke')
  BY <1>2, <1>3, <1>7, <1>9, <1>10 DEF Awake
<1>12. /\ Awake(w, DOMAIN fighters', woke') /\ awakened_by' = w.by
       /\ pending_awakenings' = w.queue
  BY <1>1, <1>10, <1>11 DEF dom, q
<1> QED BY <1>5, <1>12, AwakeningsLeft DEF first

LEMMA StepAwake == IInv /\ AwakeInv /\ [Next]_vars => AwakeInv'
<1> SUFFICES ASSUME IInv, AwakeInv, [Next]_vars PROVE AwakeInv'
  OBVIOUS
<1>1. fighters \in Seq(Fighter) /\ fighters' \in Seq(Fighter)
  <2>1. IInv'
    BY StepIInv
  <2> QED BY <2>1 DEF IInv, Board
<1>2. ASSUME NEW f \in DOMAIN fighters, begin_act(f) \/ begin_upkeep(f) PROVE AwakeInv'
  <2>1. TurnBegins(f) /\ fighters' = fighters
    BY <1>2 DEF begin_act, begin_upkeep, world
  <2> QED BY <2>1, TurnAwake
<1>3. ASSUME NEW f \in DOMAIN fighters, begin_skip(f) PROVE AwakeInv'
  <2>1. TurnBegins(f) /\ fighters' = Slain(fighters, Doomed(fighters, f))
    BY <1>3 DEF begin_skip
  <2>2. DOMAIN fighters' = DOMAIN fighters
    BY <1>1, <2>1, DoomedAreFighters, SlainLiving
  <2> QED BY <2>1, <2>2, TurnAwake
<1>4. ASSUME end_entity_turn PROVE AwakeInv'
  BY <1>4, UntouchedAwake DEF end_entity_turn, plants
<1>5. ASSUME NEW f \in DOMAIN fighters, attack(f) \/ plant_attacks(f) PROVE AwakeInv'
  <2>1. /\ fighters' = Slain(fighters, Doomed(fighters, f))
        /\ UNCHANGED <<awakened_by, pending_awakenings, woke>>
    BY <1>5 DEF attack, plant_attacks, Dies, plants
  <2>2. DOMAIN fighters' = DOMAIN fighters
    BY <1>1, <2>1, DoomedAreFighters, SlainLiving
  <2> QED BY <2>1, <2>2, UntouchedAwake
<1>6. ASSUME NEW f \in DOMAIN fighters, slide_entity(f) PROVE AwakeInv'
  <2>1. DOMAIN fighters' = DOMAIN fighters
    BY <1>6, QuietSteps DEF Quiet
  <2> QED BY <1>1, <1>6, <2>1, SlidLine, MovedAwake
<1>7. ASSUME teleport_entity PROVE AwakeInv'
  <2>1. DOMAIN fighters' = DOMAIN fighters
    BY <1>7, QuietSteps DEF Quiet
  <2>2. PICK cell \in Cells : Moved(actor, <<cell>>)
    BY <1>7 DEF teleport_entity
  <2>3. actor \in DOMAIN fighters /\ <<cell>> \in Seq(Cells)
    BY <1>7, Acting DEF teleport_entity, Acts
  <2> QED BY <1>1, <2>1, <2>2, <2>3, MovedAwake
<1>8. ASSUME NEW f \in DOMAIN fighters, invert_entities(f) PROVE AwakeInv'
  <2>1. DOMAIN fighters' = DOMAIN fighters
    BY <1>8, QuietSteps DEF Quiet
  <2> QED BY <1>1, <1>8, <2>1, InvertAwake
<1>9. ASSUME NEW f \in DOMAIN fighters, NEW cell \in Cells, resurrect_entity(f, cell)
      PROVE  AwakeInv'
  <2>1. /\ awakened_by' = awakened_by /\ pending_awakenings' = pending_awakenings
        /\ woke' = woke
        /\ fighters' = [place_entity(fighters, f, cell) EXCEPT ![f].alive = TRUE]
    BY <1>9 DEF resurrect_entity, Calls, Asleep, history
  <2>2. DOMAIN fighters' = DOMAIN fighters
    BY <1>1, <2>1, RevivedFighter
  <2> QED BY <2>1, <2>2, UntouchedAwake
<1>10. ASSUME NEW s \in Summons, NEW cell \in Cells, summon_entity(s[1], cell, s[2])
       PROVE  AwakeInv'
  BY <1>1, <1>10, SummonAwake
<1>11. ASSUME move_entity PROVE AwakeInv'
  <2>1. DOMAIN fighters' = DOMAIN fighters
    BY <1>11, QuietSteps DEF Quiet
  <2>2. Runs /\ woke' = woke /\ \E wk : wk.fid = actor /\ walk_on(wk)
    <3>1. /\ Runs /\ woke' = woke
          /\ \E path \in Paths(fighters[actor].cell) :
               walk_on([fid |-> actor, from |-> fighters[actor].cell, path |-> path,
                        plants |-> { p \in Living(fighters) : p # actor /\ IsPlant(fighters, p) }])
      BY <1>11 DEF move_entity, history
    <3>2. \A path, met : [fid |-> actor, from |-> fighters[actor].cell, path |-> path,
                          plants |-> met].fid = actor
      OBVIOUS
    <3> QED BY <3>1, <3>2, Zenon
  <2>3. actor \in DOMAIN fighters
    BY <2>2, Acting
  <2> QED BY <1>1, <2>1, <2>2, <2>3, WalkOnAwake
<1>12. ASSUME resume_walk PROVE AwakeInv'
  <2>1. DOMAIN fighters' = DOMAIN fighters
    BY <1>12, QuietSteps DEF Quiet
  <2>2. walk # NoWalk /\ woke' = woke
    BY <1>12 DEF resume_walk, history
  <2>3. CASE walk.path = <<>>
    BY <1>12, <2>1, <2>2, <2>3, UntouchedAwake DEF resume_walk
  <2>4. CASE walk.path # <<>>
    <3>1. walk_on(walk)
      BY <1>12, <2>4 DEF resume_walk
    <3>2. walk.fid \in DOMAIN fighters
      BY <2>2 DEF IInv, WalkInv
    <3> QED BY <1>1, <2>1, <2>2, <3>1, <3>2, WalkOnAwake
  <2> QED BY <2>3, <2>4
<1>13. ASSUME next_awakening PROVE AwakeInv'
  BY <1>13, NextAwake
<1>14. ASSUME finish_awakening \/ take_walk_result PROVE AwakeInv'
  BY <1>14, UntouchedAwake DEF finish_awakening, take_walk_result, world, plants, history
<1>15. ASSUME Over \/ UNCHANGED vars PROVE AwakeInv'
  BY <1>15, UntouchedAwake DEF Over, vars, world, plants, history
<1> QED BY <1>2, <1>3, <1>4, <1>5, <1>6, <1>7, <1>8, <1>9, <1>10, <1>11, <1>12, <1>13,
           <1>14, <1>15 DEF Next

(* In every state of a fight: whom a plant has woken for is remembered      *)
(* until that one begins a turn.                                            *)
THEOREM AwakeInvariance == Spec => []AwakeInv
BY InitIInv, StepIInv, InitAwake, StepAwake, PTL DEF Spec

(* awake_plant, next_awakening and clear_plant_triggers: a plant plays out  *)
(* of turn at most once for a given fighter between two turns of the        *)
(* latter, whatever walks, slides, swaps, summons and revivals come between.*)
THEOREM AwakenedOnce == Spec => OneAwakeningPerTurn
<1> DEFINE Fresh == awakening_plant = 0 /\ awakening_plant' # 0
                      => Head(pending_awakenings) \notin woke
<1>1. IInv /\ AwakeInv /\ [Next]_vars => [Fresh]_vars
  <2> SUFFICES ASSUME IInv, AwakeInv, Next, awakening_plant = 0, awakening_plant' # 0
               PROVE  Head(pending_awakenings) \notin woke
    BY DEF Fresh
  <2>1. CASE next_awakening
    BY <2>1, NextAwake
  <2>2. CASE ~next_awakening
    <3>1. awakening_plant' = awakening_plant \/ awakening_plant' = 0
      <4>1. ASSUME NEW f \in DOMAIN fighters, begin_act(f) \/ begin_upkeep(f) \/ begin_skip(f)
            PROVE  awakening_plant' = awakening_plant
        BY <4>1 DEF begin_act, begin_upkeep, begin_skip, TurnBegins
      <4>2. ASSUME NEW f \in DOMAIN fighters,
                   attack(f) \/ slide_entity(f) \/ invert_entities(f) \/ plant_attacks(f)
            PROVE  awakening_plant' = awakening_plant
        BY <4>2 DEF attack, slide_entity, invert_entities, plant_attacks, Moved, Calls, plants
      <4>3. ASSUME NEW f \in DOMAIN fighters, NEW cell \in Cells, resurrect_entity(f, cell)
            PROVE  awakening_plant' = awakening_plant
        BY <4>3 DEF resurrect_entity, Calls
      <4>4. ASSUME NEW s \in Summons, NEW cell \in Cells, summon_entity(s[1], cell, s[2])
            PROVE  awakening_plant' = awakening_plant
        BY <4>4 DEF summon_entity, Calls
      <4>5. ASSUME \/ end_entity_turn \/ teleport_entity \/ move_entity \/ finish_awakening
                   \/ resume_walk \/ take_walk_result \/ Over
            PROVE  awakening_plant' = awakening_plant \/ awakening_plant' = 0
        BY <4>5 DEF end_entity_turn, teleport_entity, move_entity, finish_awakening, resume_walk,
                    take_walk_result, Over, Moved, Calls, plants, vars
      <4> QED BY <2>2, <4>1, <4>2, <4>3, <4>4, <4>5 DEF Next
    <3> QED BY <3>1
  <2> QED BY <2>1, <2>2
<1>2. OneAwakeningPerTurn <=> [][Fresh]_vars
  BY DEF OneAwakeningPerTurn
<1> HIDE DEF Fresh
<1> QED BY <1>1, <1>2, Invariance, AwakeInvariance, PTL DEF Spec
-----------------------------------------------------------------------------
(***************************************************************************)
(* The types of the fields.                                                *)
(***************************************************************************)
(* A summon enters after its summoner.                                      *)
FoldInv ==
  /\ \A f \in DOMAIN fighters : fighters[f].summoner < f
  /\ {1, 2} \subseteq DOMAIN fighters /\ DOMAIN fighters \subseteq 1 .. MaxFighters

(* The fight stops when its last turn ends.                                 *)
TurnsInv ==
  /\ order.turn \in 1 .. MAX_TURNS + 1
  /\ phase # "over" => order.turn <= MAX_TURNS

(* What the AI that runs has called, and the plant that plays for it.       *)
CallsInv ==
  /\ awakening_plant \in {0} \cup DOMAIN fighters /\ actor \in {0} \cup DOMAIN fighters
  /\ walk_result \in BOOLEAN /\ calls \in 0 .. MaxCalls /\ call \in {"none", "walk", "other"}

FieldsInv == FoldInv /\ TurnsInv /\ CallsInv

LEMMA InitFields == Init => FieldsInv
<1> SUFFICES ASSUME Init PROVE FieldsInv
  OBVIOUS
<1>1. PICK a \in Cells, b \in Cells : fighters = <<Leek(1, a), Leek(2, b)>>
  BY DEF Init
<1>2. /\ order.turn = 1 /\ phase = "begin" /\ actor = 0 /\ awakening_plant = 0
      /\ walk_result = FALSE /\ calls = 0 /\ call = "none"
  BY DEF Init
<1>3. Leek(1, a).summoner = 0 /\ Leek(2, b).summoner = 0
  BY DEF Leek
<1> DEFINE p == Leek(1, a)
           q == Leek(2, b)
<1>4. fighters = <<p, q>> /\ p.summoner = 0 /\ q.summoner = 0
  BY <1>1, <1>3
<1> HIDE DEF p, q
<1>5. DOMAIN fighters = {1, 2} /\ fighters[1] = p /\ fighters[2] = q
  BY <1>4
<1>6. FoldInv
  BY <1>4, <1>5, LimitsAssumption DEF FoldInv
<1>7. TurnsInv
  BY <1>2, LimitsAssumption DEF TurnsInv
<1>8. CallsInv
  <2>1. walk_result \in BOOLEAN
    BY Zenon DEF Init
  <2>2. /\ awakening_plant \in {0} \cup DOMAIN fighters /\ actor \in {0} \cup DOMAIN fighters
        /\ calls \in 0 .. MaxCalls /\ call \in {"none", "walk", "other"}
    BY <1>2, LimitsAssumption
  <2> QED BY <2>1, <2>2, Zenon DEF CallsInv
<1> QED BY <1>6, <1>7, <1>8 DEF FieldsInv

(* A step that brings nobody in.                                            *)
LEMMA SameFold ==
  ASSUME FoldInv, DOMAIN fighters' = DOMAIN fighters,
         \A f \in DOMAIN fighters : fighters'[f].summoner = fighters[f].summoner
  PROVE  FoldInv'
BY DEF FoldInv

(* A step within a turn.                                                    *)
LEMMA SameTurn ==
  ASSUME TurnsInv, order'.turn = order.turn, phase # "over"
  PROVE  TurnsInv'
BY LimitsAssumption DEF TurnsInv

LEMMA TurnEnded ==
  ASSUME TurnsInv, NEW fs, NEW o \in Orders, o.turn = order.turn, phase # "over",
         NEW seen, end_turn(fs, o, seen)
  PROVE  TurnsInv' /\ actor' = 0 /\ calls' = 0
<1> DEFINE after == IF is_finished(fs) THEN o ELSE next(o)
<1>1. /\ order' = after /\ actor' = 0 /\ calls' = 0 /\ phase' \in {"begin", "over"}
      /\ after.turn > MAX_TURNS => phase' = "over"
  BY DEF end_turn
<1>2. after.turn \in {o.turn, o.turn + 1}
  <2>1. o.turn \in Int
    BY DEF Orders
  <2>2. next(o).turn \in {o.turn, o.turn + 1}
    BY DEF next, Orders
  <2> QED BY <2>2
<1> HIDE DEF after
<1>3. order.turn \in 1 .. MAX_TURNS /\ MAX_TURNS \in Nat
  BY LimitsAssumption DEF TurnsInv
<1> QED BY <1>1, <1>2, <1>3 DEF TurnsInv

LEMMA RemovedTurn ==
  ASSUME NEW fs, NEW o, Standing(fs, o), NEW dead
  PROVE  remove_entities(o, dead) \in Orders /\ remove_entities(o, dead).turn = o.turn
<1> DEFINE left == { i \in DOMAIN o.fids : o.fids[i] \notin dead }
           q == remove_entities(o, dead)
<1>1. \A i : i \in left <=> i \in DOMAIN o.fids /\ o.fids[i] \notin dead
  BY Zenon
<1>2. q = remove_entities(o, dead)
  OBVIOUS
<1> HIDE DEF left, q
<1>3. q \in Orders /\ q.turn = o.turn
  BY <1>1, <1>2, Removal
<1> QED BY <1>3 DEF q

LEMMA TurnFields ==
  ASSUME IInv, OrderInv, FieldsInv, NEW f \in DOMAIN fighters,
         begin_act(f) \/ begin_upkeep(f) \/ begin_skip(f)
  PROVE  FieldsInv'
<1>1. TurnBegins(f) /\ phase = "begin" /\ UNCHANGED <<call, awakening_plant, walk_result>>
  BY DEF begin_act, begin_upkeep, begin_skip, TurnBegins, walking
<1>2. order \in Orders /\ fighters \in Seq(Fighter)
  BY FightersAre DEF OrderInv, Standing
<1>3. CASE begin_act(f)
  <2>1. UNCHANGED <<fighters, order, calls>> /\ phase' = "act" /\ actor' = f
    BY <1>3 DEF begin_act, world
  <2> QED BY <1>1, <2>1 DEF FieldsInv, FoldInv, TurnsInv, CallsInv
<1>4. CASE begin_upkeep(f)
  <2>1. end_turn(fighters, order, played \cup {f}) /\ fighters' = fighters
    BY <1>4 DEF begin_upkeep
  <2>2. TurnsInv' /\ actor' = 0 /\ calls' = 0
    BY <1>1, <1>2, <2>1, TurnEnded DEF FieldsInv
  <2> QED BY <1>1, <2>1, <2>2, LimitsAssumption DEF FieldsInv, FoldInv, CallsInv
<1>5. CASE begin_skip(f)
  <2> DEFINE dead == Doomed(fighters, f)
             o == remove_entities(order, dead)
  <2>1. end_turn(Slain(fighters, dead), o, played \ dead) /\ fighters' = Slain(fighters, dead)
    BY <1>5 DEF begin_skip
  <2>2. /\ DOMAIN fighters' = DOMAIN fighters
        /\ \A g \in DOMAIN fighters : fighters'[g].summoner = fighters[g].summoner
    BY <1>2, <2>1, DoomedAreFighters, SlainLiving
  <2> HIDE DEF dead
  <2>3. o \in Orders /\ o.turn = order.turn
    BY <1>2, RemovedTurn DEF OrderInv
  <2> HIDE DEF o
  <2>4. TurnsInv' /\ actor' = 0 /\ calls' = 0
    BY <1>1, <2>1, <2>3, TurnEnded DEF FieldsInv
  <2>5. FoldInv'
    BY <2>2, SameFold DEF FieldsInv
  <2> QED BY <1>1, <2>2, <2>4, <2>5, LimitsAssumption DEF FieldsInv, CallsInv
<1> QED BY <1>3, <1>4, <1>5

(* A builtin called in a turn, from a run that may still call one.          *)
LEMMA CalledOnce ==
  ASSUME IInv, CallsInv, Runs, DOMAIN fighters \subseteq DOMAIN fighters',
         calls' = calls + 1, call' \in {call, "walk", "other"},
         UNCHANGED <<actor, awakening_plant>>, walk_result' \in BOOLEAN
  PROVE  CallsInv'
BY LimitsAssumption DEF CallsInv, Runs

LEMMA WalkedOn ==
  ASSUME NEW wk, walk_on(wk), walk_result \in BOOLEAN
  PROVE  walk_result' \in BOOLEAN
<1>1. \E waits : walk_result' = (walk_result \/ ~waits)
  BY Zenon DEF walk_on
<1> QED BY <1>1

LEMMA QuietFields ==
  ASSUME IInv, OrderInv, FieldsInv,
         \/ \E f \in DOMAIN fighters : slide_entity(f) \/ invert_entities(f)
         \/ teleport_entity \/ move_entity \/ resume_walk \/ finish_awakening \/ take_walk_result
  PROVE  FieldsInv'
<1>1. Quiet
  BY QuietSteps
<1>2. FoldInv' /\ TurnsInv'
  BY <1>1, SameFold, SameTurn DEF FieldsInv, Quiet
<1>3. DOMAIN fighters' = DOMAIN fighters /\ CallsInv
  BY <1>1 DEF Quiet, FieldsInv
<1>4. ASSUME \/ \E f \in DOMAIN fighters : slide_entity(f) \/ invert_entities(f)
             \/ teleport_entity
      PROVE  CallsInv'
  <2>1. /\ Runs /\ calls' = calls + 1 /\ call' \in {call, "other"}
        /\ UNCHANGED <<actor, awakening_plant, walk_result>>
    BY <1>4 DEF slide_entity, invert_entities, teleport_entity, Acts, Moved, Calls, walking
  <2> QED BY <1>3, <2>1, CalledOnce DEF CallsInv
<1>5. ASSUME move_entity PROVE CallsInv'
  <2>1. /\ Runs /\ calls' = calls + 1 /\ call' \in {call, "walk"}
        /\ UNCHANGED <<actor, awakening_plant>>
        /\ \E wk : walk_on(wk)
    BY <1>5 DEF move_entity
  <2>2. walk_result' \in BOOLEAN
    BY <1>3, <2>1, WalkedOn DEF CallsInv
  <2> QED BY <1>3, <2>1, <2>2, CalledOnce
<1>6. ASSUME resume_walk PROVE CallsInv'
  <2>1. UNCHANGED <<actor, call, calls, awakening_plant>>
    BY <1>6 DEF resume_walk, loop
  <2>2. walk_result' \in BOOLEAN
    BY <1>3, <1>6, WalkedOn DEF resume_walk, CallsInv
  <2> QED BY <1>3, <2>1, <2>2 DEF CallsInv
<1>7. ASSUME finish_awakening \/ take_walk_result PROVE CallsInv'
  BY <1>3, <1>7 DEF finish_awakening, take_walk_result, walking, plants, CallsInv
<1> QED BY <1>2, <1>4, <1>5, <1>6, <1>7 DEF FieldsInv

LEMMA StepFields == IInv /\ OrderInv /\ AwakeInv /\ FieldsInv /\ [Next]_vars => FieldsInv'
<1> SUFFICES ASSUME IInv, OrderInv, AwakeInv, FieldsInv, [Next]_vars PROVE FieldsInv'
  OBVIOUS
<1>1. order \in Orders /\ fighters \in Seq(Fighter)
  BY FightersAre DEF OrderInv, Standing
<1>2. ASSUME NEW f \in DOMAIN fighters, begin_act(f) \/ begin_upkeep(f) \/ begin_skip(f)
      PROVE  FieldsInv'
  BY <1>2, TurnFields
<1>3. ASSUME end_entity_turn PROVE FieldsInv'
  <2>1. /\ end_turn(fighters, order, played) /\ phase = "act"
        /\ UNCHANGED <<fighters, call, awakening_plant, walk_result>>
    BY <1>3 DEF end_entity_turn, plants, walking
  <2>2. TurnsInv' /\ actor' = 0 /\ calls' = 0
    BY <1>1, <2>1, TurnEnded DEF FieldsInv
  <2> QED BY <2>1, <2>2, LimitsAssumption DEF FieldsInv, FoldInv, CallsInv
<1>4. ASSUME NEW f \in DOMAIN fighters, attack(f) \/ plant_attacks(f) PROVE FieldsInv'
  <2>1. /\ phase # "over" /\ Dies(f)
        /\ (calls' = calls + 1 /\ Runs) \/ calls' = calls
        /\ UNCHANGED <<actor, call, awakening_plant, walk_result>>
    BY <1>4 DEF attack, plant_attacks, Acts, Runs, loop, plants, walking
  <2>2. /\ fighters' = Slain(fighters, Doomed(fighters, f))
        /\ order' = remove_entities(order, Doomed(fighters, f))
    BY <2>1 DEF Dies
  <2>3. /\ DOMAIN fighters' = DOMAIN fighters
        /\ \A g \in DOMAIN fighters : fighters'[g].summoner = fighters[g].summoner
    BY <1>1, <2>2, DoomedAreFighters, SlainLiving
  <2>4. order'.turn = order.turn
    BY <2>2, RemovedTurn DEF OrderInv
  <2>5. FoldInv' /\ TurnsInv'
    BY <2>1, <2>3, <2>4, SameFold, SameTurn DEF FieldsInv
  <2>6. CallsInv'
    <3>1. CASE calls' = calls + 1 /\ Runs
      BY <2>1, <2>3, <3>1, CalledOnce DEF FieldsInv, CallsInv
    <3>2. CASE calls' = calls
      BY <2>1, <2>3, <3>2 DEF FieldsInv, CallsInv
    <3> QED BY <2>1, <3>1, <3>2
  <2> QED BY <2>5, <2>6 DEF FieldsInv
<1>5. ASSUME \/ \E f \in DOMAIN fighters : slide_entity(f) \/ invert_entities(f)
             \/ teleport_entity \/ move_entity \/ resume_walk \/ finish_awakening
             \/ take_walk_result
      PROVE  FieldsInv'
  BY <1>5, QuietFields
<1>6. ASSUME NEW f \in DOMAIN fighters, NEW cell \in Cells, resurrect_entity(f, cell)
      PROVE  FieldsInv'
  <2>1. /\ Runs /\ ~fighters[f].alive /\ order' = Revived(order, f)
        /\ calls' = calls + 1 /\ call' \in {call, "other"}
        /\ fighters' = [place_entity(fighters, f, cell) EXCEPT ![f].alive = TRUE]
        /\ UNCHANGED <<actor, awakening_plant, walk_result>>
    BY <1>6 DEF resurrect_entity, Acts, Calls, walking
  <2>2. /\ DOMAIN fighters' = DOMAIN fighters
        /\ \A g \in DOMAIN fighters : fighters'[g].summoner = fighters[g].summoner
    <3> DEFINE gs == [place_entity(fighters, f, cell) EXCEPT ![f].alive = TRUE]
    <3>1. /\ DOMAIN gs = DOMAIN fighters /\ gs[f].summoner = fighters[f].summoner
          /\ \A g \in DOMAIN fighters : g # f => gs[g] = fighters[g]
      BY <1>1, RevivedFighter
    <3>2. fighters' = gs
      BY <2>1
    <3> HIDE DEF gs
    <3> QED BY <3>1, <3>2
  <2>3. order'.turn = order.turn /\ phase # "over"
    BY <2>1, RevivedPlace DEF Runs
  <2>4. FoldInv' /\ TurnsInv'
    BY <2>2, <2>3, SameFold, SameTurn DEF FieldsInv
  <2>5. CallsInv'
    BY <2>1, <2>2, CalledOnce DEF FieldsInv, CallsInv
  <2> QED BY <2>4, <2>5 DEF FieldsInv
<1>7. ASSUME NEW s \in Summons, NEW cell \in Cells, summon_entity(s[1], cell, s[2])
      PROVE  FieldsInv'
  <2> DEFINE f == Len(fighters) + 1
             r == [Leek(fighters[actor].team, cell) EXCEPT
                     !.kind = s[1], !.summoner = actor, !.ai = s[2]]
  <2>1. /\ Runs /\ fighters' = Append(fighters, r) /\ order' = add_summon(order, actor, f)
        /\ f <= MaxFighters /\ calls' = calls + 1 /\ call' \in {call, "other"}
        /\ UNCHANGED <<actor, awakening_plant, walk_result>>
    BY <1>7 DEF summon_entity, Acts, Calls, walking
  <2>2. r.summoner = actor
    BY DEF Leek
  <2> HIDE DEF r
  <2>3. /\ Len(fighters) \in Nat /\ DOMAIN fighters = 1 .. Len(fighters)
        /\ actor \in DOMAIN fighters /\ phase # "over"
    BY <1>1, <2>1, Acting, SeqIsFunction DEF Runs
  <2>4. /\ DOMAIN fighters' = DOMAIN fighters \cup {f} /\ fighters'[f] = r
        /\ \A g \in DOMAIN fighters : fighters'[g] = fighters[g]
    BY <1>1, <2>1, <2>3
  <2>5. FoldInv'
    <3>1. \A g \in DOMAIN fighters : fighters[g].summoner < g
      BY DEF FieldsInv, FoldInv
    <3>2. actor < f /\ f \in 1 .. MaxFighters
      BY <2>1, <2>3, LimitsAssumption
    <3> HIDE DEF f
    <3> QED BY <2>2, <2>4, <3>1, <3>2 DEF FieldsInv, FoldInv
  <2>6. order'.turn = order.turn
    BY <1>1, <2>1 DEF add_summon, Orders
  <2>7. TurnsInv'
    BY <2>3, <2>6, SameTurn DEF FieldsInv
  <2>8. CallsInv'
    BY <2>1, <2>4, CalledOnce DEF FieldsInv, CallsInv
  <2> QED BY <2>5, <2>7, <2>8 DEF FieldsInv
<1>8. ASSUME next_awakening PROVE FieldsInv'
  <2>1. Quiet
    BY <1>8, QuietSteps
  <2>2. FoldInv' /\ TurnsInv'
    BY <2>1, SameFold, SameTurn DEF FieldsInv, Quiet
  <2>3. /\ pending_awakenings # <<>> /\ UNCHANGED <<fighters, actor, call, calls, walk_result>>
        /\ awakening_plant' \in {awakening_plant, Head(pending_awakenings)[1]}
    BY <1>8 DEF next_awakening, world, walking
  <2>4. Head(pending_awakenings)[1] \in DOMAIN fighters
    <3> DEFINE q == pending_awakenings
               dom == DOMAIN fighters
    <3>1. q \in Seq(dom \X dom) /\ q # <<>>
      BY <2>3 DEF AwakeInv, Awake, Asleep
    <3> HIDE DEF q, dom
    <3>2. Head(q) \in dom \X dom
      BY <3>1, HeadTailProperties
    <3>3. Head(q)[1] \in dom
      BY <3>2
    <3> QED BY <3>3 DEF q, dom
  <2>5. CallsInv'
    BY <2>3, <2>4 DEF FieldsInv, CallsInv
  <2> QED BY <2>2, <2>5 DEF FieldsInv
<1>9. ASSUME Over \/ UNCHANGED vars PROVE FieldsInv'
  BY <1>9 DEF Over, vars, world, loop, plants, walking, FieldsInv, FoldInv, TurnsInv, CallsInv
<1> QED BY <1>2, <1>3, <1>4, <1>5, <1>6, <1>7, <1>8, <1>9 DEF Next

THEOREM FieldsInvariance == Spec => []FieldsInv
BY InitIInv, StepIInv, InitOrder, StepOrder, InitAwake, StepAwake, InitFields, StepFields,
   PTL DEF Spec

(* Every operation of the fight keeps the fields in their types: fids are   *)
(* of fighters that entered, the cursor is on the order or just before it,  *)
(* nobody is its own summoner or in its own awakening set, and no turn      *)
(* begins past the last.                                                    *)
THEOREM TypeCorrectness == Spec => []TypeOK
<1>1. IInv /\ OrderInv /\ AwakeInv /\ FieldsInv => TypeOK
  <2> SUFFICES ASSUME IInv, OrderInv, AwakeInv, FieldsInv PROVE TypeOK
    OBVIOUS
  <2> DEFINE dom == DOMAIN fighters
  <2>1. /\ fighters \in Seq(Fighter) /\ Len(fighters) \in Nat /\ dom = 1 .. Len(fighters)
        /\ occupancy \in [Cells -> {0} \cup dom]
    BY FightersAre, SeqIsFunction DEF IInv, Board
  <2>2. ASSUME NEW f \in dom
        PROVE  /\ fighters[f].kind \in {"leek", "bulb", "plant"}
               /\ fighters[f].team \in Teams
               /\ fighters[f].summoner \in 0 .. (f - 1)
               /\ fighters[f].cell \in Cells \cup {NoCell}
               /\ awakened_by[f] \subseteq dom \ {f}
    <3>1. fighters[f] \in Fighter /\ f \in Nat
      BY <2>1, SeqIsFunction
    <3>2. fighters[f].summoner < f
      BY DEF FieldsInv, FoldInv
    <3>3. awakened_by[f] \subseteq dom \ {f}
      BY DEF AwakeInv, Awake, Asleep
    <3> QED BY <3>1, <3>2, <3>3 DEF Fighter
  <2>3. Len(fighters) \in 2 .. MaxFighters
    BY <2>1, LimitsAssumption DEF FieldsInv, FoldInv
  <2>4. order.fids \in Seq(dom) /\ order.position \in -1 .. Len(order.fids) - 1
    <3>1. /\ order.fids \in Seq(Nat) /\ Range(order.fids) = Living(fighters)
          /\ order.position \in -1 .. Len(order.fids) - 1
      BY OrderFields DEF OrderInv, Standing
    <3>2. Living(fighters) \subseteq dom
      BY DEF Living
    <3> HIDE DEF dom
    <3>3. /\ Len(order.fids) \in Nat /\ DOMAIN order.fids = 1 .. Len(order.fids)
          /\ order.fids \in [1 .. Len(order.fids) -> Nat]
      BY <3>1, SeqIsFunction
    <3>4. order.fids \in [1 .. Len(order.fids) -> dom]
      BY <3>1, <3>2, <3>3 DEF Range
    <3> QED BY <3>1, <3>3, <3>4, FunctionIsSeq
  <2>5. order.turn \in 1 .. MAX_TURNS + 1
    BY DEF FieldsInv, TurnsInv
  <2>6. pending_awakenings \in Seq(dom \X dom)
    BY DEF AwakeInv, Awake, Asleep
  <2>7. /\ awakening_plant \in {0} \cup dom /\ walk_result \in BOOLEAN
        /\ actor \in {0} \cup dom /\ calls \in 0 .. MaxCalls /\ call \in {"none", "walk", "other"}
    BY DEF FieldsInv, CallsInv
  <2>8. walk.fid \in {0} \cup dom
    BY DEF IInv, WalkInv, NoWalk
  <2>9. phase \in {"begin", "act", "drain", "plant", "over"}
    BY DEF IInv, LoopInv
  <2> QED BY <2>1, <2>2, <2>3, <2>4, <2>5, <2>6, <2>7, <2>8, <2>9, Zenon DEF TypeOK
<1> QED BY <1>1, Invariance, OrderInvariance, AwakeInvariance, FieldsInvariance, PTL
=============================================================================
