----------------------------- MODULE Emissions -----------------------------
(***************************************************************************)
(* The weight vectors of a round (scoring/emissions.py): mechanism 0 pays  *)
(* the champion and the survivors of the public screen, mechanism 1 the    *)
(* best of each specialist cell, and what neither gives out goes to the    *)
(* floor pool of everyone who passed a gate.                               *)
(*                                                                         *)
(* A vector is a number of parts for each hotkey and the number of parts   *)
(* of the whole, so that shares are exact.  Captures are in fifths of the  *)
(* reference speedup.  Ranks follow the product of 1 + capture, which      *)
(* orders as the geometric mean does; a share in proportion to held-out    *)
(* capture is exact for one hidden task.                                   *)
(***************************************************************************)
EXTENDS Integers, FiniteSets, Functions, FiniteSetsExt

CONSTANTS
  Digests,      \* artifacts
  Hotkeys,      \* miners
  Owner,        \* digest -> the hotkey that committed it this round
  Order,        \* digest -> place in a ranking of equal scores
  PublicTasks,
  HiddenTasks,
  Cells,        \* the specialist cells: the tasks of the round of each
  TopK,         \* SPEC.dethronement.specialist_top_k
  None          \* no champion; the hotkey of a champion that has none on record

Tasks == PublicTasks \cup HiddenTasks

(* The artifacts of a round are those in the slots of the miners' hotkeys, *)
(* which hold one each.                                                    *)
ASSUME MinersAssumption ==
  /\ IsFiniteSet(Digests) /\ IsFiniteSet(Hotkeys) /\ None \notin Digests \cup Hotkeys
  /\ Owner \in [Digests -> Hotkeys] /\ IsInjective(Owner)

ASSUME TasksAssumption ==
  /\ IsFiniteSet(Tasks)
  /\ IsFiniteSet(Cells) /\ Cells # {} /\ Cells \subseteq SUBSET Tasks
  /\ TopK \in Nat \ {0}

(* Outcome of a task: gates failed, or the capture. *)
Failed == -1
Unit == 5

capture(outcome) == IF outcome = Failed THEN 0 ELSE outcome

Product(f, S) == FoldFunctionOnSet(LAMBDA v, p : p * v, 1, f, S)

(* geometric_mean_of_one_plus, up to order. *)
Standing(agg, tasks) ==
  Product([t \in tasks |-> Unit + capture(agg[t])], tasks)
  - Product([t \in tasks |-> Unit], tasks)

(* Seeded fault: the survivors are ranked by what they could study. *)
held_out_public(agg) == Standing(agg, PublicTasks)

held_out_score(agg) == Standing(agg, HiddenTasks)

(* Tasks whose gates were all passed, of gate_pass_rate. *)
gates_passed(agg) == Cardinality({t \in DOMAIN agg : agg[t] # Failed})

(* More than 60 % of the public tasks, each at a quarter of the reference  *)
(* speedup or more.                                                        *)
screened(agg) ==
  LET passed == {t \in PublicTasks : agg[t] # Failed /\ 4 * capture(agg[t]) >= Unit}
  IN  5 * Cardinality(passed) > 3 * Cardinality(PublicTasks)

Survivors(aggs) == {d \in DOMAIN aggs : screened(aggs[d])}

(* ReliabilityRecord, in tenths and at least one of them (exact for 1, 2,  *)
(* 5 or 10 rounds on record); three failures end the eligibility.          *)
reliability(record) ==
  IF record.rounds = 0 THEN 1
  ELSE Max({(10 * (record.rounds - record.failures)) \div record.rounds, 1})

eligible(record) == record.failures < 3

-----------------------------------------------------------------------------
(***************************************************************************)
(* Vectors.                                                                *)
(***************************************************************************)

Nothing == [parts |-> [h \in Hotkeys |-> 0], of |-> 1]

(* A share of the whole, divided in proportion to values. *)
Split(share, of, values) ==
  IF share <= 0 \/ SumFunction(values) = 0 THEN Nothing
  ELSE [parts |-> [h \in Hotkeys |-> share * values[h]], of |-> of * SumFunction(values)]

Plus(u, v) ==
  LET whole == IF v.of % u.of = 0 THEN v.of ELSE u.of * v.of
  IN  [parts |-> [h \in Hotkeys |-> u.parts[h] * (whole \div u.of)
                                    + v.parts[h] * (whole \div v.of)],
       of |-> whole]

(* Values of artifacts, added up for each hotkey. *)
PerHotkey(values) ==
  [h \in Hotkeys |-> SumFunctionOnSet(values, {d \in DOMAIN values : Owner[d] = h})]

(* _normalise: the whole is what was given out; an empty vector stays empty. *)
Normalised(v) == [parts |-> v.parts, of |-> SumFunction(v.parts)]

-----------------------------------------------------------------------------
(***************************************************************************)
(* Shares.                                                                 *)
(***************************************************************************)

(* Gate passes weighted by reliability, of the artifacts still eligible. *)
floor_distribution(aggs, records, share, of) ==
  LET Qualified == {d \in DOMAIN aggs : eligible(records[d])}
  IN  Split(share, of,
            PerHotkey([d \in Qualified |-> gates_passed(aggs[d]) * reliability(records[d])]))

(* In proportion to held-out capture, or evenly while nobody has any. *)
held_out_distribution(aggs, others, share, of) ==
  LET earned == PerHotkey([d \in others |-> held_out_score(aggs[d])])
      evenly == [h \in Hotkeys |-> IF \E d \in others : Owner[d] = h THEN 1 ELSE 0]
  IN  Split(share, of, IF SumFunction(earned) > 0 THEN earned ELSE evenly)

(* Seeded fault: with no other survivor, the pool stays where it is. *)
pool_kept(aggs, records, others, share, of) ==
  held_out_distribution(aggs, others, share, of)

(* The survivors' pool, or the floor when there is no other survivor. *)
pool(aggs, records, others, share, of) ==
  IF others = {} THEN floor_distribution(aggs, records, share, of)
  ELSE held_out_distribution(aggs, others, share, of)

(* The hotkey on record, or the one that committed the digest this round. *)
champion_hotkey(champion) ==
  IF champion.hotkey # None \/ champion.digest = None THEN champion.hotkey
  ELSE Owner[champion.digest]

(* allocate_generalist: a champion that clears the screen takes 17/20 of   *)
(* its decay multiplier, which is in twentieths, and the pool the rest.    *)
allocate_generalist(aggs, records, champion) ==
  LET survivors == Survivors(aggs)
      paid == 17 * champion.decay
      crown == [parts |-> [h \in Hotkeys |-> IF h = champion_hotkey(champion) THEN paid ELSE 0],
                of |-> 400]
  IN  Normalised(
        IF survivors = {} THEN floor_distribution(aggs, records, 1, 1)
        ELSE IF champion.digest \in survivors
        THEN Plus(crown, pool(aggs, records, survivors \ {champion.digest},
                              400 - paid, 400))
        ELSE held_out_distribution(aggs, survivors, 1, 1))

(* select_specialist_top_k: rank of an artifact in a cell, from 0; only    *)
(* positive scores are paid.                                               *)
rank(aggs, cell, d) ==
  Cardinality({e \in DOMAIN aggs :
    \/ Standing(aggs[e], cell) > Standing(aggs[d], cell)
    \/ Standing(aggs[e], cell) = Standing(aggs[d], cell) /\ Order[e] < Order[d]})

top_k(aggs, cell) ==
  {d \in DOMAIN aggs : Standing(aggs[d], cell) > 0 /\ rank(aggs, cell, d) < TopK}

(* Each cell has an equal part of the specialists' five eighths, and rank  *)
(* i of it earns 0.8^i of what the first earns.                            *)
cell_distribution(aggs, cell) ==
  LET Decay(i) == Product([j \in 1 .. TopK - 1 |-> IF j <= i THEN 4 ELSE 5], 1 .. TopK - 1)
  IN  Split(5, 8 * Cardinality(Cells),
            PerHotkey([d \in top_k(aggs, cell) |-> Decay(rank(aggs, cell, d))]))

(* Seeded fault: what the cells leave is not given out. *)
specialist_unfloored(aggs, records) ==
  Normalised(FoldSet(LAMBDA cell, v : Plus(cell_distribution(aggs, cell), v), Nothing, Cells))

(* allocate_specialist_and_bounty, without bounties: forward awards none. *)
allocate_specialist(aggs, records) ==
  LET cells == FoldSet(LAMBDA cell, v : Plus(cell_distribution(aggs, cell), v),
                       Nothing, Cells)
  IN  Normalised(Plus(cells,
        floor_distribution(aggs, records, cells.of - SumFunction(cells.parts), cells.of)))

(* Both vectors, as forward computes them. *)
Allocation(round) ==
  [generalist |-> allocate_generalist(round.aggs, round.records, round.champion),
   specialist |-> allocate_specialist(round.aggs, round.records)]

-----------------------------------------------------------------------------
(***************************************************************************)
(* What the vectors promise, for a round and its allocation.               *)
(***************************************************************************)

(* Verified correct work of an artifact still eligible. *)
Works(round, d) ==
  /\ gates_passed(round.aggs[d]) > 0
  /\ eligible(round.records[d])

(* Nothing is burned: a round with any verified work of an eligible        *)
(* artifact, or any survivor of the screen, pays the generalist vector in  *)
(* full, and a round with such work the specialist vector.                 *)
AllocatesAll(round, vectors) ==
  LET worked == \E d \in DOMAIN round.aggs : Works(round, d)
  IN  /\ worked \/ Survivors(round.aggs) # {} => vectors.generalist.of > 0
      /\ worked => vectors.specialist.of > 0

(* The part of hotkey h is smaller in vector u than in v. *)
EarnsLess(u, v, h) == u.parts[h] * v.of < v.parts[h] * u.of

(* What a stagnant champion loses goes to someone else, if anyone else may *)
(* be paid at all, and does not come back to it by way of the floor.       *)
DecayBites(round, vectors, decays) ==
  LET c == round.champion
      Paid(d) == d \in Survivors(round.aggs) \/ Works(round, d)
  IN  /\ c.digest \in Survivors(round.aggs)
      /\ champion_hotkey(c) = Owner[c.digest]
      /\ \E d \in DOMAIN round.aggs \ {c.digest} : Paid(d)
      => \A decay \in decays : decay > c.decay =>
           EarnsLess(vectors.generalist,
                     allocate_generalist(round.aggs, round.records,
                                         [c EXCEPT !.decay = decay]),
                     champion_hotkey(c))

(* The pool ranks by what generalises: of two survivors without the crown, *)
(* the one with more held-out capture never earns less, and while there is *)
(* such a survivor, who failed the screen earns nothing.                   *)
PoolFollowsHeldOut(round, vectors) ==
  LET c == round.champion
      others == {d \in Survivors(round.aggs) : d # c.digest /\ Owner[d] # champion_hotkey(c)}
      Parts(d) == vectors.generalist.parts[Owner[d]]
  IN  \A d \in others :
        /\ \A e \in others :
             Standing(round.aggs[d], HiddenTasks) >= Standing(round.aggs[e], HiddenTasks)
               => Parts(d) >= Parts(e)
        /\ \A e \in DOMAIN round.aggs \ Survivors(round.aggs) :
             Owner[e] # champion_hotkey(c) => Parts(e) = 0

=============================================================================
