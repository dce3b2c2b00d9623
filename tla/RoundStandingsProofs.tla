------------------------- MODULE RoundStandingsProofs ------------------------
(***************************************************************************)
(* What a round's standings depend on, for any artifacts, tasks and void   *)
(* order.                                                                  *)
(*                                                                         *)
(* StandingsMatchVerdicts speaks of the end of the loop only.  The         *)
(* invariant behind it says what score_artifacts holds at every turn of    *)
(* the loop: a record for each verdict that left one on a task not voided  *)
(* yet (Kept).  PublishedPatchIsBest needs besides that the loop goes      *)
(* through the pairs in order (InOrder), so that a later equal never comes *)
(* first by digest.                                                        *)
(***************************************************************************)
EXTENDS RoundStandings, TLAPS

(* The ScoreArtifact verdict v leaves for pair p. *)
Record(p, v) ==
  [artifact |-> p[1], task |-> p[2], voided |-> v.kind = "error",
   passed |-> v.kind # "gate", score |-> v.score]

Recordable == {p \in Pairs : /\ p[2] \notin voided_tasks
                             /\ verdicts[p].kind \in {"error", "gate", "scored"}}

Kept == score_artifacts = {Record(p, verdicts[p]) : p \in Recordable}

UnvisitedUnseen == \A p \in todo : verdicts[p] = Unseen

OnlyScoredScore == \A p \in Pairs : verdicts[p].kind # "scored" => verdicts[p].score = 0

InOrder == \A q \in Pairs \ todo, p \in todo : Before(q, p)

(* Artifacts with a scored improvement on t. *)
Winners(t) == {a \in Artifacts : /\ verdicts[<<a, t>>].kind = "scored"
                                 /\ verdicts[<<a, t>>].score > 0}

(* a leads b on t. *)
Leads(a, b, t) ==
  \/ verdicts[<<b, t>>].score < verdicts[<<a, t>>].score
  \/ /\ verdicts[<<b, t>>].score = verdicts[<<a, t>>].score
     /\ DigestOrder[a] < DigestOrder[b]

BestOn(t) ==
  IF Winners(t) = {}
    THEN best_by_task[t] = NoPatch
    ELSE \E a \in Winners(t) :
           /\ best_by_task[t] = [artifact |-> a, score |-> verdicts[<<a, t>>].score]
           /\ \A b \in Winners(t) \ {a} : Leads(a, b, t)

BestKept == \A t \in Tasks \ voided_tasks : BestOn(t)

(* An open round is within the bound. *)
RoundCounted == phase # "preparing" => rounds < MaxRounds

IInv ==
  /\ TypeOK
  /\ Kept
  /\ UnvisitedUnseen
  /\ OnlyScoredScore
  /\ InOrder
  /\ BestKept
  /\ RecordsAddUp
  /\ RoundCounted

-----------------------------------------------------------------------------

LEMMA InitIInv == Init => IInv
<1> SUFFICES ASSUME Init PROVE IInv
  OBVIOUS
<1>1. verdicts = [p \in Pairs |-> Unseen] /\ todo = {} /\ score_artifacts = {}
  BY DEF Init
<1>2. Unseen \in Verdict /\ Unseen.kind = "unseen" /\ Unseen.score = 0
  BY DEF Unseen, Verdict, Kinds
<1>3. TypeOK
  BY <1>2, BoundAssumption DEF Init, TypeOK, NoHistory, ReliabilityRecord
<1>4. Recordable = {}
  BY <1>1, <1>2 DEF Recordable
<1>5. Kept
  BY <1>1, <1>4 DEF Kept
<1>6. UnvisitedUnseen /\ OnlyScoredScore /\ InOrder
  BY <1>1, <1>2 DEF UnvisitedUnseen, OnlyScoredScore, InOrder
<1>7. BestKept
  <2> SUFFICES ASSUME NEW t \in Tasks PROVE BestOn(t)
    BY DEF BestKept
  <2>1. Winners(t) = {}
    BY <1>1, <1>2 DEF Winners, Pairs
  <2> QED
    BY <2>1 DEF BestOn, Init
<1>8. RecordsAddUp
  BY DEF Init, RecordsAddUp, NoHistory
<1> QED
  BY <1>3, <1>5, <1>6, <1>7, <1>8 DEF IInv, RoundCounted, Init

(* Visiting a pair keeps what is said of the verdicts and of their order.  *)
LEMMA VisitKeepsOrder ==
  ASSUME IInv, NEW p \in Pairs, NEW v \in Verdict, Visit(p, v),
         v.kind # "scored" => v.score = 0
  PROVE  /\ p \in todo /\ verdicts[p] = Unseen
         /\ verdicts' \in [Pairs -> Verdict]
         /\ verdicts'[p] = v
         /\ \A q \in Pairs \ {p} : verdicts'[q] = verdicts[q]
         /\ todo' \in SUBSET Pairs
         /\ UnvisitedUnseen' /\ OnlyScoredScore' /\ InOrder'
<1>1. p \in todo /\ \A q \in todo : q # p => Before(p, q)
  BY DEF Visit, IsNextPair
<1>2. todo' = todo \ {p} /\ verdicts' = [verdicts EXCEPT ![p] = v]
  BY DEF Visit
<1>3. verdicts \in [Pairs -> Verdict] /\ todo \in SUBSET Pairs
  BY DEF IInv, TypeOK
<1>4. verdicts[p] = Unseen
  BY <1>1 DEF IInv, UnvisitedUnseen
<1>5. verdicts'[p] = v /\ \A q \in Pairs \ {p} : verdicts'[q] = verdicts[q]
  BY <1>2, <1>3
<1>6. UnvisitedUnseen'
  BY <1>2, <1>3, <1>5 DEF IInv, UnvisitedUnseen
<1>7. OnlyScoredScore'
  BY <1>5 DEF IInv, OnlyScoredScore
<1>8. InOrder'
  <2> SUFFICES ASSUME NEW q \in Pairs \ todo', NEW r \in todo' PROVE Before(q, r)
    BY DEF InOrder, Before
  <2>1. CASE q = p
    BY <2>1, <1>1, <1>2
  <2>2. CASE q # p
    BY <2>2, <1>2 DEF IInv, InOrder
  <2> QED
    BY <2>1, <2>2
<1> QED
  BY <1>1, <1>2, <1>3, <1>4, <1>5, <1>6, <1>7, <1>8

(* The best patches stand while no verdict that scored is added and no     *)
(* task comes back.                                                        *)
LEMMA BestUndisturbed ==
  ASSUME BestKept, verdicts \in [Pairs -> Verdict],
         NEW p \in Pairs, verdicts[p] = Unseen, verdicts'[p].kind # "scored",
         \A q \in Pairs \ {p} : verdicts'[q] = verdicts[q],
         best_by_task' = best_by_task, voided_tasks \subseteq voided_tasks'
  PROVE  BestKept'
<1> SUFFICES ASSUME NEW t \in Tasks, t \notin voided_tasks' PROVE BestOn(t)'
  BY DEF BestKept
<1>1. BestOn(t)
  BY DEF BestKept
<1>2. verdicts[p].kind # "scored"
  BY DEF Unseen
<1>3. \A a \in Artifacts : verdicts[<<a, t>>].kind = "scored" <=> verdicts'[<<a, t>>].kind = "scored"
  BY <1>2 DEF Pairs
<1>4. \A a \in Artifacts : verdicts[<<a, t>>].kind = "scored" => verdicts'[<<a, t>>] = verdicts[<<a, t>>]
  BY <1>2 DEF Pairs
<1>5. Winners(t)' = Winners(t) /\ \A a \in Winners(t) : verdicts'[<<a, t>>] = verdicts[<<a, t>>]
  BY <1>3, <1>4 DEF Winners
<1>6. \A a, b \in Winners(t) : Leads(a, b, t)' <=> Leads(a, b, t)
  BY <1>5 DEF Leads
<1> QED
  BY <1>1, <1>5, <1>6 DEF BestOn

(* A pair that leaves no record. *)
LEMMA KeptUndisturbed ==
  ASSUME Kept, verdicts \in [Pairs -> Verdict],
         NEW p \in Pairs, verdicts[p] = Unseen,
         verdicts'[p].kind \notin {"error", "gate", "scored"},
         \A q \in Pairs \ {p} : verdicts'[q] = verdicts[q],
         score_artifacts' = score_artifacts, voided_tasks' = voided_tasks
  PROVE  Kept'
<1>1. verdicts[p].kind \notin {"error", "gate", "scored"}
  BY DEF Unseen
<1>2. Recordable' = Recordable
  BY <1>1 DEF Recordable
<1>3. \A q \in Recordable : Record(q, verdicts'[q]) = Record(q, verdicts[q])
  BY <1>1 DEF Recordable
<1> QED
  BY <1>2, <1>3 DEF Kept

(* A pair that leaves one. *)
LEMMA KeptExtended ==
  ASSUME Kept, verdicts \in [Pairs -> Verdict],
         NEW p \in Pairs, verdicts[p] = Unseen, p[2] \notin voided_tasks,
         verdicts'[p].kind \in {"error", "gate", "scored"},
         \A q \in Pairs \ {p} : verdicts'[q] = verdicts[q],
         score_artifacts' = score_artifacts \cup {Record(p, verdicts'[p])},
         voided_tasks' = voided_tasks
  PROVE  Kept'
<1>1. verdicts[p].kind \notin {"error", "gate", "scored"}
  BY DEF Unseen
<1>2. Recordable' = Recordable \cup {p} /\ p \notin Recordable
  BY <1>1 DEF Recordable
<1>3. \A q \in Recordable : Record(q, verdicts'[q]) = Record(q, verdicts[q])
  BY <1>1 DEF Recordable
<1> QED
  BY <1>2, <1>3 DEF Kept

(* A task voided in the loop takes its records with it. *)
LEMMA KeptVoided ==
  ASSUME Kept, verdicts \in [Pairs -> Verdict],
         NEW p \in Pairs, verdicts[p] = Unseen,
         \A q \in Pairs \ {p} : verdicts'[q] = verdicts[q],
         score_artifacts' = {s \in score_artifacts : s.task # p[2]},
         voided_tasks' = voided_tasks \cup {p[2]}
  PROVE  Kept'
<1>1. Recordable' = {q \in Recordable : q[2] # p[2]}
  BY DEF Recordable
<1>2. \A q \in Recordable : Record(q, verdicts[q]).task = q[2]
  BY DEF Record
<1>3. \A q \in Recordable' : Record(q, verdicts'[q]) = Record(q, verdicts[q])
  BY <1>1 DEF Recordable
<1>4. score_artifacts' = {Record(q, verdicts[q]) : q \in Recordable'}
  BY <1>1, <1>2 DEF Kept
<1> QED
  BY <1>3, <1>4 DEF Kept

(* A scored pair: its patch replaces the best of its task only if better.  *)
LEMMA BestUpdated ==
  ASSUME IInv, NEW p \in Pairs, NEW score \in Scores, Score(p, score), InOrder
  PROVE  BestKept'
<1> DEFINE v == [kind |-> "scored", score |-> score]
<1>1. v \in Verdict /\ v.kind = "scored" /\ v.score = score
  BY DEF Verdict, Kinds
<1>2. Visit(p, v)
  BY DEF Score
<1>3. /\ p \in todo /\ verdicts[p] = Unseen /\ verdicts'[p] = v
      /\ \A q \in Pairs \ {p} : verdicts'[q] = verdicts[q]
  BY <1>1, <1>2, VisitKeepsOrder
<1>4. voided_tasks' = voided_tasks
  BY DEF Score
<1>5. p = <<p[1], p[2]>> /\ p[1] \in Artifacts /\ p[2] \in Tasks
  BY DEF Pairs
<1> SUFFICES ASSUME NEW t \in Tasks, t \notin voided_tasks PROVE BestOn(t)'
  BY <1>4 DEF BestKept
<1>6. BestOn(t)
  BY DEF IInv, BestKept
<1>7. best_by_task \in [Tasks -> Best \cup {NoPatch}]
  BY DEF IInv, TypeOK
<1>8. CASE t # p[2]
  <2>1. \A a \in Artifacts : verdicts'[<<a, t>>] = verdicts[<<a, t>>]
    BY <1>3, <1>5, <1>8 DEF Pairs
  <2>2. Winners(t)' = Winners(t) /\ \A a, b \in Winners(t) : Leads(a, b, t)' <=> Leads(a, b, t)
    BY <2>1 DEF Winners, Leads
  <2>3. \A a \in Winners(t) : verdicts'[<<a, t>>] = verdicts[<<a, t>>]
    BY <2>1 DEF Winners
  <2>4. best_by_task'[t] = best_by_task[t]
    BY <1>5, <1>7, <1>8 DEF Score
  <2> QED
    BY <1>6, <2>2, <2>3, <2>4 DEF BestOn
<1>9. CASE t = p[2]
  <2> DEFINE w == p[1]
  <2>1. w \in Artifacts /\ p = <<w, t>> /\ verdicts'[<<w, t>>] = v /\ verdicts[<<w, t>>] = Unseen
    BY <1>3, <1>5, <1>9
  <2>2. \A a \in Artifacts \ {w} : verdicts'[<<a, t>>] = verdicts[<<a, t>>]
    BY <1>3, <2>1 DEF Pairs
  <2>3. w \notin Winners(t)
    BY <2>1 DEF Winners, Unseen
  <2>4. Winners(t)' = IF score > 0 THEN Winners(t) \cup {w} ELSE Winners(t)
    BY <1>1, <2>1, <2>2, <2>3 DEF Winners
  <2>5. \A a \in Winners(t) : a # w /\ verdicts'[<<a, t>>] = verdicts[<<a, t>>]
    BY <2>2, <2>3 DEF Winners
  <2>6. \A a, b \in Winners(t) : Leads(a, b, t)' <=> Leads(a, b, t)
    BY <2>5 DEF Leads
  <2>7. \A a \in Winners(t) : DigestOrder[a] < DigestOrder[w]
    <3> SUFFICES ASSUME NEW a \in Winners(t) PROVE DigestOrder[a] < DigestOrder[w]
      OBVIOUS
    <3>1. <<a, t>> \in Pairs /\ <<a, t>> \notin todo
      BY DEF Winners, Pairs, IInv, UnvisitedUnseen, Unseen
    <3>2. Before(<<a, t>>, <<w, t>>)
      BY <1>3, <2>1, <3>1 DEF InOrder, IInv
    <3> QED
      BY <3>2, OrderAssumption DEF Before
  <2>8. score \in Nat /\ \A a \in Winners(t) : verdicts[<<a, t>>].score \in Nat
    <3>1. \A a \in Winners(t) : verdicts[<<a, t>>] \in Verdict
      BY DEF IInv, TypeOK, Winners, Pairs
    <3>2. \A a \in Winners(t) : verdicts[<<a, t>>].score \in Scores \cup {0}
      BY <3>1 DEF Verdict
    <3>3. Scores \cup {0} \subseteq Nat /\ score \in Scores
      BY ScoreAssumption
    <3> QED
      BY <3>2, <3>3
  <2>9. CASE Winners(t) = {}
    <3>1. best_by_task[t] = NoPatch
      BY <1>6, <2>9 DEF BestOn
    <3>2. CASE score > 0
      <4>1. best_by_task'[t] = [artifact |-> w, score |-> score] /\ Winners(t)' = {w}
        BY <1>7, <1>9, <2>4, <2>9, <3>1, <3>2 DEF Score, Beats
      <4> QED
        BY <4>1, <2>1, <1>1 DEF BestOn
    <3>3. CASE ~(score > 0)
      <4>1. best_by_task'[t] = best_by_task[t] /\ Winners(t)' = {}
        BY <1>9, <2>4, <2>9, <3>3 DEF Score, Beats
      <4> QED
        BY <4>1, <3>1 DEF BestOn
    <3> QED
      BY <3>2, <3>3
  <2>10. CASE Winners(t) # {}
    <3>1. PICK a \in Winners(t) :
            /\ best_by_task[t] = [artifact |-> a, score |-> verdicts[<<a, t>>].score]
            /\ \A b \in Winners(t) \ {a} : Leads(a, b, t)
      BY <1>6, <2>10 DEF BestOn
    <3>2. best_by_task[t] # NoPatch /\ best_by_task[t].score = verdicts[<<a, t>>].score
      <4>1. verdicts[<<a, t>>] \in Verdict /\ verdicts[<<a, t>>].score > 0
        BY DEF IInv, TypeOK, Winners, Pairs
      <4>2. verdicts[<<a, t>>].score \in Scores /\ a \in Artifacts
        BY <4>1 DEF Verdict, Winners
      <4>3. best_by_task[t] \in Best
        BY <4>2, <3>1 DEF Best
      <4> QED
        BY <4>3, <3>1, NoPatchAssumption
    <3>3. CASE score > verdicts[<<a, t>>].score
      <4>1. score > 0
        BY <3>3, <2>8 DEF Winners
      <4>2. best_by_task'[t] = [artifact |-> w, score |-> score]
        BY <1>7, <1>9, <3>2, <3>3, <4>1 DEF Score, Beats
      <4>3. \A b \in Winners(t) : verdicts[<<b, t>>].score < score
        BY <3>1, <3>3, <2>8 DEF Leads
      <4>4. w \in Winners(t)' /\ Winners(t)' \ {w} = Winners(t)
        BY <2>3, <2>4, <4>1
      <4>5. \A b \in Winners(t)' \ {w} : Leads(w, b, t)'
        BY <4>3, <4>4, <2>1, <2>5, <1>1 DEF Leads
      <4> QED
        BY <4>2, <4>4, <4>5, <2>1, <1>1 DEF BestOn
    <3>4. CASE ~(score > verdicts[<<a, t>>].score)
      <4>1. best_by_task'[t] = best_by_task[t]
        BY <1>9, <3>2, <3>4 DEF Score, Beats
      <4>2. a \in Winners(t)' /\ verdicts'[<<a, t>>] = verdicts[<<a, t>>]
        BY <2>4, <2>5
      <4>3. \A b \in Winners(t) \ {a} : Leads(a, b, t)'
        BY <3>1, <2>6
      <4>4. score > 0 => Leads(a, w, t)'
        BY <4>2, <3>4, <2>1, <2>7, <2>8, <1>1 DEF Leads
      <4>5. \A b \in Winners(t)' \ {a} : Leads(a, b, t)'
        BY <2>4, <4>3, <4>4
      <4> QED
        BY <4>1, <4>2, <4>5, <3>1 DEF BestOn
    <3> QED
      BY <3>3, <3>4
  <2> QED
    BY <2>9, <2>10
<1> QED
  BY <1>8, <1>9

-----------------------------------------------------------------------------
(***************************************************************************)
(* The invariant is kept.                                                  *)
(***************************************************************************)

LEMMA PrepareKeepsIInv ==
  ASSUME IInv, NEW unpreparable \in SUBSET Tasks, Prepare(unpreparable)
  PROVE  IInv'
<1>1. verdicts' = [p \in Pairs |-> Unseen] /\ todo' = Pairs /\ score_artifacts' = {}
  BY DEF Prepare
<1>2. Unseen \in Verdict /\ Unseen.kind = "unseen" /\ Unseen.score = 0
  BY DEF Unseen, Verdict, Kinds
<1>3. TypeOK'
  BY <1>2 DEF IInv, TypeOK, Prepare
<1>4. Recordable' = {}
  BY <1>1, <1>2 DEF Recordable
<1>5. Kept'
  BY <1>1, <1>4 DEF Kept
<1>6. UnvisitedUnseen' /\ OnlyScoredScore' /\ InOrder'
  BY <1>1, <1>2 DEF UnvisitedUnseen, OnlyScoredScore, InOrder
<1>7. BestKept'
  <2> SUFFICES ASSUME NEW t \in Tasks PROVE BestOn(t)'
    BY DEF BestKept
  <2>1. Winners(t)' = {}
    BY <1>1, <1>2 DEF Winners, Pairs
  <2> QED
    BY <2>1 DEF BestOn, Prepare
<1>8. RecordsAddUp' /\ RoundCounted'
  BY DEF Prepare, IInv, RecordsAddUp, RoundCounted
<1> QED
  BY <1>3, <1>5, <1>6, <1>7, <1>8 DEF IInv

LEMMA VisitPairKeepsIInv ==
  ASSUME IInv, NEW p \in Pairs, VisitPair(p)
  PROVE  IInv'
<1>1. verdicts \in [Pairs -> Verdict] /\ p[1] \in Artifacts /\ p[2] \in Tasks
  BY DEF IInv, TypeOK, Pairs
<1>2. ASSUME NEW v \in Verdict, Visit(p, v) PROVE RecordsAddUp' /\ RoundCounted'
  BY <1>2 DEF Visit, IInv, RecordsAddUp, RoundCounted
<1>3. ASSUME NEW kind \in {"refused", "empty"}, NoPatchProduced(p, kind)
      PROVE  IInv'
  <2> DEFINE v == [kind |-> kind, score |-> 0]
  <2>1. v \in Verdict /\ v.kind = kind /\ v.score = 0 /\ Visit(p, v)
    BY <1>3 DEF Verdict, Kinds, NoPatchProduced
  <2>2. UNCHANGED result
    BY <1>3 DEF NoPatchProduced
  <2>3. TypeOK'
    BY <2>1, <2>2, VisitKeepsOrder DEF Visit, IInv, TypeOK, result
  <2>4. Kept'
    BY <1>1, <2>1, <2>2, VisitKeepsOrder, KeptUndisturbed DEF IInv, result
  <2>5. BestKept'
    BY <1>1, <2>1, <2>2, VisitKeepsOrder, BestUndisturbed DEF IInv, result
  <2> QED
    BY <1>2, <2>1, <2>3, <2>4, <2>5, VisitKeepsOrder DEF IInv
<1>4. CASE SkipVoided(p)
  <2>1. Unseen \in Verdict /\ Unseen.kind = "unseen" /\ Unseen.score = 0 /\ Visit(p, Unseen)
    BY <1>4 DEF Unseen, Verdict, Kinds, SkipVoided
  <2>2. UNCHANGED result
    BY <1>4 DEF SkipVoided
  <2>3. TypeOK'
    BY <2>1, <2>2, VisitKeepsOrder DEF Visit, IInv, TypeOK, result
  <2>4. Kept'
    BY <1>1, <2>1, <2>2, VisitKeepsOrder, KeptUndisturbed DEF IInv, result
  <2>5. BestKept'
    BY <1>1, <2>1, <2>2, VisitKeepsOrder, BestUndisturbed DEF IInv, result
  <2> QED
    BY <1>2, <2>1, <2>3, <2>4, <2>5, VisitKeepsOrder DEF IInv
<1>5. CASE VoidTask(p)
  <2> DEFINE v == [kind |-> "void", score |-> 0]
  <2>1. v \in Verdict /\ v.kind = "void" /\ v.score = 0 /\ Visit(p, v)
    BY <1>5 DEF Verdict, Kinds, VoidTask
  <2>2. /\ voided_tasks' = voided_tasks \cup {p[2]}
        /\ score_artifacts' = {s \in score_artifacts : s.task # p[2]}
        /\ best_by_task' = best_by_task
    BY <1>5 DEF VoidTask
  <2>3. TypeOK'
    BY <1>1, <2>1, <2>2, VisitKeepsOrder DEF Visit, IInv, TypeOK
  <2>4. Kept'
    BY <1>1, <2>1, <2>2, VisitKeepsOrder, KeptVoided DEF IInv
  <2>5. BestKept'
    BY <1>1, <2>1, <2>2, VisitKeepsOrder, BestUndisturbed DEF IInv
  <2> QED
    BY <1>2, <2>1, <2>3, <2>4, <2>5, VisitKeepsOrder DEF IInv
<1>6. CASE EvaluationError(p)
  <2> DEFINE v == [kind |-> "error", score |-> 0]
  <2>1. v \in Verdict /\ v.kind = "error" /\ v.score = 0 /\ Visit(p, v)
    BY <1>6 DEF Verdict, Kinds, EvaluationError
  <2>2. /\ score_artifacts' = score_artifacts \cup {Record(p, v)}
        /\ Record(p, v) \in ScoreArtifact
    BY <1>1, <1>6 DEF EvaluationError, Record, ScoreArtifact
  <2>3. voided_tasks' = voided_tasks /\ best_by_task' = best_by_task /\ p[2] \notin voided_tasks
    BY <1>6 DEF EvaluationError
  <2>4. TypeOK'
    BY <2>1, <2>2, <2>3, VisitKeepsOrder DEF Visit, IInv, TypeOK
  <2>5. Kept'
    BY <1>1, <2>1, <2>2, <2>3, VisitKeepsOrder, KeptExtended DEF IInv
  <2>6. BestKept'
    BY <1>1, <2>1, <2>3, VisitKeepsOrder, BestUndisturbed DEF IInv
  <2> QED
    BY <1>2, <2>1, <2>4, <2>5, <2>6, VisitKeepsOrder DEF IInv
<1>7. CASE GateFailure(p)
  <2> DEFINE v == [kind |-> "gate", score |-> 0]
  <2>1. v \in Verdict /\ v.kind = "gate" /\ v.score = 0 /\ Visit(p, v)
    BY <1>7 DEF Verdict, Kinds, GateFailure
  <2>2. /\ score_artifacts' = score_artifacts \cup {Record(p, v)}
        /\ Record(p, v) \in ScoreArtifact
    BY <1>1, <1>7 DEF GateFailure, Record, ScoreArtifact
  <2>3. voided_tasks' = voided_tasks /\ best_by_task' = best_by_task /\ p[2] \notin voided_tasks
    BY <1>7 DEF GateFailure
  <2>4. TypeOK'
    BY <2>1, <2>2, <2>3, VisitKeepsOrder DEF Visit, IInv, TypeOK
  <2>5. Kept'
    BY <1>1, <2>1, <2>2, <2>3, VisitKeepsOrder, KeptExtended DEF IInv
  <2>6. BestKept'
    BY <1>1, <2>1, <2>3, VisitKeepsOrder, BestUndisturbed DEF IInv
  <2> QED
    BY <1>2, <2>1, <2>4, <2>5, <2>6, VisitKeepsOrder DEF IInv
<1>8. ASSUME NEW score \in Scores, Score(p, score)
      PROVE  IInv'
  <2> DEFINE v == [kind |-> "scored", score |-> score]
  <2>1. v \in Verdict /\ v.kind = "scored" /\ v.score = score /\ Visit(p, v)
    BY <1>8 DEF Verdict, Kinds, Score
  <2>2. /\ score_artifacts' = score_artifacts \cup {Record(p, v)}
        /\ Record(p, v) \in ScoreArtifact
    BY <1>1, <1>8 DEF Score, Record, ScoreArtifact
  <2>3. voided_tasks' = voided_tasks /\ p[2] \notin voided_tasks
    BY <1>8 DEF Score
  <2>4. best_by_task' \in [Tasks -> Best \cup {NoPatch}]
    <3>1. [artifact |-> p[1], score |-> score] \in Best
      BY <1>1 DEF Best
    <3> QED
      BY <1>8, <3>1 DEF Score, IInv, TypeOK
  <2>5. TypeOK'
    BY <2>1, <2>2, <2>3, <2>4, VisitKeepsOrder DEF Visit, IInv, TypeOK
  <2>6. Kept'
    BY <1>1, <2>1, <2>2, <2>3, VisitKeepsOrder, KeptExtended DEF IInv
  <2>7. BestKept'
    BY <1>8, BestUpdated DEF IInv
  <2> QED
    BY <1>2, <2>1, <2>5, <2>6, <2>7, VisitKeepsOrder DEF IInv
<1> QED
  BY <1>3, <1>4, <1>5, <1>6, <1>7, <1>8 DEF VisitPair

(* A step that leaves the verdicts and the records alone. *)
LEMMA VerdictsStand ==
  ASSUME Kept, UnvisitedUnseen, OnlyScoredScore, InOrder, BestKept,
         todo' = todo, voided_tasks' = voided_tasks, verdicts' = verdicts,
         score_artifacts' = score_artifacts, best_by_task' = best_by_task
  PROVE  Kept' /\ UnvisitedUnseen' /\ OnlyScoredScore' /\ InOrder' /\ BestKept'
<1>1. Kept' /\ UnvisitedUnseen' /\ OnlyScoredScore' /\ InOrder'
  BY DEF Kept, Recordable, UnvisitedUnseen, OnlyScoredScore, InOrder
<1>2. \A t \in Tasks : BestOn(t)' <=> BestOn(t)
  BY DEF BestOn, Winners, Leads
<1> QED
  BY <1>1, <1>2 DEF BestKept

(* A round closed adds one to what a record participated in, and one to    *)
(* its failures or to its clean rounds.                                    *)
LEMMA RecordRoundKeepsIInv ==
  ASSUME IInv, RecordRound, rounds < MaxRounds
  PROVE  IInv'
<1>1. \A a \in Artifacts : Recorded(a) \in ReliabilityRecord
  BY DEF IInv, TypeOK, Recorded, ReliabilityRecord
<1>2. TypeOK'
  BY <1>1, BoundAssumption DEF IInv, TypeOK, RecordRound, result
<1>3. RecordsAddUp'
  <2> SUFFICES ASSUME NEW a \in Artifacts
               PROVE  /\ reliability'[a].correctness_failures
                          + reliability'[a].consecutive_clean_rounds
                            <= reliability'[a].rounds_participated
                      /\ reliability'[a].rounds_participated <= rounds'
    BY DEF RecordsAddUp
  <2>1. reliability[a] \in ReliabilityRecord /\ rounds \in Nat /\ rounds' = rounds + 1
    BY BoundAssumption DEF IInv, TypeOK, RecordRound
  <2>2. /\ reliability[a].correctness_failures + reliability[a].consecutive_clean_rounds
             <= reliability[a].rounds_participated
        /\ reliability[a].rounds_participated <= rounds
    BY DEF IInv, RecordsAddUp
  <2>3. reliability'[a] = Recorded(a) \/ reliability'[a] = reliability[a]
    BY DEF RecordRound
  <2>4. CASE reliability'[a] = reliability[a]
    BY <2>1, <2>2, <2>4 DEF ReliabilityRecord
  <2>5. CASE reliability'[a] = Recorded(a)
    BY <2>1, <2>2, <2>5 DEF ReliabilityRecord, Recorded
  <2> QED
    BY <2>3, <2>4, <2>5
<1>4. UNCHANGED <<todo, result, verdicts>> /\ RoundCounted'
  BY DEF RecordRound, RoundCounted
<1>5. Kept' /\ UnvisitedUnseen' /\ OnlyScoredScore' /\ InOrder' /\ BestKept'
  BY <1>4, VerdictsStand DEF IInv, result
<1> QED
  BY <1>2, <1>3, <1>4, <1>5 DEF IInv

LEMMA NextKeepsIInv == IInv /\ [Next]_vars => IInv'
<1> SUFFICES ASSUME IInv, [Next]_vars PROVE IInv'
  OBVIOUS
<1>1. ASSUME NEW unpreparable \in SUBSET Tasks, Prepare(unpreparable) PROVE IInv'
  BY <1>1, PrepareKeepsIInv
<1>2. ASSUME NEW p \in Pairs, VisitPair(p) PROVE IInv'
  BY <1>2, VisitPairKeepsIInv
<1>3. CASE FinishVerify
  <2>1. UNCHANGED <<todo, result, verdicts>>
    BY <1>3 DEF FinishVerify
  <2>2. Kept' /\ UnvisitedUnseen' /\ OnlyScoredScore' /\ InOrder' /\ BestKept'
    BY <2>1, VerdictsStand DEF IInv, result
  <2>3. TypeOK' /\ RecordsAddUp' /\ RoundCounted'
    BY <1>3 DEF FinishVerify, IInv, TypeOK, RecordsAddUp, RoundCounted, result
  <2> QED
    BY <2>2, <2>3 DEF IInv
<1>4. CASE RecordRound
  BY <1>4, RecordRoundKeepsIInv DEF IInv, RoundCounted, RecordRound
<1>5. CASE UNCHANGED vars
  <2>1. UNCHANGED <<phase, todo, result, reliability, rounds, verdicts>>
    BY <1>5 DEF vars
  <2>2. Kept' /\ UnvisitedUnseen' /\ OnlyScoredScore' /\ InOrder' /\ BestKept'
    BY <2>1, VerdictsStand DEF IInv, result
  <2>3. TypeOK' /\ RecordsAddUp' /\ RoundCounted'
    BY <2>1 DEF IInv, TypeOK, RecordsAddUp, RoundCounted, result
  <2> QED
    BY <2>2, <2>3 DEF IInv
<1> QED
  BY <1>1, <1>2, <1>3, <1>4, <1>5 DEF Next

-----------------------------------------------------------------------------
(***************************************************************************)
(* What the invariant says of standings, patches and records.              *)
(***************************************************************************)

(* The records the aggregator sees for a pair are those of its verdict.    *)
LEMMA RecordOfVerdict ==
  ASSUME TypeOK, Kept, NEW a \in Artifacts, NEW t \in Active
  PROVE  /\ ByPair(a, t) = IF verdicts[<<a, t>>].kind \in {"gate", "scored"}
                             THEN {Record(<<a, t>>, verdicts[<<a, t>>])}
                             ELSE {}
<1> DEFINE v == verdicts[<<a, t>>]
<1>1. t \in Tasks /\ t \notin voided_tasks /\ <<a, t>> \in Pairs
  BY DEF Active, Pairs
<1>2. ASSUME NEW s \in ByPair(a, t)
      PROVE  s = Record(<<a, t>>, v) /\ v.kind \in {"gate", "scored"}
  <2>1. s \in score_artifacts /\ s.artifact = a /\ s.task = t /\ ~s.voided
    BY <1>2 DEF ByPair
  <2>2. PICK p \in Recordable : s = Record(p, verdicts[p])
    BY <2>1 DEF Kept
  <2>3. p = <<a, t>>
    BY <2>1, <2>2 DEF Recordable, Pairs, Record
  <2> QED
    BY <2>1, <2>2, <2>3 DEF Recordable, Record
<1>3. ASSUME v.kind \in {"gate", "scored"}
      PROVE  Record(<<a, t>>, v) \in ByPair(a, t)
  <2>1. <<a, t>> \in Recordable
    BY <1>1, <1>3 DEF Recordable
  <2>2. Record(<<a, t>>, v) \in score_artifacts
    BY <2>1 DEF Kept
  <2>3. ~Record(<<a, t>>, v).voided
    BY <1>3 DEF Record
  <2> QED
    BY <1>1, <2>2, <2>3 DEF ByPair, Record
<1> QED
  BY <1>2, <1>3

LEMMA OutcomeOfVerdict ==
  ASSUME TypeOK, Kept, OnlyScoredScore, NEW a \in Artifacts, NEW t \in Active
  PROVE  /\ ByPair(a, t) # {} <=> verdicts[<<a, t>>].kind \in {"gate", "scored"}
         /\ gates_passed(a, t) <=> verdicts[<<a, t>>].kind = "scored"
         /\ OutcomeScore(a, t) = verdicts[<<a, t>>].score
<1> DEFINE v == verdicts[<<a, t>>]
           r == Record(<<a, t>>, v)
<1>1. r.passed = (v.kind # "gate") /\ r.score = v.score
  BY DEF Record
<1>2. CASE v.kind \in {"gate", "scored"}
  <2>1. ByPair(a, t) = {r}
    BY <1>2, RecordOfVerdict
  <2>2. gates_passed(a, t) <=> v.kind = "scored"
    BY <1>1, <1>2, <2>1 DEF gates_passed
  <2>3. (CHOOSE s \in ByPair(a, t) : TRUE) = r
    BY <2>1
  <2>4. v.kind # "scored" => v.score = 0
    BY DEF OnlyScoredScore, Active, Pairs
  <2>5. OutcomeScore(a, t) = v.score
    BY <1>1, <2>2, <2>3, <2>4 DEF OutcomeScore
  <2> QED
    BY <1>2, <2>1, <2>2, <2>5
<1>3. CASE v.kind \notin {"gate", "scored"}
  <2>1. ByPair(a, t) = {}
    BY <1>3, RecordOfVerdict
  <2>2. v.score = 0
    BY <1>3 DEF OnlyScoredScore, Active, Pairs
  <2> QED
    BY <1>3, <2>1, <2>2 DEF gates_passed, OutcomeScore
<1> QED
  BY <1>2, <1>3

LEMMA AggregatedAreMeasured ==
  ASSUME TypeOK, Kept, OnlyScoredScore
  PROVE  Aggregated = {b \in Artifacts : Measured(b) # {}}
<1>1. ASSUME NEW a \in Artifacts, NEW t \in Tasks, ByPair(a, t) # {}
      PROVE  t \in Measured(a)
  <2>1. t \in Active
    BY <1>1 DEF ByPair, Active
  <2> QED
    BY <1>1, <2>1, OutcomeOfVerdict DEF Measured
<1>2. ASSUME NEW a \in Artifacts, NEW t \in Measured(a)
      PROVE  t \in Tasks /\ ByPair(a, t) # {}
  BY OutcomeOfVerdict DEF Measured, Active
<1> QED
  BY <1>1, <1>2 DEF Aggregated

LEMMA InvariantGivesStandings == IInv => StandingsMatchVerdicts
<1> SUFFICES ASSUME IInv PROVE aggregate = Standings
  BY DEF StandingsMatchVerdicts
<1>1. TypeOK /\ Kept /\ OnlyScoredScore
  BY DEF IInv
<1>2. Aggregated = {b \in Artifacts : Measured(b) # {}}
  BY <1>1, AggregatedAreMeasured
<1>3. \A a \in Aggregated :
        [t \in Active |-> OutcomeScore(a, t)] = [t \in Active |-> verdicts[<<a, t>>].score]
  BY <1>1, OutcomeOfVerdict DEF Aggregated
<1> QED
  BY <1>2, <1>3 DEF aggregate, Standings

LEMMA InvariantGivesPublishedPatch == IInv => PublishedPatchIsBest
<1> SUFFICES ASSUME IInv, NEW t \in Tasks
             PROVE  IF t \in Hidden \/ t \in voided_tasks \/ Winners(t) = {}
                      THEN accepted_patches[t] = NoPatch
                      ELSE \E a \in Winners(t) :
                             /\ accepted_patches[t] =
                                  [artifact |-> a, score |-> verdicts[<<a, t>>].score]
                             /\ \A b \in Winners(t) \ {a} : Leads(a, b, t)
  BY DEF PublishedPatchIsBest, Winners, Leads
<1>1. t \notin voided_tasks => BestOn(t)
  BY DEF IInv, BestKept
<1> QED
  BY <1>1 DEF BestOn, accepted_patches

LEMMA CleanOnWhatIsLeft ==
  ASSUME IInv, RecordRound, NEW a \in Artifacts, Active # {},
         \A t \in Active : verdicts[<<a, t>>].kind = "scored"
  PROVE  reliability'[a] =
           [rounds_participated      |-> reliability[a].rounds_participated + 1,
            correctness_failures     |-> reliability[a].correctness_failures,
            consecutive_clean_rounds |-> reliability[a].consecutive_clean_rounds + 1]
<1>1. TypeOK /\ Kept /\ OnlyScoredScore
  BY DEF IInv
<1>2. \A t \in Active : gates_passed(a, t)
  BY <1>1, OutcomeOfVerdict
<1>3. ~Failed(a)
  BY <1>2 DEF Failed
<1>4. a \in Aggregated
  BY <1>2 DEF Aggregated, gates_passed, Active
<1>5. reliability'[a] = Recorded(a) /\ reliability[a].correctness_failures \in Nat
  BY <1>1, <1>4 DEF RecordRound, TypeOK, ReliabilityRecord
<1> QED
  BY <1>3, <1>5 DEF Recorded

(* Every variable of a round keeps its type. *)
THEOREM RoundTypeCorrect == Spec => []TypeOK
<1>1. IInv => TypeOK
  BY DEF IInv
<1> QED
  BY <1>1, InitIInv, NextKeepsIInv, PTL DEF Spec

(* Standings depend on the verdicts of a round, and not on when in the     *)
(* loop a task was voided.                                                 *)
THEOREM StandingsAreOrderFree == Spec => []StandingsMatchVerdicts
  BY InitIInv, NextKeepsIInv, InvariantGivesStandings, PTL DEF Spec

(* The bundle publishes the best patch of every public task that stood.    *)
THEOREM BestPatchIsPublished == Spec => []PublishedPatchIsBest
  BY InitIInv, NextKeepsIInv, InvariantGivesPublishedPatch, PTL DEF Spec

(* A clean rate is a rate. *)
THEOREM RecordsCountRoundsOnce == Spec => []RecordsAddUp
<1>1. IInv => RecordsAddUp
  BY DEF IInv
<1> QED
  BY <1>1, InitIInv, NextKeepsIInv, PTL DEF Spec

(* A voided task costs nobody anything, in any round. *)
THEOREM VoidsPenaliseNobody == Spec => VoidIsNobodysPenalty
<1> DEFINE Clean ==
      \A a \in Artifacts :
        (/\ rounds' = rounds + 1
         /\ Active # {}
         /\ \A t \in Active : verdicts[<<a, t>>].kind = "scored")
        => reliability'[a] =
             [rounds_participated      |-> reliability[a].rounds_participated + 1,
              correctness_failures     |-> reliability[a].correctness_failures,
              consecutive_clean_rounds |-> reliability[a].consecutive_clean_rounds + 1]
<1>1. ASSUME IInv, [Next]_vars PROVE [Clean]_vars
  <2>1. rounds \in Int
    BY <1>1, BoundAssumption DEF IInv, TypeOK
  <2>2. CASE RecordRound
    BY <1>1, <2>2, CleanOnWhatIsLeft
  <2>3. CASE \E unpreparable \in SUBSET Tasks : Prepare(unpreparable)
    BY <2>1, <2>3 DEF Prepare
  <2>4. CASE \E p \in Pairs : VisitPair(p)
    <3>1. ASSUME NEW p \in Pairs, NEW v, Visit(p, v) PROVE rounds' = rounds
      BY <3>1 DEF Visit
    <3>2. PICK p \in Pairs : VisitPair(p)
      BY <2>4
    <3>3. rounds' = rounds
      BY <3>1, <3>2 DEF VisitPair, NoPatchProduced, SkipVoided, VoidTask, EvaluationError,
         GateFailure, Score
    <3> QED
      BY <2>1, <3>3
  <2>5. CASE FinishVerify
    BY <2>1, <2>5 DEF FinishVerify
  <2>6. CASE UNCHANGED vars
    BY <2>6
  <2> QED
    BY <1>1, <2>2, <2>3, <2>4, <2>5, <2>6 DEF Next
<1>2. VoidIsNobodysPenalty <=> [][Clean]_vars
  BY DEF VoidIsNobodysPenalty
<1> QED
  BY <1>1, <1>2, InitIInv, NextKeepsIInv, PTL DEF Spec

=============================================================================
