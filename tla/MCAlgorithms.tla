---------------------------- MODULE MCAlgorithms ----------------------------
(***************************************************************************)
(* Algorithms for TLC: the inputs of each computation.                     *)
(***************************************************************************)
EXTENDS Algorithms

CONSTANTS d1, d2, d3, k1, k2, k3, t1, t2, f1, f2

-----------------------------------------------------------------------------
(* Task plans: three public packages and two held out, drawn two and one.  *)

Package(id, hidden, weights) == [id |-> id, hidden |-> hidden, weights |-> weights]

p1 == Package(1, FALSE, <<1, 2>>)
p2 == Package(2, TRUE, <<3>>)
p3 == Package(3, FALSE, <<2, 0, 4>>)
p4 == Package(4, FALSE, <<1, 1>>)
p5 == Package(5, TRUE, <<1, 3>>)

Corpora == { << <<p1, p2, p3, p4, p5>> >>, << <<p4, p5>>, <<p3, p2, p1>> >>,
             << <<p1, p3, p4>>, <<p5, p2>>, <<>> >>, << <<p1, p2>>, <<p2, p3>> >>,
             << <<p1, p3, p4>> >>, << <<p2, p5>> >> }

Entropy == [public : {<<i, j>> : i \in 0 .. 2, j \in 0 .. 1}, hidden : {<<0>>, <<1>>},
            profile : {[id \in 1 .. 5 |-> 0], [id \in 1 .. 5 |-> 7 * id]}]

MCPlans == [roots : Corpora, entropy : Entropy]

-----------------------------------------------------------------------------
(* Weight vectors: up to three artifacts on a public and a hidden task,    *)
(* with every champion there may be of the first.                          *)

MCDigests == {d1, d2, d3}
MCHotkeys == {k1, k2, k3}
MCOwner == (d1 :> k1) @@ (d2 :> k2) @@ (d3 :> k3)
MCOrder == (d1 :> 1) @@ (d2 :> 2) @@ (d3 :> 3)

Outcomes == {(t1 :> a) @@ (t2 :> b) : a \in {-1, 0, 2, 3}, b \in {-1, 0, 1, 2}}

Clean == [rounds |-> 2, failures |-> 0]
Shaky == [rounds |-> 2, failures |-> 1]
Out == [rounds |-> 4, failures |-> 3]

NoChampion == [digest |-> None, hotkey |-> None, decay |-> 20]

Champions == {NoChampion}
  \cup [digest : {d1}, hotkey : {k2, None}, decay : {12, 20}]

MCRounds ==
  [aggs : UNION {[S -> Outcomes] : S \in {{d1}, {d1, d2}, {d1, d2, d3}}},
   records : {(d1 :> r) @@ (d2 :> Shaky) @@ (d3 :> Out) : r \in {Clean, Out}},
   champion : Champions]

MCPublicTasks == {t1}
MCHiddenTasks == {t2}
MCCells == {{t1}, {t2}}

-----------------------------------------------------------------------------
(* Readings: the shell and up to two processes of the benchmark.           *)

WorkDone == {<<0, 0>>, <<3, 0>>, <<5, 2>>}

MCReadings == [works : UNION {[1 .. n -> WorkDone] : n \in 1 .. 3}, version : {"3.22", "other"}]

(* Measurements: repeats that are equal, that differ by as much as is      *)
(* tolerated or by more, slower, faster and beyond the cap.                *)

Baselines == {<<2000, 2000, 2000>>, <<2001, 1999, 2000>>, <<2000, 2010, 2000>>}
Candidates == {<<1000, 1000, 1000>>, <<1000, 1001, 1000>>, <<1981, 1980, 1980>>, <<400, 400, 400>>}

Evidence ==
  [peak_rss : {Absent, <<0, 5>>, <<100, 80>>},
   p95 : {Absent, <<100, 50>>},
   compile_time : {Absent, <<100, 95>>},
   agreement : {Absent} \cup {agreement_score(s) : s \in {<<1990>>, <<1990, 1993, 2000>>}}]

MCMeasurements ==
  UNION {[base : {b}, cand : {c}, lcb : Bootstrapped(b, c), s_ref : {101, 102, 200},
          hidden : BOOLEAN, evidence : Evidence] : b \in Baselines, c \in Candidates}

-----------------------------------------------------------------------------
(* Comparisons: floats of every sign and size, and everything else that a  *)
(* discipline looks at.                                                    *)

Floats == [negative : BOOLEAN, bits : 0 .. Infinite]

Contract(disciplines, effects, ulps, relatives) ==
  [discipline : disciplines, side_effects : effects, ulp : ulps, relative : relatives]

Plain(text) == [stdout |-> [shape |-> text, numbers |-> <<>>], stderr |-> "", exit_code |-> 0,
                written_files |-> <<>>, state |-> <<>>]

Printing == {[Plain("text") EXCEPT !.stdout.numbers = n] :
               n \in {<<>>} \cup {<<x>> : x \in Floats}}

Channels == {"exit_code", "stdout", "stderr", "written_files"}

Running ==
  [stdout : {[shape |-> s, numbers |-> <<>>] : s \in {"text", Garbled}},
   stderr : {"", "late"}, exit_code : {0, 124},
   written_files : {<<>>, f1 :> "x", f1 :> "y", (f1 :> "x") @@ (f2 :> "x")},
   state : {<<>>}]

States == {<<>>, "invariants" :> "kept",
           "ordered_transitions" :> <<1, 2>>, "ordered_transitions" :> <<2, 1>>,
           "unordered_transitions" :> <<1, 2>>, "unordered_transitions" :> <<2, 1>>,
           "original_input" :> "x",
           ("original_input" :> "x") @@ ("round_trip_input" :> "x"),
           ("original_input" :> "x") @@ ("round_trip_input" :> "y"),
           "operation_results" :> <<1>>,
           ("operation_results" :> <<1>>) @@ ("iterator_invalidations" :> <<1>>)}

Reporting == {[Plain("text") EXCEPT !.state = st] : st \in States}

Compared(observations, contracts) ==
  [b : observations, c : observations, contract : contracts]

MCComparisons ==
  Compared(Printing, Contract({"float_tolerance"}, {Channels}, {Unset, 0, 1, 3}, {Unset, 50}))
  \cup Compared(Running, Contract({"byte_equal", "structural"},
                                  {{}, {"stdout", "exit_code"}, Channels}, {Unset}, {Unset}))
  \cup Compared(Reporting, Contract(Disciplines \ {"float_tolerance"}, {Channels},
                                    {Unset}, {Unset}))

=============================================================================
