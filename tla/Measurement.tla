---------------------------- MODULE Measurement ----------------------------
(***************************************************************************)
(* From what valgrind writes to the score of a task (measurement.py,       *)
(* statistics.py and capture.py): the counters of the traced processes are *)
(* read and added up, repeats that differ are refused, the lower bound of  *)
(* the speedup is normalised to a capture, and the capture is weighted     *)
(* with the secondary evidence there is.                                   *)
(*                                                                         *)
(* A speedup is a fraction [num, den]; reference speedups are in           *)
(* hundredths, captures and components in thousandths, a score in          *)
(* hundred-thousandths.                                                    *)
(***************************************************************************)
EXTENDS Integers, SequencesExt

CONSTANTS
  Events,  \* how many counters the events line names; the first is Ir
  Absent   \* no evidence

ASSUME EventsAssumption == Events \in Nat \ {0}

Unmeasured == <<>>

-----------------------------------------------------------------------------
(***************************************************************************)
(* Tier A: reading callgrind.                                              *)
(***************************************************************************)

(* What a version of valgrind writes for a process that did `work' in the  *)
(* measured region (none: all counters zero): the summary line, then the   *)
(* totals line.  3.22 with instrumentation off at the start leaves a       *)
(* single zero in the summary.                                             *)
Written(work, version) ==
  IF version = "3.22" THEN << <<0>>, work >> ELSE << work, <<0>> >>

(* Seeded fault: the summary line is the one that counts. *)
parse_first_line(lines) == IF Len(lines[1]) < Events THEN Unmeasured ELSE lines[1]

(* parse_callgrind_output: of the cost lines with a value for every event  *)
(* and instructions at all, the first with the most.                       *)
parse_callgrind_output(lines) ==
  LET usable == {i \in DOMAIN lines : Len(lines[i]) >= Events /\ lines[i][1] > 0}
      best == {i \in usable : \A j \in usable : lines[j][1] <= lines[i][1]}
  IN  IF usable = {} THEN Unmeasured ELSE lines[Min(best)]

(* _sum_counters: each counter, added up over the processes in `of'. *)
Added(counters, of) ==
  [e \in 1 .. Events |-> SumFunctionOnSet([p \in of |-> counters[p][e]], of)]

(* One repeat of TierARunner.measure: the processes that reported, added   *)
(* up; a measurement error only if none did.                               *)
measure(files) ==
  LET readings == [p \in DOMAIN files |-> parse_callgrind_output(files[p])]
      reported == {p \in DOMAIN files : readings[p] # Unmeasured}
  IN  IF reported = {} THEN Unmeasured ELSE Added(readings, reported)

(* Reference: what the processes did in the measured region, together. *)
AllWork(works) ==
  IF \A p \in DOMAIN works : works[p][1] = 0 THEN Unmeasured
  ELSE Added(works, DOMAIN works)

-----------------------------------------------------------------------------
(***************************************************************************)
(* Tier A: comparing.                                                      *)
(***************************************************************************)

(* The k-th of the samples in order: the least that k do not exceed. *)
Ranked(samples, k) ==
  Min({x \in ToSet(samples) : Cardinality({i \in DOMAIN samples : samples[i] <= x}) >= k})

(* Distribution.median of an odd number of samples, as are the repeats. *)
median(samples) == Ranked(samples, (Len(samples) + 1) \div 2)

(* relative_spread within SPEC.stability.max_tier_a_relative_spread. *)
stable(samples) ==
  1000 * (Ranked(samples, Len(samples)) - Ranked(samples, 1)) <= median(samples)

AtMost(p, q) == p.num * q.den <= q.num * p.den

(* Bounds bootstrap_ratio_lcb may return: medians of resampled repeats are *)
(* repeats, and a single repeat is its own bound.                          *)
Bootstrapped(base, cand) ==
  {[num |-> base[i], den |-> cand[j]] : i \in DOMAIN base, j \in DOMAIN cand}

point(base, cand) == [num |-> median(base), den |-> median(cand)]

(* Seeded fault: the bootstrap is taken at its word. *)
speedup_as_resampled(base, cand, lcb) == lcb

(* speedup_lcb: never above the point estimate. *)
speedup_lcb(base, cand, lcb) ==
  IF AtMost(lcb, point(base, cand)) THEN lcb ELSE point(base, cand)

(* compute_capture: nothing below a speedup of 1.01, at most 2; a          *)
(* reference below 1.02 is refused.                                        *)
normalisable(s_ref) == s_ref >= 102

compute_capture(s, s_ref) ==
  IF 100 * s.num < 101 * s.den THEN 0
  ELSE Min({(100000 * (s.num - s.den)) \div (s.den * (s_ref - 100)), 2000})

-----------------------------------------------------------------------------
(***************************************************************************)
(* Tier B and the score.                                                   *)
(***************************************************************************)

(* _improvement_pct, of a pair <<baseline, candidate>>. *)
improvement_pct(pair) ==
  IF pair = Absent THEN Absent
  ELSE IF pair[1] = 0 THEN Absent
  ELSE (100 * (pair[1] - pair[2])) \div pair[1]

(* _saturating: thousandths of the full credit. *)
saturating(pct, full) ==
  IF pct <= 0 THEN 0 ELSE Min({(1000 * pct) \div full, 1000})

(* Seeded fault: evidence that is missing counts in full. *)
credit_assumed(weight, pct, full) ==
  IF pct = Absent THEN weight * 1000 ELSE weight * saturating(pct, full)

credit(weight, pct, full) ==
  IF pct = Absent THEN 0 ELSE weight * saturating(pct, full)

(* score_components.  evidence holds pairs for peak memory, tail latency   *)
(* and compile time, of which a decrease is the improvement, and the       *)
(* agreement.                                                              *)
score_components(capture_won, hidden, evidence) ==
  LET normalised == Min({capture_won \div 2, 1000})
  IN  55 * normalised
      + (IF hidden THEN 10 * normalised ELSE 0)
      + credit(15, improvement_pct(evidence.peak_rss), 25)
      + credit(10, improvement_pct(evidence.p95), 25)
      + credit(5, improvement_pct(evidence.compile_time), 10)
      + (IF evidence.agreement = Absent THEN 0 ELSE 5 * evidence.agreement)

(* cross_validator_agreement_score, in thousandths: those within 0.2 % of  *)
(* the upper median; one alone is no agreement.                            *)
agreement_score(speedups) ==
  LET m == Ranked(speedups, Len(speedups) \div 2 + 1)
      within == {i \in DOMAIN speedups :
                   1000 * (speedups[i] - m) <= 2 * m /\ 1000 * (m - speedups[i]) <= 2 * m}
  IN  IF Len(speedups) < 2 THEN 0
      ELSE (1000 * Cardinality(within)) \div Len(speedups)

(* A measured task: the error of unstable repeats or of a reference that   *)
(* cannot be normalised against, or the score.                             *)
Score(m) ==
  LET lcb == speedup_lcb(m.base, m.cand, m.lcb)
  IN  IF ~stable(m.base) \/ ~stable(m.cand) \/ ~normalisable(m.s_ref) THEN Absent
      ELSE score_components(compute_capture(lcb, m.s_ref), m.hidden, m.evidence)

(* What is uncertain costs the miner: repeats that differ never score      *)
(* better than repeats equal to their median, evidence that is taken away  *)
(* never raises a score, and no score passes the whole.                    *)
UncertaintyCosts(m, score) ==
  LET Exactly(samples) == [i \in DOMAIN samples |-> median(samples)]
      exact == [m EXCEPT !.base = Exactly(m.base), !.cand = Exactly(m.cand),
                         !.lcb = point(m.base, m.cand)]
      Without(item) == [m EXCEPT !.evidence = [m.evidence EXCEPT ![item] = Absent]]
  IN  score # Absent =>
        /\ score <= Score(exact)
        /\ \A item \in DOMAIN m.evidence : Score(Without(item)) <= score
        /\ score <= 100000

=============================================================================
