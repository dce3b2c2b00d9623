---------------------------- MODULE Comparators ----------------------------
(***************************************************************************)
(* When two executions count as equivalent (corpus/equivalence.py): the    *)
(* declared side effects, and what the discipline of the task contract     *)
(* asks of the output or of the reported state.                            *)
(*                                                                         *)
(* An observation is [stdout, stderr, exit_code, written_files, state]:    *)
(* files map names to contents.  stdout is [shape, numbers]: what is left  *)
(* of the text without its numbers, and the numbers as bit patterns of     *)
(* floats, sign first; for `structural' it stands for the parse, with the  *)
(* shape Garbled when there is none.  state maps the keys a package        *)
(* reports to their values.                                                *)
(***************************************************************************)
EXTENDS Integers, SequencesExt

CONSTANTS
  Magnitude,  \* bit patterns of a float without its sign: 0 .. Magnitude - 1
  Infinite,   \* the pattern of infinity; those above it are never printed
  Garbled,    \* the shape of output that does not parse
  Unset       \* no budget of that kind in the contract; a key not reported

ASSUME FloatAssumption == Magnitude \in Nat /\ Infinite \in 0 .. Magnitude - 1

Disciplines == {"byte_equal", "round_trip", "float_tolerance", "structural",
                "state_invariant", "operation_sequence"}

-----------------------------------------------------------------------------
(***************************************************************************)
(* Floats.                                                                 *)
(***************************************************************************)

(* A float is [negative, bits]; struct.unpack("<q") reads it as a two's    *)
(* complement integer, in which a sign bit counts - Magnitude.             *)
signed_bits(x) == IF x.negative THEN x.bits - Magnitude ELSE x.bits

(* Seeded fault: the sign bit is dropped. *)
to_unsigned_int(x) == x.bits

(* to_ordered_int of _ulp_distance.  Negative floats end up above the      *)
(* positive ones, in the opposite order.                                   *)
to_ordered_int(x) == IF signed_bits(x) >= 0 THEN signed_bits(x) ELSE Magnitude - signed_bits(x)

Distance(m, n) == IF m < n THEN n - m ELSE m - n

_ulp_distance(a, b) == Distance(to_ordered_int(a), to_ordered_int(b))

(* Reference: how many floats lie from one to the other. *)
RepresentableSteps(a, b) ==
  IF a.negative = b.negative THEN Distance(a.bits, b.bits) ELSE a.bits + b.bits

(* A float between two adjacent powers of two, or below the least, goes up *)
(* by equal steps: the value of a pattern, in those steps.                 *)
value(x) == IF x.negative THEN - x.bits ELSE x.bits

(* _within_budget: a relative budget, in percent of the baseline, comes    *)
(* before one in units of the last place.                                  *)
_within_budget(b, c, contract) ==
  IF contract.relative # Unset
  THEN 100 * Distance(value(b), value(c)) <= contract.relative * b.bits
  ELSE _ulp_distance(b, c) <= contract.ulp

same_number(b, c, contract) ==
  IF Infinite \in {b.bits, c.bits} THEN b = c ELSE _within_budget(b, c, contract)

-----------------------------------------------------------------------------
(***************************************************************************)
(* The comparators: each gives the channels in which candidate c diverges  *)
(* from baseline b.                                                        *)
(***************************************************************************)

When(diverges, channel) == IF diverges THEN {channel} ELSE {}

(* Seeded fault: files the candidate wrote besides are not looked at. *)
files_missing(b, c) ==
  \E f \in DOMAIN b.written_files :
    f \notin DOMAIN c.written_files \/ c.written_files[f] # b.written_files[f]

files_differ(b, c) ==
  \/ \E f \in DOMAIN b.written_files : f \notin DOMAIN c.written_files
  \/ \E f \in DOMAIN c.written_files : f \notin DOMAIN b.written_files
  \/ \E f \in DOMAIN b.written_files \cap DOMAIN c.written_files :
       b.written_files[f] # c.written_files[f]

(* _compare_declared_channels; all disciplines but byte_equal judge stdout *)
(* themselves.                                                             *)
_compare_declared_channels(b, c, contract) ==
  contract.side_effects \cap UNION {
    When(b.exit_code # c.exit_code, "exit_code"),
    When(contract.discipline = "byte_equal" /\ b.stdout # c.stdout, "stdout"),
    When(b.stderr # c.stderr, "stderr"),
    When(files_differ(b, c), "written_files")
  }

(* state.get; an empty report counts as none. *)
Reported(obs, key) == IF key \in DOMAIN obs.state THEN obs.state[key] ELSE Unset

KeyDiffers(b, c, key) == Reported(b, key) # Reported(c, key)

RecoversInput(obs) ==
  /\ Reported(obs, "original_input") # Unset
  /\ Reported(obs, "original_input") = Reported(obs, "round_trip_input")

(* sorted, of transitions whose order the contract leaves open: none when  *)
(* none are reported.                                                      *)
Unordered(obs) ==
  IF Reported(obs, "unordered_transitions") = Unset THEN <<>>
  ELSE SortSeq(obs.state["unordered_transitions"], <)

NumbersDiffer(b, c, contract) ==
  \/ Len(b.stdout.numbers) # Len(c.stdout.numbers)
  \/ b.stdout.shape # c.stdout.shape
  \/ \E i \in DOMAIN b.stdout.numbers :
       ~same_number(b.stdout.numbers[i], c.stdout.numbers[i], contract)

discipline_divergences(b, c, contract) ==
  CASE contract.discipline = "byte_equal" -> {}
    [] contract.discipline = "round_trip" ->
         When(~RecoversInput(b) \/ ~RecoversInput(c), "round_trip")
    [] contract.discipline = "float_tolerance" ->
         When(NumbersDiffer(b, c, contract), "numeric")
    [] contract.discipline = "structural" ->
         When(Garbled \in {b.stdout.shape, c.stdout.shape} \/ b.stdout # c.stdout,
              "structural")
    [] contract.discipline = "state_invariant" ->
         When(KeyDiffers(b, c, "invariants"), "invariants")
         \cup When(KeyDiffers(b, c, "ordered_transitions"), "ordered_transitions")
         \cup When(Unordered(b) # Unordered(c), "unordered_transitions")
    [] contract.discipline = "operation_sequence" ->
         When(KeyDiffers(b, c, "operation_results")
              \/ Reported(b, "operation_results") = Unset, "operation_sequence")
         \cup When(KeyDiffers(b, c, "iterator_invalidations"), "iterator_invalidation")

(* comparator_for refuses a float contract without a budget. *)
resolvable(contract) ==
  contract.discipline = "float_tolerance" =>
    contract.relative # Unset \/ contract.ulp # Unset

Divergences(b, c, contract) ==
  IF resolvable(contract)
  THEN _compare_declared_channels(b, c, contract) \cup discipline_divergences(b, c, contract)
  ELSE Unset

-----------------------------------------------------------------------------
(***************************************************************************)
(* What acceptance promises, of accepted executions.                       *)
(***************************************************************************)

(* The declared side effects are the same; stdout itself is one only for   *)
(* byte_equal.                                                             *)
SameEffects(b, c, contract) ==
  /\ "exit_code" \in contract.side_effects => b.exit_code = c.exit_code
  /\ "stderr" \in contract.side_effects => b.stderr = c.stderr
  /\ "written_files" \in contract.side_effects =>
       /\ DOMAIN b.written_files = DOMAIN c.written_files
       /\ \A f \in DOMAIN b.written_files : b.written_files[f] = c.written_files[f]
  /\ "stdout" \in contract.side_effects /\ contract.discipline = "byte_equal" =>
       b.stdout = c.stdout

(* Numbers that may stand for each other: within so many percent of the    *)
(* baseline's on either side of it, or so many floats apart.               *)
Interchangeable(x, y, contract) ==
  \/ x = y
  \/ /\ Infinite \notin {x.bits, y.bits}
     /\ IF contract.relative # Unset
          THEN 100 * value(y) \in (100 * value(x) - contract.relative * x.bits)
                                  .. (100 * value(x) + contract.relative * x.bits)
          ELSE RepresentableSteps(x, y) <= contract.ulp

SamePrint(b, c, contract) ==
  /\ b.stdout.shape = c.stdout.shape
  /\ DOMAIN b.stdout.numbers = DOMAIN c.stdout.numbers
  /\ \A i \in DOMAIN b.stdout.numbers :
       Interchangeable(b.stdout.numbers[i], c.stdout.numbers[i], contract)

SameReport(b, c, keys) == \A key \in keys : Reported(b, key) = Reported(c, key)

(* What each discipline judges is the same.  A round trip is each side's   *)
(* own: nobody asks whether both sides were given the same input, nor what *)
(* the encoder wrote.                                                      *)
SameBehaviour(b, c, contract) ==
  CASE contract.discipline = "byte_equal" -> TRUE
    [] contract.discipline = "round_trip" ->
         \A obs \in {b, c} :
           /\ {"original_input", "round_trip_input"} \subseteq DOMAIN obs.state
           /\ obs.state["round_trip_input"] = obs.state["original_input"]
    [] contract.discipline = "float_tolerance" -> SamePrint(b, c, contract)
    [] contract.discipline = "structural" ->
         b.stdout = c.stdout /\ b.stdout.shape # Garbled
    [] contract.discipline = "state_invariant" ->
         /\ SameReport(b, c, {"invariants", "ordered_transitions"})
         /\ Unordered(b) = Unordered(c)
    [] contract.discipline = "operation_sequence" ->
         /\ SameReport(b, c, {"operation_results", "iterator_invalidations"})
         /\ "operation_results" \in DOMAIN b.state \cap DOMAIN c.state

(* Accepted executions have the same side effects and the same behaviour,  *)
(* within the budget of the contract; and which side is called the         *)
(* baseline makes no difference, except to a budget relative to it.        *)
AcceptanceHolds(b, c, contract) ==
  /\ SameEffects(b, c, contract)
  /\ SameBehaviour(b, c, contract)
  /\ contract.relative = Unset => Divergences(c, b, contract) = {}

=============================================================================
