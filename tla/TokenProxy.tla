----------------------------- MODULE TokenProxy -----------------------------
(***************************************************************************)
(* The metered inference proxy of one run (sandbox/proxy.py): the chat     *)
(* handler checks a request against the ledger, waits for the upstream     *)
(* model, and records the usage it reports.  Requests of one artifact      *)
(* overlap while they wait.                                                *)
(*                                                                         *)
(* A request is abstracted to its estimate: the prompt, at four characters *)
(* a token, and max_tokens, which is what the caller says, so that the sum *)
(* need not be positive.  The prompt is the text of the messages; tools,   *)
(* response_format and other content count nothing.  So the usage the      *)
(* upstream reports is not bounded by the estimate.                        *)
(*                                                                         *)
(* Nothing in the repository registers a run's ledger or names its run id  *)
(* to the container; the model is of a run that has both.                  *)
(***************************************************************************)
EXTENDS Integers, FiniteSets

CONSTANTS
  Callers,      \* connections the artifact holds open at once
  Estimates,    \* what a request can be estimated at
  Budget,       \* TokenLedger.budget
  MaxUsage,     \* bound on the usage the upstream reports
  MaxEstimate,  \* a fair request is estimated at most at this, ...
  Slack,        \* ... and its usage exceeds the estimate by at most this
  Idle          \* no request in flight

ASSUME CallersAssumption == IsFiniteSet(Callers) /\ Callers # {}

ASSUME TokensAssumption ==
  /\ Estimates \subseteq Int
  /\ Budget \in Nat
  /\ MaxUsage \in Nat
  /\ MaxEstimate \in Nat
  /\ Slack \in Nat
  /\ Idle \notin Int

VARIABLES
  total,      \* TokenLedger.total
  in_flight,  \* caller -> estimate of the request it waits for, or Idle
  fair        \* history: the requests admitted and answered so far were fair

vars == <<total, in_flight, fair>>

Waiting == {c \in Callers : in_flight[c] # Idle}

(* TokenLedger.remaining, as the handler and /v1/budget report it. *)
remaining == IF total >= Budget THEN 0 ELSE Budget - total

-----------------------------------------------------------------------------

(* A request admitted stands at its estimate until it is answered. *)
Admitted(c, estimated) ==
  /\ in_flight[c] = Idle
  /\ in_flight' = [in_flight EXCEPT ![c] = estimated]
  /\ fair' = (fair /\ estimated \in 1..MaxEstimate)
  /\ UNCHANGED total

(* Seeded fault: the estimate is left out of the check. *)
AdmitUnestimated(c, estimated) ==
  /\ total <= Budget
  /\ Admitted(c, estimated)

(* The handler up to `await client.post', if reserve lets it: reserve      *)
(* looks at the ledger and sets nothing aside.                             *)
Admit(c, estimated) ==
  /\ total + estimated <= Budget
  /\ Admitted(c, estimated)

(* The upstream fails or refuses: nothing is recorded. *)
UpstreamFails(c) ==
  /\ in_flight[c] # Idle
  /\ in_flight' = [in_flight EXCEPT ![c] = Idle]
  /\ UNCHANGED <<total, fair>>

(* The upstream answers: record(usage); a missing usage counts as zero. *)
Answer(c, usage) ==
  /\ in_flight[c] # Idle
  /\ total' = total + usage
  /\ fair' = (fair /\ usage <= in_flight[c] + Slack)
  /\ in_flight' = [in_flight EXCEPT ![c] = Idle]

Init ==
  /\ total = 0
  /\ in_flight = [c \in Callers |-> Idle]
  /\ fair = TRUE

Next ==
  \E c \in Callers :
    \/ \E estimated \in Estimates : Admit(c, estimated)
    \/ UpstreamFails(c)
    \/ \E usage \in 0..MaxUsage : Answer(c, usage)

Spec == Init /\ [][Next]_vars

-----------------------------------------------------------------------------
(***************************************************************************)
(* Properties.                                                             *)
(***************************************************************************)

(* Type invariant; what the artifact is told it has left stays a number of *)
(* tokens of the budget.                                                   *)
TypeOK ==
  /\ total \in Nat
  /\ in_flight \in [Callers -> Estimates \cup {Idle}]
  /\ fair \in BOOLEAN
  /\ remaining \in 0..Budget

(* What the requests of all callers but one can add. *)
Overlap == (Cardinality(Callers) - 1) * (MaxEstimate + Slack)

(* As long as its requests are fair, estimated at something and used up to *)
(* Slack beyond it, a run exceeds its budget by no more than the requests  *)
(* that were in flight with the last one admitted can add, however many it *)
(* has made: the overruns do not add up.  (Of a request that is not fair   *)
(* the handler promises nothing: see Admit and Answer.)                    *)
OverspendBounded == fair => total <= Budget + Slack + Overlap

=============================================================================
