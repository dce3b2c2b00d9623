------------------------ MODULE ArtifactRunnerProofs ------------------------
(***************************************************************************)
(* Proofs about the production of patches and its token budget, for any    *)
(* assignments, any clock, any number of callers and any estimates.        *)
(*                                                                         *)
(* Of the budget (TokenProxy), OverspendBounded is not inductive: it says  *)
(* nothing of the requests still in flight.  Covered bounds the ledger     *)
(* together with them.  The last request admitted was checked against the  *)
(* ledger, so it counts with its own estimate; the others may have been    *)
(* admitted before anything was recorded, and count with the largest one.  *)
(* It holds as long as requests are fair, so of a fair run each request in *)
(* flight must also be known to be estimated at something (InFlightFair).  *)
(*                                                                         *)
(* That a pair is credited with a patch of its own task and second is not  *)
(* inductive either: it needs to be known whose patch lies in a directory  *)
(* (PatchesOwned), which holds because a pair is started once, in the      *)
(* order of the assignments (StartedInOrder), so that the second its       *)
(* directory is named by never changes under a container still writing.    *)
(***************************************************************************)
EXTENDS ArtifactRunner, FiniteSetTheorems, TLAPS


Cost == MaxEstimate + Slack
Limit == Budget + Slack + Overlap

(* What n requests in flight may add to the ledger. *)
Pending(n) == n * Cost

Covered ==
  \/ total + Pending(Cardinality(Waiting)) <= Limit
  \/ \E k \in Waiting :
       total + in_flight[k] + Slack + Pending(Cardinality(Waiting) - 1) <= Limit

InFlightFair == \A k \in Waiting : in_flight[k] \in 1..MaxEstimate

IInv == TypeOK /\ (fair => InFlightFair /\ Covered)

-----------------------------------------------------------------------------

LEMMA ArithmeticOfPending ==
  ASSUME NEW m \in Int, NEW n \in Int, m <= n
  PROVE  /\ Pending(m) \in Int
         /\ Pending(m) <= Pending(n)
         /\ Pending(m) - Pending(m - 1) = Cost
         /\ Cost \in Nat
<1>1. Cost \in Nat
  BY TokensAssumption DEF Cost
<1> DEFINE d == Cost
<1>2. m * d \in Int /\ n * d \in Int
  BY <1>1
<1>3. m * d <= n * d
  <2>1. (n - m) * d >= 0
    BY <1>1
  <2>2. (n - m) * d = n * d - m * d
    BY <1>1
  <2> QED
    BY <2>1, <2>2, <1>2
<1>4. (m - 1) * d = m * d - d
  BY <1>1
<1> QED
  BY <1>1, <1>2, <1>3, <1>4 DEF Pending

LEMMA WaitingCounts ==
  /\ IsFiniteSet(Waiting)
  /\ Cardinality(Waiting) \in Nat
  /\ Cardinality(Waiting) <= Cardinality(Callers)
  /\ Cardinality(Callers) \in Nat \ {0}
<1>1. Waiting \subseteq Callers
  BY DEF Waiting
<1>2. Cardinality(Callers) \in Nat \ {0}
  BY CallersAssumption, FS_CardinalityType, FS_EmptySet
<1> QED
  BY <1>1, <1>2, CallersAssumption, FS_Subset, FS_CardinalityType

(* A request that stops waiting is one fewer; the others still wait. *)
LEMMA OneFewer ==
  ASSUME TypeOK, NEW c \in Waiting, in_flight' = [in_flight EXCEPT ![c] = Idle]
  PROVE  /\ Waiting' = Waiting \ {c}
         /\ Cardinality(Waiting') = Cardinality(Waiting) - 1
         /\ \A k \in Waiting \ {c} : in_flight'[k] = in_flight[k]
<1>1. Waiting' = Waiting \ {c}
  BY DEF Waiting, TypeOK
<1>2. Cardinality(Waiting \ {c}) = Cardinality(Waiting) - 1
  BY WaitingCounts, FS_RemoveElement
<1> QED
  BY <1>1, <1>2 DEF Waiting, TypeOK

(* A request in flight of a fair run was estimated at something. *)
LEMMA WaitingHasEstimate ==
  ASSUME InFlightFair, NEW k \in Waiting
  PROVE  in_flight[k] \in Nat /\ in_flight[k] <= MaxEstimate
  BY TokensAssumption DEF InFlightFair

(* A waiting request that leaves the ledger `usage' higher, at most its    *)
(* estimate plus Slack, keeps the ledger covered.                          *)
LEMMA LeavingKeepsCovered ==
  ASSUME TypeOK, InFlightFair, Covered, NEW c \in Waiting, NEW usage \in Nat,
         usage <= in_flight[c] + Slack,
         total' = total + usage,
         in_flight' = [in_flight EXCEPT ![c] = Idle]
  PROVE  InFlightFair' /\ Covered'
<1> SUFFICES Covered'
  BY OneFewer DEF InFlightFair
<1> DEFINE n == Cardinality(Waiting)
<1>1. n \in Nat /\ Cardinality(Waiting') = n - 1
  BY WaitingCounts, OneFewer
<1>2. in_flight[c] \in Nat /\ usage <= Cost
  BY WaitingHasEstimate, TokensAssumption DEF Cost
<1>3. /\ Pending(n) \in Int /\ Pending(n - 1) \in Int /\ Pending(n - 2) \in Int
      /\ Pending(n) - Pending(n - 1) = Cost
      /\ Pending(n - 1) - Pending(n - 2) = Cost
      /\ Cost \in Nat
  <2>1. n - 1 \in Int /\ n - 2 \in Int /\ (n - 1) - 1 = n - 2
    BY <1>1
  <2>2. Pending(n) \in Int /\ Pending(n) - Pending(n - 1) = Cost /\ Cost \in Nat
    BY <1>1, ArithmeticOfPending
  <2>3. Pending(n - 1) \in Int /\ Pending(n - 1) - Pending((n - 1) - 1) = Cost
    BY <2>1, ArithmeticOfPending
  <2>4. Pending(n - 2) \in Int
    BY <2>1, ArithmeticOfPending
  <2> QED
    BY <2>1, <2>2, <2>3, <2>4
<1>4. total \in Nat /\ Limit' = Limit /\ Limit \in Int /\ Slack \in Nat
  <2>1. Overlap \in Int
    BY WaitingCounts, TokensAssumption DEF Overlap
  <2> QED
    BY <2>1, TokensAssumption DEF TypeOK, Limit, Overlap
<1>5. CASE total + Pending(n) <= Limit
  <2>1. total' + Pending(Cardinality(Waiting')) <= Limit
    BY <1>1, <1>2, <1>3, <1>4, <1>5
  <2> QED
    BY <2>1, <1>1, <1>4 DEF Covered, Pending, Cost
<1>6. CASE \E k \in Waiting : total + in_flight[k] + Slack + Pending(n - 1) <= Limit
  <2>1. PICK k \in Waiting : total + in_flight[k] + Slack + Pending(n - 1) <= Limit
    BY <1>6
  <2>2. in_flight[k] \in Nat
    BY WaitingHasEstimate
  <2>3. CASE k = c
    <3>1. total' + Pending(Cardinality(Waiting')) <= Limit
      BY <1>1, <1>2, <1>3, <1>4, <2>1, <2>2, <2>3
    <3> QED
      BY <3>1, <1>1, <1>4 DEF Covered, Pending, Cost
  <2>4. CASE k # c
    <3>1. k \in Waiting' /\ in_flight'[k] = in_flight[k]
      BY <2>4, OneFewer
    <3>2. total' + in_flight'[k] + Slack + Pending(Cardinality(Waiting') - 1) <= Limit
      <4>1. Cardinality(Waiting') - 1 = n - 2
        BY <1>1
      <4> QED
        BY <4>1, <3>1, <1>1, <1>2, <1>3, <1>4, <2>1, <2>2
    <3> QED
      BY <3>1, <3>2, <1>1, <1>4 DEF Covered, Pending, Cost
  <2> QED
    BY <2>3, <2>4
<1> QED
  BY <1>5, <1>6 DEF Covered

-----------------------------------------------------------------------------

LEMMA InitCovered == Init => IInv
<1> SUFFICES ASSUME Init PROVE IInv
  OBVIOUS
<1>1. TypeOK
  BY TokensAssumption DEF Init, TypeOK, remaining
<1>2. Waiting = {}
  BY DEF Init, Waiting
<1>3. Cardinality(Waiting) = 0
  BY <1>2, FS_EmptySet
<1>4. Overlap \in Nat
  BY WaitingCounts, TokensAssumption DEF Overlap
<1>5. Pending(0) = 0
  BY TokensAssumption DEF Pending, Cost
<1> QED
  BY <1>1, <1>2, <1>3, <1>4, <1>5, TokensAssumption
  DEF IInv, InFlightFair, Covered, Init, Limit

LEMMA AdmitKeepsCovered ==
  ASSUME IInv, NEW c \in Callers, NEW estimated \in Estimates, Admit(c, estimated)
  PROVE  IInv'
<1>1. TypeOK'
  BY TokensAssumption DEF IInv, TypeOK, Admit, Admitted, remaining
<1> SUFFICES ASSUME fair' PROVE InFlightFair' /\ Covered'
  BY <1>1 DEF IInv
<1>2. /\ estimated \in 1..MaxEstimate
      /\ c \in Waiting' /\ in_flight'[c] = estimated
      /\ \A k \in Waiting' \ {c} : k \in Waiting /\ in_flight'[k] = in_flight[k]
  BY TokensAssumption DEF IInv, TypeOK, Admit, Admitted, Waiting
<1>3. InFlightFair'
  BY <1>2 DEF IInv, Admit, Admitted, InFlightFair
<1>4. Cardinality(Waiting') \in Nat /\ Cardinality(Waiting') <= Cardinality(Callers)
  BY <1>2, CallersAssumption, FS_Subset, FS_CardinalityType DEF Waiting
<1> DEFINE m == Cardinality(Waiting') - 1
           n == Cardinality(Callers) - 1
<1>5. m \in Int /\ n \in Int /\ m <= n
  BY <1>4, WaitingCounts
<1>6. Pending(m) \in Int /\ Pending(m) <= Pending(n)
  BY <1>5, ArithmeticOfPending
<1>7. Pending(n) = Overlap
  BY DEF Pending, Overlap, Cost
<1>8. total' + in_flight'[c] + Slack + Pending(m) <= Limit
  <2>1. total + estimated <= Budget /\ total' = total
    BY DEF Admit, Admitted
  <2>2. total \in Nat /\ estimated \in Nat /\ Overlap \in Int
    BY <1>2, <1>5, <1>6, <1>7, TokensAssumption, WaitingCounts DEF IInv, TypeOK, Overlap
  <2> QED
    BY <1>2, <1>6, <1>7, <2>1, <2>2, TokensAssumption DEF Limit
<1> QED
  BY <1>2, <1>3, <1>8 DEF Covered, Pending, Limit, Overlap, Cost

LEMMA NextKeepsType == TypeOK /\ [Next]_vars => TypeOK'
<1> SUFFICES ASSUME TypeOK, [Next]_vars PROVE TypeOK'
  OBVIOUS
<1>1. ASSUME NEW c \in Callers, NEW estimated \in Estimates, Admit(c, estimated)
      PROVE  TypeOK'
  BY <1>1, TokensAssumption DEF TypeOK, Admit, Admitted, remaining
<1>2. ASSUME NEW c \in Callers, UpstreamFails(c)
      PROVE  TypeOK'
  BY <1>2, TokensAssumption DEF TypeOK, UpstreamFails, remaining
<1>3. ASSUME NEW c \in Callers, NEW usage \in 0..MaxUsage, Answer(c, usage)
      PROVE  TypeOK'
  BY <1>3, TokensAssumption DEF TypeOK, Answer, remaining
<1>4. CASE UNCHANGED vars
  BY <1>4 DEF TypeOK, vars, remaining
<1> QED
  BY <1>1, <1>2, <1>3, <1>4 DEF Next

LEMMA NextKeepsCovered == IInv /\ [Next]_vars => IInv'
<1> SUFFICES ASSUME IInv, [Next]_vars PROVE IInv'
  OBVIOUS
<1>1. ASSUME NEW c \in Callers, NEW estimated \in Estimates, Admit(c, estimated)
      PROVE  IInv'
  BY <1>1, AdmitKeepsCovered
<1>2. ASSUME NEW c \in Callers, UpstreamFails(c)
      PROVE  IInv'
  <2>1. /\ c \in Waiting /\ in_flight' = [in_flight EXCEPT ![c] = Idle]
        /\ total' = total + 0
        /\ fair' = fair /\ fair' \in BOOLEAN
    BY <1>2 DEF UpstreamFails, Waiting, IInv, TypeOK
  <2>2. TypeOK'
    BY NextKeepsType DEF IInv
  <2>3. ASSUME fair' PROVE InFlightFair' /\ Covered'
    <3>1. TypeOK /\ InFlightFair /\ Covered
      BY <2>1, <2>3 DEF IInv
    <3>2. 0 <= in_flight[c] + Slack
      BY <2>1, <3>1, WaitingHasEstimate, TokensAssumption
    <3> QED
      BY <2>1, <3>1, <3>2, LeavingKeepsCovered
  <2> QED
    BY <2>2, <2>3 DEF IInv
<1>3. ASSUME NEW c \in Callers, NEW usage \in 0..MaxUsage, Answer(c, usage)
      PROVE  IInv'
  <2>1. /\ c \in Waiting /\ in_flight' = [in_flight EXCEPT ![c] = Idle]
        /\ usage \in Nat
        /\ total' = total + usage
        /\ fair' = (fair /\ usage <= in_flight[c] + Slack)
    BY <1>3, TokensAssumption DEF Answer, Waiting
  <2>2. TypeOK'
    BY NextKeepsType DEF IInv
  <2>3. ASSUME fair' PROVE InFlightFair' /\ Covered'
    <3>1. fair /\ usage <= in_flight[c] + Slack
      BY <2>1, <2>3
    <3>2. TypeOK /\ InFlightFair /\ Covered
      BY <3>1 DEF IInv
    <3> QED
      BY <2>1, <3>1, <3>2, LeavingKeepsCovered
  <2> QED
    BY <2>2, <2>3 DEF IInv
<1>4. CASE UNCHANGED vars
  BY <1>4 DEF vars, IInv, InFlightFair, TypeOK, Covered, Waiting, remaining
<1> QED
  BY <1>1, <1>2, <1>3, <1>4 DEF Next

LEMMA CoveredBoundsOverspend == IInv => OverspendBounded
<1> SUFFICES ASSUME IInv, fair PROVE total <= Budget + Slack + Overlap
  BY DEF OverspendBounded
<1>0. TypeOK /\ InFlightFair /\ Covered
  BY DEF IInv
<1> DEFINE n == Cardinality(Waiting)
<1>1. n \in Nat /\ total \in Nat /\ Limit \in Int
  <2>1. Overlap \in Int
    BY WaitingCounts, TokensAssumption DEF Overlap
  <2> QED
    BY <1>0, <2>1, WaitingCounts, TokensAssumption DEF TypeOK, Limit
<1>2. Pending(0) = 0
  BY TokensAssumption DEF Pending, Cost
<1>3. CASE total + Pending(n) <= Limit
  <2>1. Pending(0) <= Pending(n) /\ Pending(n) \in Int
    BY <1>1, ArithmeticOfPending
  <2> QED
    BY <1>1, <1>2, <1>3, <2>1 DEF Limit
<1>4. CASE \E k \in Waiting : total + in_flight[k] + Slack + Pending(n - 1) <= Limit
  <2>1. PICK k \in Waiting : total + in_flight[k] + Slack + Pending(n - 1) <= Limit
    BY <1>4
  <2>2. n # 0
    BY <2>1, WaitingCounts, FS_EmptySet
  <2>3. n - 1 \in Int /\ 0 <= n - 1
    BY <1>1, <2>2
  <2>4. Pending(0) <= Pending(n - 1) /\ Pending(n - 1) \in Int
    BY <2>3, ArithmeticOfPending
  <2>5. in_flight[k] \in Nat
    BY <1>0, <2>1, WaitingHasEstimate
  <2> QED
    BY <1>1, <1>2, <2>1, <2>4, <2>5, TokensAssumption DEF Limit
<1> QED
  BY <1>0, <1>3, <1>4 DEF Covered

(* The ledger stays well-formed, and an artifact is never told that it has *)
(* a negative number of tokens left.                                       *)
THEOREM LedgerTypeCorrect == Spec => []TypeOK
<1>1. IInv => TypeOK
  BY DEF IInv
<1> QED
  BY <1>1, InitCovered, NextKeepsCovered, PTL DEF Spec

(* However many fair requests a run makes, its overspend is bounded by     *)
(* what its callers can have in flight at once.  Of requests estimated at  *)
(* nothing or less, or used far beyond their estimate, the handler bounds  *)
(* nothing and neither does the theorem (TokenLedger.reserve, .record).    *)
THEOREM OverspendIsBounded == Spec => []OverspendBounded
  BY InitCovered, NextKeepsCovered, CoveredBoundsOverspend, PTL DEF Spec


-----------------------------------------------------------------------------
(***************************************************************************)
(* ArtifactRunner.                                                         *)
(***************************************************************************)


(* Pairs are worked off in their order. *)
InPlace ==
  /\ phase # "end" => current \in Pairs
  /\ phase \in {"wait", "collect"} => started[current] # Nothing

(* Only what came before the current pair, and it while it is waited for   *)
(* and collected, has been started.                                        *)
StartedInOrder ==
  \A i \in Pairs : started[i] # Nothing =>
    i < current \/ (i = current /\ phase \in {"wait", "collect"})

(* Containers run that were started. *)
RunningStarted == \A i \in running : started[i] # Nothing

(* A directory holds the patch of a pair it is named for. *)
PatchesOwned ==
  \A d \in Directories : patch[d] # Nothing =>
    /\ started[patch[d]] = d[2]
    /\ Assignments[patch[d]].task = d[1]

(* A pair with a patch was started, and has it from its own directory. *)
Credited ==
  \A i \in Pairs : produced[i] # Nothing =>
    /\ started[i] # Nothing
    /\ started[produced[i]] = started[i]
    /\ Assignments[produced[i]].task = Assignments[i].task

RInv ==
  /\ RTypeOK
  /\ InPlace
  /\ StartedInOrder
  /\ RunningStarted
  /\ PatchesOwned
  /\ Credited

-----------------------------------------------------------------------------

(* The assignments are a sequence of artifacts and tasks. *)
LEMMA AssignmentFacts ==
  /\ Len(Assignments) \in Nat
  /\ Pairs = 1 .. Len(Assignments)
  /\ \A i \in Pairs : /\ Assignments[i].artifact \in Artifacts
                      /\ Assignments[i].task \in Tasks
<1>1. Len(Assignments) \in Nat /\ DOMAIN Assignments = 1 .. Len(Assignments)
  BY AssignmentsAssumption
<1> QED
  BY <1>1 DEF Pairs, Artifacts, Tasks

(* The directory of a pair that was started is one of the directories. *)
LEMMA DirectoryOfStarted ==
  ASSUME RTypeOK, NEW i \in Pairs, started[i] # Nothing
  PROVE  /\ started[i] \in 0 .. MaxSecond
         /\ directory(i) \in Directories
         /\ directory(i)[1] = Assignments[i].task
         /\ directory(i)[2] = started[i]
  BY AssignmentFacts DEF RTypeOK, directory, Directories

LEMMA RInitHolds == RInit => RInv
<1> SUFFICES ASSUME RInit PROVE RInv
  OBVIOUS
<1>1. TypeOK
  BY InitCovered DEF RInit, IInv
<1>2. RTypeOK
  <2>1. 1 \in 1 .. (Len(Assignments) + 1) /\ 0 \in 0 .. MaxSecond
    BY AssignmentFacts, RunnerAssumption
  <2>2. /\ started \in [Pairs -> (0..MaxSecond) \cup {Nothing}]
        /\ patch \in [Directories -> Pairs \cup {Nothing}]
        /\ report \in [Directories -> BOOLEAN \cup {Nothing}]
        /\ produced \in [Pairs -> Pairs \cup {Nothing}]
    BY DEF RInit
  <2>3. phase \in Phases
    BY DEF RInit, Phases
  <2> QED
    BY <1>1, <2>1, <2>2, <2>3 DEF RInit, RTypeOK
<1>3. InPlace /\ StartedInOrder /\ RunningStarted
  BY AssignmentFacts, AssignmentsAssumption DEF RInit, InPlace, StartedInOrder, RunningStarted
<1>4. PatchesOwned /\ Credited
  BY DEF RInit, PatchesOwned, Credited
<1> QED
  BY <1>1, <1>2, <1>3, <1>4 DEF RInv

(* What a step of the production other than inference leaves of the        *)
(* ledger's type.                                                          *)
LEMMA LedgerUntouched ==
  ASSUME TypeOK, UNCHANGED vars
  PROVE  TypeOK'
  BY DEF TypeOK, vars, remaining

(* The next pair, or the end. *)
LEMMA AdvanceInPlace ==
  ASSUME RInv, phase # "end", Advance, UNCHANGED started
  PROVE  /\ current' \in 1 .. (Len(Assignments) + 1)
         /\ phase' \in Phases
         /\ timed_out' \in BOOLEAN
         /\ InPlace'
         /\ StartedInOrder'
<1>1. current \in 1 .. Len(Assignments)
  BY AssignmentFacts DEF RInv, InPlace
<1>2. current' = current + 1 /\ current' \in 1 .. (Len(Assignments) + 1)
  BY <1>1, AssignmentFacts DEF Advance
<1>3. phase' \in {"pull", "end"} /\ (phase' # "end" => current' \in Pairs)
  BY <1>1, <1>2, AssignmentFacts DEF Advance
<1>4. InPlace'
  BY <1>3 DEF InPlace, Pairs
<1>5. StartedInOrder'
  <2> SUFFICES ASSUME NEW i \in Pairs, started[i] # Nothing
               PROVE  i < current'
    BY DEF StartedInOrder, Pairs
  <2>1. i <= current
    BY <1>1, AssignmentFacts DEF RInv, StartedInOrder
  <2> QED
    BY <2>1, <1>1, <1>2, AssignmentFacts
<1> QED
  BY <1>2, <1>3, <1>4, <1>5 DEF Phases, Advance

-----------------------------------------------------------------------------

LEMMA PullKeeps ==
  ASSUME RInv, Pull
  PROVE  RInv'
<1>1. TypeOK'
  BY LedgerUntouched DEF RInv, RTypeOK, Pull
<1>2. current \in Pairs /\ Assignments[current].artifact \in Artifacts
  BY AssignmentFacts DEF RInv, InPlace, Pull
<1>3. RTypeOK'
  BY <1>1, <1>2 DEF RInv, RTypeOK, Pull, files, Phases
<1>4. InPlace' /\ StartedInOrder' /\ RunningStarted' /\ PatchesOwned' /\ Credited'
  BY DEF RInv, InPlace, StartedInOrder, RunningStarted, PatchesOwned, Credited, Pull, files
<1> QED
  BY <1>1, <1>3, <1>4 DEF RInv

LEMMA RefuseKeeps ==
  ASSUME RInv, phase # "end", Refuse
  PROVE  RInv'
<1>1. TypeOK'
  BY LedgerUntouched DEF RInv, RTypeOK, Refuse
<1>2. /\ current' \in 1 .. (Len(Assignments) + 1)
      /\ phase' \in Phases
      /\ timed_out' \in BOOLEAN
      /\ InPlace'
      /\ StartedInOrder'
  BY AdvanceInPlace DEF Refuse
<1>3. RTypeOK'
  BY <1>1, <1>2 DEF RInv, RTypeOK, Refuse, files
<1>4. RunningStarted' /\ PatchesOwned' /\ Credited'
  BY DEF RInv, RunningStarted, PatchesOwned, Credited, Refuse, files
<1> QED
  BY <1>1, <1>2, <1>3, <1>4 DEF RInv

(* The pair that is started now was not started before, so nothing in any  *)
(* directory is of it and nobody has been credited with anything of it.    *)
LEMMA StartKeeps ==
  ASSUME RInv, StartContainer
  PROVE  RInv'
<1>1. TypeOK'
  BY LedgerUntouched DEF RInv, RTypeOK, StartContainer
<1>2. current \in Pairs /\ started[current] = Nothing
  BY AssignmentFacts DEF RInv, InPlace, StartedInOrder, StartContainer
<1>3. second \in 0 .. MaxSecond /\ second # Nothing /\ Nothing \notin 0 .. MaxSecond
  BY RunnerAssumption DEF RInv, RTypeOK
<1>4. \A i \in Pairs : started'[i] = IF i = current THEN second ELSE started[i]
  BY DEF RInv, RTypeOK, StartContainer
<1>5. RTypeOK'
  BY <1>1, <1>2, <1>3 DEF RInv, RTypeOK, StartContainer, files, Phases
<1>6. InPlace' /\ StartedInOrder' /\ RunningStarted'
  BY <1>2, <1>3, <1>4
  DEF RInv, InPlace, StartedInOrder, RunningStarted, StartContainer
<1>7. PatchesOwned'
  <2> SUFFICES ASSUME NEW d \in Directories, patch[d] # Nothing
               PROVE  /\ started'[patch[d]] = d[2]
                      /\ Assignments[patch[d]].task = d[1]
    BY DEF PatchesOwned, StartContainer, files
  <2>1. patch[d] \in Pairs /\ started[patch[d]] = d[2] /\ Assignments[patch[d]].task = d[1]
    BY DEF RInv, RTypeOK, PatchesOwned
  <2>2. patch[d] # current
    BY <2>1, <1>2, <1>3 DEF Directories
  <2> QED
    BY <2>1, <2>2, <1>4
<1>8. Credited'
  <2> SUFFICES ASSUME NEW i \in Pairs, produced[i] # Nothing
               PROVE  /\ started'[i] # Nothing
                      /\ started'[produced[i]] = started'[i]
                      /\ Assignments[produced[i]].task = Assignments[i].task
    BY DEF Credited, StartContainer
  <2>1. /\ produced[i] \in Pairs
        /\ started[i] # Nothing
        /\ started[produced[i]] = started[i]
        /\ Assignments[produced[i]].task = Assignments[i].task
    BY DEF RInv, RTypeOK, Credited
  <2> QED
    BY <2>1, <1>2, <1>4
<1> QED
  BY <1>1, <1>5, <1>6, <1>7, <1>8 DEF RInv

LEMMA WritePatchKeeps ==
  ASSUME RInv, NEW i \in Pairs, WritePatch(i)
  PROVE  RInv'
<1>1. TypeOK'
  BY LedgerUntouched DEF RInv, RTypeOK, WritePatch
<1>2. started[i] # Nothing
  BY DEF RInv, RunningStarted, WritePatch
<1>3. /\ directory(i) \in Directories
      /\ directory(i)[1] = Assignments[i].task
      /\ directory(i)[2] = started[i]
  BY <1>2, DirectoryOfStarted DEF RInv
<1>4. RTypeOK'
  BY <1>1, <1>3 DEF RInv, RTypeOK, WritePatch
<1>5. InPlace' /\ StartedInOrder' /\ RunningStarted' /\ Credited'
  BY DEF RInv, InPlace, StartedInOrder, RunningStarted, Credited, WritePatch
<1>6. PatchesOwned'
  <2>1. \A d \in Directories : patch'[d] = IF d = directory(i) THEN i ELSE patch[d]
    BY DEF RInv, RTypeOK, WritePatch
  <2> SUFFICES ASSUME NEW d \in Directories, patch'[d] # Nothing
               PROVE  /\ started[patch'[d]] = d[2]
                      /\ Assignments[patch'[d]].task = d[1]
    BY DEF PatchesOwned, WritePatch
  <2> QED
    BY <2>1, <1>3 DEF RInv, PatchesOwned
<1> QED
  BY <1>1, <1>4, <1>5, <1>6 DEF RInv

LEMMA WriteReportKeeps ==
  ASSUME RInv, NEW i \in Pairs, NEW good \in BOOLEAN, WriteReport(i, good)
  PROVE  RInv'
<1>1. TypeOK'
  BY LedgerUntouched DEF RInv, RTypeOK, WriteReport
<1>2. RTypeOK'
  BY <1>1 DEF RInv, RTypeOK, WriteReport
<1>3. InPlace' /\ StartedInOrder' /\ RunningStarted' /\ PatchesOwned' /\ Credited'
  BY DEF RInv, InPlace, StartedInOrder, RunningStarted, PatchesOwned, Credited,
         WriteReport
<1> QED
  BY <1>1, <1>2, <1>3 DEF RInv

LEMMA ExitKeeps ==
  ASSUME RInv, NEW i \in Pairs, Exit(i)
  PROVE  RInv'
<1>1. TypeOK'
  BY LedgerUntouched DEF RInv, RTypeOK, Exit
<1>2. RTypeOK'
  BY <1>1 DEF RInv, RTypeOK, Exit, files, Phases
<1>3. InPlace' /\ StartedInOrder' /\ RunningStarted' /\ PatchesOwned' /\ Credited'
  BY DEF RInv, InPlace, StartedInOrder, RunningStarted, PatchesOwned, Credited,
         Exit, files
<1> QED
  BY <1>1, <1>2, <1>3 DEF RInv

LEMMA TimeOutKeeps ==
  ASSUME RInv, TimeOut
  PROVE  RInv'
<1>1. TypeOK'
  BY LedgerUntouched DEF RInv, RTypeOK, TimeOut
<1>2. RTypeOK'
  BY <1>1 DEF RInv, RTypeOK, TimeOut, files, Phases
<1>3. InPlace' /\ StartedInOrder' /\ RunningStarted' /\ PatchesOwned' /\ Credited'
  BY DEF RInv, InPlace, StartedInOrder, RunningStarted, PatchesOwned, Credited,
         TimeOut, files
<1> QED
  BY <1>1, <1>2, <1>3 DEF RInv

(* What is collected lay in the directory of the current pair, so it is of *)
(* a pair that was started in the same second on the same task.            *)
LEMMA CollectKeeps ==
  ASSUME RInv, Collect
  PROVE  RInv'
<1>1. TypeOK'
  BY LedgerUntouched DEF RInv, RTypeOK, Collect
<1>2. /\ current' \in 1 .. (Len(Assignments) + 1)
      /\ phase' \in Phases
      /\ timed_out' \in BOOLEAN
      /\ InPlace'
      /\ StartedInOrder'
  BY AdvanceInPlace DEF Collect
<1>3. current \in Pairs /\ started[current] # Nothing
  BY DEF RInv, InPlace, Collect
<1>4. /\ directory(current) \in Directories
      /\ directory(current)[1] = Assignments[current].task
      /\ directory(current)[2] = started[current]
  BY <1>3, DirectoryOfStarted DEF RInv
<1>5. patch[directory(current)] \in Pairs \cup {Nothing}
  BY <1>4 DEF RInv, RTypeOK
<1>6. RTypeOK'
  BY <1>1, <1>2, <1>5 DEF RInv, RTypeOK, Collect, files
<1>7. RunningStarted' /\ PatchesOwned'
  BY DEF RInv, RunningStarted, PatchesOwned, Collect, files
<1>8. Credited'
  <2> SUFFICES ASSUME NEW i \in Pairs, produced'[i] # Nothing
               PROVE  /\ started[i] # Nothing
                      /\ started[produced'[i]] = started[i]
                      /\ Assignments[produced'[i]].task = Assignments[i].task
    BY DEF Credited, Collect
  <2>1. CASE produced'[i] = produced[i]
    BY <2>1 DEF RInv, Credited
  <2>2. CASE produced'[i] # produced[i]
    <3>1. i = current /\ produced'[i] = patch[directory(current)]
      BY <2>2 DEF RInv, RTypeOK, Collect
    <3> QED
      BY <3>1, <1>3, <1>4 DEF RInv, PatchesOwned
  <2> QED
    BY <2>1, <2>2
<1> QED
  BY <1>1, <1>2, <1>6, <1>7, <1>8 DEF RInv

LEMMA TickKeeps ==
  ASSUME RInv, Tick
  PROVE  RInv'
<1>1. TypeOK'
  BY LedgerUntouched DEF RInv, RTypeOK, Tick
<1>2. RTypeOK'
  BY <1>1, RunnerAssumption DEF RInv, RTypeOK, Tick, files
<1>3. InPlace' /\ StartedInOrder' /\ RunningStarted' /\ PatchesOwned' /\ Credited'
  BY DEF RInv, InPlace, StartedInOrder, RunningStarted, PatchesOwned, Credited,
         Tick, files
<1> QED
  BY <1>1, <1>2, <1>3 DEF RInv

(* The runner's variables decide its invariant, and inference changes none *)
(* of them; nor does a step that changes nothing.                          *)
LEMMA LedgerStepKeeps ==
  ASSUME RInv, [Next]_vars, UNCHANGED runner
  PROVE  RInv'
<1>1. TypeOK'
  BY NextKeepsType DEF RInv, RTypeOK
<1>2. RTypeOK'
  BY <1>1 DEF RInv, RTypeOK, runner, files
<1>3. InPlace' /\ StartedInOrder' /\ RunningStarted' /\ PatchesOwned' /\ Credited'
  BY DEF RInv, InPlace, StartedInOrder, RunningStarted, PatchesOwned, Credited,
         runner, files
<1> QED
  BY <1>1, <1>2, <1>3 DEF RInv

LEMMA RNextKeeps == RInv /\ [RNext]_rvars => RInv'
<1> SUFFICES ASSUME RInv, [RNext]_rvars PROVE RInv'
  OBVIOUS
<1>1. CASE Pull
  BY <1>1, PullKeeps
<1>2. CASE PullFails
  BY <1>2, RefuseKeeps DEF PullFails
<1>3. CASE StartContainer
  BY <1>3, StartKeeps
<1>4. CASE StartFails
  BY <1>4, RefuseKeeps DEF StartFails
<1>5. CASE TimeOut
  BY <1>5, TimeOutKeeps
<1>6. CASE Collect
  BY <1>6, CollectKeeps
<1>7. ASSUME NEW i \in Pairs, WritePatch(i) PROVE RInv'
  BY <1>7, WritePatchKeeps
<1>8. ASSUME NEW i \in Pairs, Exit(i) PROVE RInv'
  BY <1>8, ExitKeeps
<1>9. ASSUME NEW i \in Pairs, NEW good \in BOOLEAN, WriteReport(i, good) PROVE RInv'
  BY <1>9, WriteReportKeeps
<1>10. CASE Tick
  BY <1>10, TickKeeps
<1>11. CASE Infer
  BY <1>11, LedgerStepKeeps DEF Infer
<1>12. CASE UNCHANGED rvars
  BY <1>12, LedgerStepKeeps DEF rvars
<1> QED
  BY <1>1, <1>2, <1>3, <1>4, <1>5, <1>6, <1>7, <1>8, <1>9, <1>10, <1>11, <1>12
  DEF RNext, Produce

-----------------------------------------------------------------------------

LEMMA RunnerInvariant == RSpec => []RInv
<1> QED
  BY RInitHolds, RNextKeeps, PTL DEF RSpec

(* The runner, what its containers leave behind and the ledger keep their  *)
(* types (produce_patches, ArtifactRunner.run).                            *)
THEOREM RunnerTypeCorrect == RSpec => []RTypeOK
<1>1. RInv => RTypeOK
  BY DEF RInv
<1> QED
  BY <1>1, RunnerInvariant, PTL

(* Whatever containers whose client was killed still write, and however    *)
(* the clock runs, a pair is credited with its own patch or with that of a *)
(* pair of its task started in the same second (ArtifactRunner.run).       *)
THEOREM PatchesAreCredited == RSpec => []CreditedWithOwnPatch
<1>1. RInv => CreditedWithOwnPatch
  BY DEF RInv, RTypeOK, Credited, CreditedWithOwnPatch
<1> QED
  BY <1>1, RunnerInvariant, PTL

=============================================================================
