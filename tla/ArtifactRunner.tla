--------------------------- MODULE ArtifactRunner ---------------------------
(***************************************************************************)
(* The production of patches (produce_patches of validator/forward.py,     *)
(* sandbox/runner.py): one pair of artifact and task after another, the    *)
(* artifact is pulled, run in a container with a directory of its task and *)
(* second mounted at /output, and what it left there is read and checked.  *)
(*                                                                         *)
(* A container whose time is up is not stopped: the runner kills the       *)
(* client that waits for it and goes on.  It writes and asks for           *)
(* inference as before.  The ledger of the metered pair's run is           *)
(* TokenProxy's; no code of the repository registers one, so that which    *)
(* run is metered is an assumption of the model (Metered).                 *)
(***************************************************************************)
EXTENDS TokenProxy, Sequences

CONSTANTS
  Assignments,  \* the pairs in the order of assign_producers: by task, then digest
  Oversized,    \* artifacts above the size cap
  Metered,      \* the pair that uses the proxy
  MaxSecond,    \* bound on the clock
  Nothing       \* no such file

Pairs == DOMAIN Assignments
Artifacts == {Assignments[i].artifact : i \in Pairs}
Tasks == {Assignments[i].task : i \in Pairs}

ASSUME AssignmentsAssumption ==
  /\ Assignments \in Seq([artifact : Artifacts, task : Tasks])
  /\ \A i, j \in Pairs : Assignments[i] = Assignments[j] => i = j

ASSUME RunnerAssumption ==
  /\ Metered \in Pairs
  /\ MaxSecond \in Nat
  /\ Nothing \notin Nat /\ Nothing \notin BOOLEAN

VARIABLES
  current,   \* the pair produce_patches is at; one past the last at the end
  phase,     \* where it is with it: see Phases
  second,    \* int(time.time())
  timed_out, \* whether the pair's time ran out
  pulled,    \* ArtifactRunner._pulled
  started,   \* pair -> the second its directory is named by, or Nothing
  running,   \* pairs whose container runs
  patch,     \* task and second -> the pair whose patch.diff is there
  report,    \* task and second -> whether report.json is in order, or Nothing
  produced   \* pair -> the pair whose patch it is credited with, or Nothing

files == <<patch, report>>
runner == <<current, phase, second, timed_out, pulled, started, running, files, produced>>
rvars == <<runner, vars>>

Phases == {"pull", "start", "wait", "collect", "end"}

(* Seeded fault: the directory is named by the task alone. *)
directory_of_task(i) == <<Assignments[i].task, 0>>

(* run-<task>-<second> *)
directory(i) == <<Assignments[i].task, started[i]>>

Directories == Tasks \X (0..MaxSecond)

-----------------------------------------------------------------------------

(* On to the next pair. *)
Advance ==
  /\ current' = current + 1
  /\ phase' = IF current = Len(Assignments) THEN "end" ELSE "pull"
  /\ timed_out' = FALSE

(* An exception of the pair, logged: it has no patch. *)
Refuse ==
  /\ Advance
  /\ UNCHANGED <<second, pulled, started, running, files, produced, vars>>

(* ArtifactRunner.pull: by digest, and once. *)
Pull ==
  /\ phase = "pull"
  /\ Assignments[current].artifact \notin Oversized
  /\ phase' = "start"
  /\ pulled' = pulled \cup {Assignments[current].artifact}
  /\ UNCHANGED <<current, second, timed_out, started, running, files, produced, vars>>

(* It cannot be pulled or inspected, or is too large.  A later pair of the *)
(* artifact tries again.                                                   *)
PullFails ==
  /\ phase = "pull"
  /\ Assignments[current].artifact \notin pulled
  /\ Refuse

(* ArtifactRunner.run up to the wait: directories are made unless they     *)
(* exist, and the container is started.                                    *)
StartContainer ==
  /\ phase = "start"
  /\ phase' = "wait"
  /\ started' = [started EXCEPT ![current] = second]
  /\ running' = running \cup {current}
  /\ UNCHANGED <<current, second, timed_out, pulled, files, produced, vars>>

(* The repository cannot be copied, the profile is not safe, there is no   *)
(* proxy for the task.                                                     *)
StartFails == phase = "start" /\ Refuse

(* A container writes its patch, ... *)
WritePatch(i) ==
  /\ i \in running
  /\ patch' = [patch EXCEPT ![directory(i)] = i]
  /\ UNCHANGED <<current, phase, second, timed_out, pulled, started, running,
                 report, produced, vars>>

(* ... and its report, in order or not: malformed, of another interface,   *)
(* or of more tokens than the task allows.                                 *)
WriteReport(i, good) ==
  /\ i \in running
  /\ report' = [report EXCEPT ![directory(i)] = good]
  /\ UNCHANGED <<current, phase, second, timed_out, pulled, started, running,
                 patch, produced, vars>>

(* A container ends; if the runner waits for it, it goes on. *)
Exit(i) ==
  /\ i \in running
  /\ running' = running \ {i}
  /\ phase' = IF i = current /\ phase = "wait" THEN "collect" ELSE phase
  /\ UNCHANGED <<current, second, timed_out, pulled, started, files, produced, vars>>

(* Seeded fault: after the client is killed the end of the container is    *)
(* waited for.                                                             *)
TimeOutWaiting ==
  /\ phase = "wait"
  /\ current \notin running
  /\ phase' = "collect"
  /\ timed_out' = TRUE
  /\ UNCHANGED <<current, second, pulled, started, running, files, produced, vars>>

(* The time of the pair is up: proc.kill() ends the client. *)
TimeOut ==
  /\ phase = "wait"
  /\ phase' = "collect"
  /\ timed_out' = TRUE
  /\ UNCHANGED <<current, second, pulled, started, running, files, produced, vars>>

(* verify_interface *)
InOrder == ~timed_out /\ report[directory(current)] = TRUE

(* What is in the directory is read and checked; without a patch, or if    *)
(* the check fails, the pair has none.                                     *)
Collect ==
  /\ phase = "collect"
  /\ produced' = IF InOrder
                   THEN [produced EXCEPT ![current] = patch[directory(current)]]
                   ELSE produced
  /\ Advance
  /\ UNCHANGED <<second, pulled, started, running, files, vars>>

Tick ==
  /\ second < MaxSecond
  /\ second' = second + 1
  /\ UNCHANGED <<current, phase, timed_out, pulled, started, running, files, produced, vars>>

(* Inference, by the container of the metered pair as long as it runs;     *)
(* answers come back whether it does or not.                               *)
Infer ==
  /\ Next
  /\ Metered \notin running => Waiting' \subseteq Waiting
  /\ UNCHANGED runner

RInit ==
  /\ Init
  /\ current = 1
  /\ phase = IF Assignments = <<>> THEN "end" ELSE "pull"
  /\ second = 0
  /\ timed_out = FALSE
  /\ pulled = {}
  /\ started = [i \in Pairs |-> Nothing]
  /\ running = {}
  /\ patch = [d \in Directories |-> Nothing]
  /\ report = [d \in Directories |-> Nothing]
  /\ produced = [i \in Pairs |-> Nothing]

Produce == Pull \/ PullFails \/ StartContainer \/ StartFails \/ TimeOut \/ Collect

RNext ==
  \/ Produce
  \/ \E i \in Pairs : \/ WritePatch(i) \/ Exit(i)
                      \/ \E good \in BOOLEAN : WriteReport(i, good)
  \/ Tick
  \/ Infer

(* The client of the registry returns, and a wait has its time limit. *)
RSpec == RInit /\ [][RNext]_rvars /\ WF_rvars(Produce)

-----------------------------------------------------------------------------
(***************************************************************************)
(* Properties.                                                             *)
(***************************************************************************)

(* Type invariant of the runner. *)
RTypeOK ==
  /\ TypeOK
  /\ current \in 1..(Len(Assignments) + 1)
  /\ phase \in Phases
  /\ second \in 0..MaxSecond
  /\ timed_out \in BOOLEAN
  /\ pulled \subseteq Artifacts
  /\ started \in [Pairs -> (0..MaxSecond) \cup {Nothing}]
  /\ running \subseteq Pairs
  /\ patch \in [Directories -> Pairs \cup {Nothing}]
  /\ report \in [Directories -> BOOLEAN \cup {Nothing}]
  /\ produced \in [Pairs -> Pairs \cup {Nothing}]

(* "The directory holds only this artifact's own output": a pair is        *)
(* credited with the patch of another only if both ran the same task and   *)
(* were started in the same second, however late a container still writes. *)
CreditedWithOwnPatch ==
  \A i \in Pairs :
    produced[i] \in {Nothing, i}
      \/ /\ Assignments[produced[i]].task = Assignments[i].task
         /\ started[produced[i]] = started[i]

(* No artifact keeps the round waiting: all pairs are done with, though    *)
(* containers may run on for ever.                                         *)
ProductionEnds == <>(phase = "end")

=============================================================================
