----------------------------- MODULE WaveScheduler -----------------------------
(***************************************************************************)
(* schedule.py and orchestrate.py:run: which targets of a plan are offered *)
(* to process_target, in which order, and by how many threads at once. The *)
(* plan is computed once; after every wave the targets whose callees have  *)
(* landed meanwhile are offered too. What process_target does with a       *)
(* target is Orchestrator's matter: here it completes it or it does not.   *)
(***************************************************************************)
EXTENDS Integers, Sequences, FiniteSets

CONSTANTS
  Targets,        \* the targets of the plan, all of them available
  Graphs,         \* the call graphs it may have, [Targets -> SUBSET Targets]
  MaxWorkers,     \* the threads of the pool
  MaxIterations   \* MAX_ITERATIONS

ASSUME PlanAssumption ==
  /\ IsFiniteSet(Targets)
  /\ Graphs \subseteq [Targets -> SUBSET Targets]
  /\ MaxWorkers \in Nat \ {0} /\ MaxIterations \in Nat \ {0}

VARIABLES
  plan,         \* what plan() returned
  pc,           \* the loop of run()
  dispatched,   \* targets that were offered
  completed,    \* targets whose recorded result is complete
  iterations,
  slots,        \* units of the wave that have no thread yet
  pool,         \* threads not yet joined, by unit, the oldest first
  members,      \* [units -> entries of the wave the unit's thread has left]
  result        \* [Targets -> what process_target returned]

vars == <<plan, pc, dispatched, completed, iterations, slots, pool, members, result>>
loop == <<plan, pc, dispatched, iterations>>

(* Frontier: a callee that is reconstructed or runtime gated is not open.   *)
OpenCallees(calls, gated) == [t \in Targets |-> calls[t] \ gated]

(* The targets t reaches over calls.                                        *)
Reach(calls, t) ==
  {s \in Targets : \A S \in SUBSET Targets :
     t \in S /\ (\A r \in S : calls[r] \subseteq S) => s \in S}

(* scc_partition: mutually recursive targets are one unit.                  *)
Unit(calls, t) == {s \in Reach(calls, t) : t \in Reach(calls, s)}

(* waves: those whose open callees are all in earlier waves, until none is: *)
(* the least set that has every target whose open callees it has.           *)
Scheduled(open) ==
  {t \in Targets : \A S \in SUBSET Targets :
     (\A s \in Targets : open[s] \subseteq S => s \in S) => t \in S}

(* plan(): a target with an open callee, or with a callee list that is cut  *)
(* off, is deferred.                                                       *)
Plan(calls, gated, truncated) ==
  LET open == OpenCallees(calls, gated) IN
  [open_callees |-> open,
   dispatchable |-> {t \in Targets \ truncated : open[t] = {}},
   unit         |-> [t \in Targets |-> Unit(calls, t)],
   scheduled    |-> Scheduled(open)]

Init ==
  /\ \E calls \in Graphs, gated, truncated \in SUBSET Targets :
       plan = Plan(calls, gated, truncated)
  /\ pc = "selecting"
  /\ dispatched = {} /\ completed = {} /\ iterations = 0
  /\ slots = {} /\ pool = <<>>
  /\ members = [u \in SUBSET Targets |-> {}]
  /\ result = [t \in Targets |-> "none"]

(* Mutant: one landed callee is enough.                                     *)
landedOne(t) ==
  plan.open_callees[t] = {} \/ plan.open_callees[t] \cap completed # {}

landed(t) == plan.open_callees[t] \subseteq completed

(* Mutant: what the plan deferred stays deferred.                           *)
ready_at_plan_time ==
  {t \in plan.scheduled \ dispatched : t \in plan.dispatchable}

ready_entries ==
  {t \in plan.scheduled \ dispatched : t \in plan.dispatchable \/ landed(t)}

(* Mutant: what was offered may be offered again.                           *)
OfferAgain ==
  /\ pc = "selecting"
  /\ LET entries == {t \in plan.scheduled : t \in plan.dispatchable \/ landed(t)} IN
     /\ entries # {}
     /\ dispatched' = dispatched
     /\ slots' = {plan.unit[t] : t \in entries}
     /\ members' = [u \in SUBSET Targets |-> {t \in entries : plan.unit[t] = u}]
     /\ pc' = "starting"
  /\ UNCHANGED <<plan, completed, iterations, pool, result>>

(* The next wave: one slot for the members of a unit that are in it.        *)
Offer ==
  /\ pc = "selecting" /\ ready_entries # {}
  /\ dispatched' = dispatched \cup ready_entries
  /\ slots' = {plan.unit[t] : t \in ready_entries}
  /\ members' = [u \in SUBSET Targets |-> {t \in ready_entries : plan.unit[t] = u}]
  /\ pc' = "starting"
  /\ UNCHANGED <<plan, completed, iterations, pool, result>>

(* Mutant: the run waits for what was scheduled and will never be ready.    *)
StopWhenAllOffered ==
  /\ pc = "selecting" /\ ready_entries = {} /\ plan.scheduled = dispatched
  /\ pc' = "done"
  /\ UNCHANGED <<plan, dispatched, completed, iterations, slots, pool, members, result>>

Stop ==
  /\ pc = "selecting" /\ ready_entries = {}
  /\ pc' = "done"
  /\ UNCHANGED <<plan, dispatched, completed, iterations, slots, pool, members, result>>

Start(u) ==
  /\ pc = "starting" /\ u \in slots /\ Len(pool) < MaxWorkers
  /\ slots' = slots \ {u}
  /\ pool' = Append(pool, u)
  /\ UNCHANGED <<loop, completed, members, result>>

(* A thread hands its unit's entries to process_target one by one.          *)
Process(u, t, answer) ==
  /\ u \in {pool[k] : k \in DOMAIN pool} /\ t \in members[u] /\ result[t] = "none"
  /\ result' = [result EXCEPT ![t] = answer]
  /\ UNCHANGED <<loop, completed, slots, pool, members>>

(* The thread records its results together, and is at its end.              *)
Record(u) ==
  /\ u \in {pool[k] : k \in DOMAIN pool} /\ members[u] # {}
  /\ \A t \in members[u] : result[t] # "none"
  /\ completed' = completed \cup {t \in members[u] : result[t] = "complete"}
  /\ members' = [members EXCEPT ![u] = {}]
  /\ UNCHANGED <<loop, slots, pool, result>>

(* An exception process_target does not expect ends the thread, and the     *)
(* results it had gathered are lost.                                       *)
Fail(u) ==
  /\ u \in {pool[k] : k \in DOMAIN pool}
  /\ \E t \in members[u] : result[t] = "none"
  /\ members' = [members EXCEPT ![u] = {}]
  /\ UNCHANGED <<loop, completed, slots, pool, result>>

(* run() joins its oldest thread: to make room, or because no slot is left. *)
Join ==
  /\ pc = "starting" /\ pool # <<>> /\ members[Head(pool)] = {}
  /\ slots = {} \/ Len(pool) >= MaxWorkers
  /\ pool' = Tail(pool)
  /\ UNCHANGED <<loop, completed, slots, members, result>>

(* The bound is looked at after every wave, the last one included.          *)
EndWave ==
  /\ pc = "starting" /\ slots = {} /\ pool = <<>>
  /\ iterations' = iterations + 1
  /\ pc' = IF iterations' >= MaxIterations THEN "exceeded" ELSE "selecting"
  /\ UNCHANGED <<plan, dispatched, completed, slots, pool, members, result>>

Units == {plan.unit[t] : t \in Targets}

Thread(u) ==
  \/ \E t \in members[u], answer \in {"complete", "other"} : Process(u, t, answer)
  \/ Record(u)
  \/ Fail(u)

Main == Offer \/ Stop \/ (\E u \in slots : Start(u)) \/ Join \/ EndWave

Next == Main \/ \E u \in Units : Thread(u)

(* The main thread and the threads of the pool are all scheduled, and       *)
(* process_target returns (Orchestrator!EveryRunEnds).                     *)
Spec ==
  /\ Init /\ [][Next]_vars
  /\ WF_vars(Main) /\ \A u \in SUBSET Targets : WF_vars(Thread(u))

-----------------------------------------------------------------------------
TypeOK ==
  /\ plan.open_callees \in [Targets -> SUBSET Targets]
  /\ plan.unit \in [Targets -> SUBSET Targets]
  /\ pc \in {"selecting", "starting", "done", "exceeded"}
  /\ completed \subseteq Targets /\ dispatched \subseteq plan.scheduled
  /\ iterations \in 0 .. MaxIterations
  /\ slots \subseteq SUBSET Targets /\ pool \in Seq(SUBSET Targets)
  /\ \A u \in SUBSET Targets : members[u] \subseteq plan.scheduled
  /\ result \in [Targets -> {"none", "complete", "other"}]

(* A target is worked on only when every callee that was open in the plan   *)
(* has been completed, whatever waves the plan put them in and whatever     *)
(* order the threads run in (orchestrate.py:1743, schedule.py:286).        *)
CalleesFirst ==
  \A t \in Targets : result[t] # "none" =>
    \A c \in plan.open_callees[t] : result[c] = "complete"

(* The run does not stop while a target whose callees have landed has never *)
(* been offered: deferred targets are promoted (orchestrate.py:1797).      *)
NothingReadyLeft ==
  pc = "done" => \A t \in Targets :
                    plan.open_callees[t] \subseteq completed => t \in dispatched

(* Each wave offers something new, so a plan has fewer waves than targets   *)
(* and only one as deep as the bound can exceed it (orchestrate.py:1821).  *)
EveryWaveIsNew == iterations <= Cardinality(dispatched)

(* The run comes to its end, or to its bound (orchestrate.py:1908).         *)
EveryRunEnds == <>(pc \in {"done", "exceeded"})
=============================================================================
