------------------------- MODULE WaveSchedulerProofs -------------------------
(***************************************************************************)
(* Any plan, any number of threads, any answers: callees come first,       *)
(* nothing that is ready is left, and every wave offers something new.     *)
(***************************************************************************)
EXTENDS WaveScheduler, FiniteSetTheorems, TLAPS

(* What plan() promises the loop: what it calls dispatchable waits for      *)
(* nothing, and what waits only for scheduled targets is scheduled.         *)
PlanInv ==
  /\ plan.open_callees \in [Targets -> SUBSET Targets]
  /\ plan.unit \in [Targets -> SUBSET Targets]
  /\ plan.scheduled \subseteq Targets
  /\ \A t \in plan.dispatchable : t \in Targets /\ plan.open_callees[t] = {}
  /\ \A t \in Targets : plan.open_callees[t] \subseteq plan.scheduled => t \in plan.scheduled

Typed ==
  /\ pc \in {"selecting", "starting", "done", "exceeded"}
  /\ dispatched \subseteq plan.scheduled
  /\ iterations \in 0 .. MaxIterations
  /\ slots \subseteq SUBSET Targets /\ pool \in Seq(SUBSET Targets)
  /\ members \in [SUBSET Targets -> SUBSET dispatched]
  /\ result \in [Targets -> {"none", "complete", "other"}]

(* Threads run in a wave only, and the loop goes on below its bound only.   *)
Loop ==
  /\ pc # "starting" => pool = <<>>
  /\ pc \in {"selecting", "starting"} => iterations < MaxIterations
  /\ pc = "done" => ready_entries = {}

(* A thread is given only targets whose callees have been recorded, and     *)
(* what is recorded was offered and returned complete.                      *)
Work ==
  /\ completed \subseteq dispatched
  /\ \A t \in completed : result[t] = "complete"
  /\ \A u \in SUBSET Targets : \A t \in members[u] : plan.open_callees[t] \subseteq completed
  /\ CalleesFirst

(* A wave that has begun has already offered something new.                 *)
WavesAreCounted ==
  iterations + (IF pc = "starting" THEN 1 ELSE 0) <= Cardinality(dispatched)

SchedulerInv == PlanInv /\ Typed /\ Loop /\ Work /\ WavesAreCounted

(* Every plan keeps the promise.                                            *)
LEMMA PlanKeepsPromise ==
  ASSUME NEW calls \in Graphs, NEW gated \in SUBSET Targets,
         NEW truncated \in SUBSET Targets, plan = Plan(calls, gated, truncated)
  PROVE  PlanInv
<1> DEFINE open == OpenCallees(calls, gated)
<1>1. open \in [Targets -> SUBSET Targets]
  BY PlanAssumption DEF OpenCallees
<1>2. /\ plan.open_callees = open /\ plan.scheduled = Scheduled(open)
      /\ plan.dispatchable = {t \in Targets \ truncated : open[t] = {}}
      /\ plan.unit = [t \in Targets |-> Unit(calls, t)]
  BY DEF Plan
<1>3. plan.unit \in [Targets -> SUBSET Targets]
  BY <1>2 DEF Unit, Reach
<1> HIDE DEF open
<1>4. ASSUME NEW t \in Targets, open[t] \subseteq Scheduled(open) PROVE t \in Scheduled(open)
  <2> SUFFICES ASSUME NEW S \in SUBSET Targets,
                      \A s \in Targets : open[s] \subseteq S => s \in S
               PROVE  t \in S
    BY DEF Scheduled
  <2>1. Scheduled(open) \subseteq S
    BY DEF Scheduled
  <2> QED BY <1>4, <2>1
<1>5. Scheduled(open) \subseteq Targets
  BY DEF Scheduled
<1> QED BY <1>1, <1>2, <1>3, <1>4, <1>5 DEF PlanInv

(* The invariant holds at the start.                                        *)
LEMMA InvInit == Init => SchedulerInv
<1> SUFFICES ASSUME Init PROVE SchedulerInv
  OBVIOUS
<1>1. PlanInv
  BY PlanKeepsPromise DEF Init
<1>2. Typed
  BY PlanAssumption DEF Init, Typed
<1>3. Loop /\ Work /\ WavesAreCounted
  BY PlanAssumption, FS_EmptySet DEF Init, Loop, Work, WavesAreCounted, CalleesFirst
<1> QED BY <1>1, <1>2, <1>3 DEF SchedulerInv

(* A wave adds at least one target to those that were offered.              *)
LEMMA OfferGrows ==
  ASSUME SchedulerInv, Offer
  PROVE  /\ Cardinality(dispatched') \in Nat /\ Cardinality(dispatched) \in Nat
         /\ Cardinality(dispatched') > Cardinality(dispatched)
<1>1. /\ dispatched' = dispatched \cup ready_entries
      /\ ready_entries # {} /\ ready_entries \cap dispatched = {}
      /\ ready_entries \subseteq Targets /\ dispatched \subseteq Targets
  BY DEF SchedulerInv, PlanInv, Typed, Offer, ready_entries
<1>2. IsFiniteSet(dispatched') /\ dispatched \in SUBSET dispatched' /\ dispatched # dispatched'
  <2>1. dispatched' \in SUBSET Targets
    BY <1>1
  <2>2. IsFiniteSet(dispatched')
    BY <2>1, PlanAssumption, FS_Subset
  <2> QED BY <1>1, <2>2
<1>3. /\ IsFiniteSet(dispatched)
      /\ Cardinality(dispatched) <= Cardinality(dispatched')
      /\ Cardinality(dispatched') # Cardinality(dispatched)
  BY <1>2, FS_Subset
<1>4. Cardinality(dispatched') \in Nat
  BY <1>2, FS_CardinalityType
<1>5. Cardinality(dispatched) \in Nat
  BY <1>3, FS_CardinalityType
<1> QED BY <1>3, <1>4, <1>5

(* Every step keeps the invariant.                                          *)
LEMMA InvNext == SchedulerInv /\ [Next]_vars => SchedulerInv'
<1> SUFFICES ASSUME SchedulerInv, [Next]_vars PROVE SchedulerInv'
  OBVIOUS
<1>0. PlanInv /\ Typed /\ Loop /\ Work /\ WavesAreCounted
  BY DEF SchedulerInv
<1> USE DEF loop
<1>1. ASSUME Offer PROVE SchedulerInv'
  <2>1. /\ UNCHANGED <<plan, completed, iterations, pool, result>>
        /\ pc = "selecting" /\ pc' = "starting"
        /\ dispatched' = dispatched \cup ready_entries
        /\ slots' = {plan.unit[t] : t \in ready_entries}
        /\ members' = [u \in SUBSET Targets |-> {t \in ready_entries : plan.unit[t] = u}]
    BY <1>1 DEF Offer
  <2>2. ready_entries \subseteq plan.scheduled /\ ready_entries \subseteq Targets
    BY <1>0 DEF PlanInv, ready_entries
  <2>3. \A t \in ready_entries : plan.open_callees[t] \subseteq completed
    BY <1>0 DEF PlanInv, ready_entries, landed
  <2>4. PlanInv'
    BY <1>0, <2>1 DEF PlanInv
  <2>5. Typed'
    <3>1. slots' \subseteq SUBSET Targets
      BY <1>0, <2>1, <2>2 DEF PlanInv
    <3>2. members' \in [SUBSET Targets -> SUBSET dispatched']
      BY <2>1
    <3> QED BY <1>0, <2>1, <2>2, <3>1, <3>2 DEF Typed
  <2>6. Loop'
    BY <1>0, <2>1 DEF Loop
  <2>7. Work'
    BY <1>0, <2>1, <2>3 DEF Work, CalleesFirst
  <2>8. WavesAreCounted'
    <3>1. iterations \in Nat /\ iterations <= Cardinality(dispatched)
      BY <1>0, <2>1, PlanAssumption DEF Typed, WavesAreCounted
    <3> QED BY <1>1, <2>1, <3>1, OfferGrows DEF WavesAreCounted
  <2> QED BY <2>4, <2>5, <2>6, <2>7, <2>8 DEF SchedulerInv
<1>2. ASSUME Stop PROVE SchedulerInv'
  <2>1. /\ UNCHANGED <<plan, dispatched, completed, iterations, slots, pool, members, result>>
        /\ pc = "selecting" /\ pc' = "done" /\ ready_entries = {}
    BY <1>2 DEF Stop
  <2>2. ready_entries' = ready_entries
    BY <2>1 DEF ready_entries, landed
  <2>3. PlanInv' /\ Typed' /\ Work'
    BY <1>0, <2>1 DEF PlanInv, Typed, Work, CalleesFirst
  <2>4. Loop' /\ WavesAreCounted'
    BY <1>0, <2>1, <2>2 DEF Loop, WavesAreCounted
  <2> QED BY <2>3, <2>4 DEF SchedulerInv
<1>3. ASSUME UNCHANGED <<plan, dispatched, completed, iterations, result>>,
             pc = "starting", pc' = "starting",
             slots' \subseteq SUBSET Targets, pool' \in Seq(SUBSET Targets),
             members' \in [SUBSET Targets -> SUBSET dispatched],
             \A u \in SUBSET Targets : members'[u] \subseteq members[u]
      PROVE  SchedulerInv'
  <2>1. PlanInv' /\ Typed' /\ Loop' /\ WavesAreCounted'
    BY <1>0, <1>3 DEF PlanInv, Typed, Loop, WavesAreCounted
  <2>2. Work'
    BY <1>0, <1>3 DEF Work, CalleesFirst
  <2> QED BY <2>1, <2>2 DEF SchedulerInv
<1>4. ASSUME NEW u \in slots, Start(u) PROVE SchedulerInv'
  <2>1. u \in SUBSET Targets /\ pool' = Append(pool, u) /\ pool' \in Seq(SUBSET Targets)
    BY <1>0, <1>4 DEF Start, Typed
  <2> QED BY <1>0, <1>3, <1>4, <2>1 DEF Start, Typed
<1>5. ASSUME Join PROVE SchedulerInv'
  <2>1. Tail(pool) \in Seq(SUBSET Targets)
    BY <1>0, <1>5 DEF Join, Typed
  <2> QED BY <1>0, <1>3, <1>5, <2>1 DEF Join, Typed
<1>6. ASSUME EndWave PROVE SchedulerInv'
  <2>1. /\ UNCHANGED <<plan, dispatched, completed, slots, pool, members, result>>
        /\ pc = "starting" /\ pool = <<>> /\ iterations' = iterations + 1
        /\ pc' = IF iterations' >= MaxIterations THEN "exceeded" ELSE "selecting"
    BY <1>6 DEF EndWave
  <2>2. iterations \in Nat /\ iterations < MaxIterations /\ MaxIterations \in Nat
    BY <1>0, <2>1, PlanAssumption DEF Typed, Loop
  <2>3. iterations' \in 0 .. MaxIterations /\ pc' \in {"exceeded", "selecting"}
    BY <2>1, <2>2
  <2>4. PlanInv' /\ Work'
    BY <1>0, <2>1 DEF PlanInv, Work, CalleesFirst
  <2>5. Typed'
    BY <1>0, <2>1, <2>3 DEF Typed
  <2>6. Loop'
    BY <2>1, <2>2, <2>3 DEF Loop
  <2>7. WavesAreCounted'
    BY <1>0, <2>1, <2>2, <2>3 DEF WavesAreCounted
  <2> QED BY <2>4, <2>5, <2>6, <2>7 DEF SchedulerInv
<1>7. ASSUME NEW u \in Units, Thread(u) PROVE SchedulerInv'
  <2>0. u \in SUBSET Targets
    BY <1>0, <1>7 DEF PlanInv, Units
  <2>1. ASSUME u \in {pool[k] : k \in DOMAIN pool} PROVE pc = "starting"
    BY <1>0, <2>1 DEF Loop
  <2>2. ASSUME NEW t \in members[u], NEW answer \in {"complete", "other"},
               Process(u, t, answer)
        PROVE  SchedulerInv'
    <3>1. /\ UNCHANGED <<plan, pc, dispatched, iterations, completed, slots, pool, members>>
          /\ result' = [result EXCEPT ![t] = answer] /\ result[t] = "none"
      BY <2>2 DEF Process
    <3>2. t \in Targets /\ plan.open_callees[t] \subseteq completed
      BY <1>0, <2>0, <2>2 DEF Typed, PlanInv, Work
    <3>3. \A s \in Targets : s # t => result'[s] = result[s]
      BY <1>0, <3>1 DEF Typed
    <3>4. \A s \in completed : result'[s] = "complete"
      BY <1>0, <3>1, <3>3 DEF Work, Typed, PlanInv
    <3>5. PlanInv' /\ WavesAreCounted'
      BY <1>0, <3>1 DEF PlanInv, WavesAreCounted
    <3>6. Typed'
      BY <1>0, <3>1 DEF Typed
    <3>7. Loop'
      <4>1. ready_entries' = ready_entries
        BY <3>1 DEF ready_entries, landed
      <4> QED BY <1>0, <3>1, <4>1 DEF Loop
    <3>8. CalleesFirst'
      <4> SUFFICES ASSUME NEW s \in Targets, result'[s] # "none",
                          NEW c \in plan.open_callees[s]
                   PROVE  result'[c] = "complete"
        BY <3>1 DEF CalleesFirst
      <4>1. CASE s = t
        BY <3>2, <3>4, <4>1
      <4>2. CASE s # t
        <5>1. result[s] # "none"
          BY <3>3, <4>2
        <5>2. result[c] = "complete" /\ c \in Targets
          BY <1>0, <5>1 DEF Work, CalleesFirst, PlanInv
        <5> QED BY <3>1, <3>3, <5>2
      <4> QED BY <4>1, <4>2
    <3>9. Work'
      BY <1>0, <3>1, <3>4, <3>8 DEF Work
    <3> QED BY <3>5, <3>6, <3>7, <3>9 DEF SchedulerInv
  <2>3. ASSUME Record(u) PROVE SchedulerInv'
    <3> DEFINE more == {t \in members[u] : result[t] = "complete"}
    <3>1. /\ UNCHANGED <<plan, pc, dispatched, iterations, slots, pool, result>>
          /\ completed' = completed \cup more
          /\ members' = [members EXCEPT ![u] = {}]
          /\ pc = "starting"
      BY <2>1, <2>3 DEF Record
    <3>2. more \subseteq dispatched
      BY <1>0, <2>0 DEF Typed
    <3>3. \A t \in more : result[t] = "complete"
      OBVIOUS
    <3> HIDE DEF more
    <3>4. /\ members' \in [SUBSET Targets -> SUBSET dispatched]
          /\ \A v \in SUBSET Targets : members'[v] \subseteq members[v]
      BY <1>0, <2>0, <3>1 DEF Typed
    <3>5. PlanInv' /\ WavesAreCounted' /\ Loop'
      BY <1>0, <3>1 DEF PlanInv, WavesAreCounted, Loop
    <3>6. Typed'
      BY <1>0, <3>1, <3>4 DEF Typed
    <3>7. CalleesFirst'
      BY <1>0, <3>1 DEF Work, CalleesFirst
    <3>8. \A v \in SUBSET Targets : \A t \in members'[v] :
            plan'.open_callees[t] \subseteq completed'
      BY <1>0, <3>1, <3>4 DEF Work
    <3>9. Work'
      BY <1>0, <3>1, <3>2, <3>3, <3>7, <3>8 DEF Work
    <3> QED BY <3>5, <3>6, <3>9 DEF SchedulerInv
  <2>4. ASSUME Fail(u) PROVE SchedulerInv'
    <3>1. /\ UNCHANGED <<plan, pc, dispatched, iterations, completed, slots, pool, result>>
          /\ members' = [members EXCEPT ![u] = {}]
          /\ pc = "starting"
      BY <2>1, <2>4 DEF Fail
    <3>2. /\ members' \in [SUBSET Targets -> SUBSET dispatched]
          /\ \A v \in SUBSET Targets : members'[v] \subseteq members[v]
      BY <1>0, <2>0, <3>1 DEF Typed
    <3> QED BY <1>0, <1>3, <3>1, <3>2 DEF Typed
  <2> QED BY <1>7, <2>2, <2>3, <2>4 DEF Thread
<1>8. ASSUME UNCHANGED vars PROVE SchedulerInv'
  <2>1. ready_entries' = ready_entries
    BY <1>8 DEF vars, ready_entries, landed
  <2> QED
    BY <1>0, <1>8, <2>1
       DEF vars, SchedulerInv, PlanInv, Typed, Loop, Work, CalleesFirst, WavesAreCounted
<1> QED BY <1>1, <1>2, <1>4, <1>5, <1>6, <1>7, <1>8 DEF Next, Main

(* So it always holds.                                                      *)
LEMMA InvAlways == Spec => []SchedulerInv
<1> QED BY InvInit, InvNext, PTL DEF Spec

(* Every variable of the run keeps its type, in whatever order the threads  *)
(* are scheduled and whichever of them fails.                               *)
THEOREM TypeCorrect == Spec => []TypeOK
<1>1. SchedulerInv => TypeOK
  <2> SUFFICES ASSUME SchedulerInv PROVE TypeOK
    OBVIOUS
  <2>1. PlanInv /\ Typed /\ completed \subseteq dispatched
    BY DEF SchedulerInv, Work
  <2> QED BY <2>1 DEF PlanInv, Typed, TypeOK
<1> QED BY <1>1, InvAlways, PTL

(* A target is worked on only when every callee that was open in the plan   *)
(* has been completed, for any call graph.                                  *)
THEOREM CalleesAreAlwaysFirst == Spec => []CalleesFirst
<1>1. SchedulerInv => CalleesFirst
  BY DEF SchedulerInv, Work
<1> QED BY <1>1, InvAlways, PTL

(* A run that stopped has offered every target whose callees have landed.   *)
THEOREM NothingReadyIsEverLeft == Spec => []NothingReadyLeft
<1>1. SchedulerInv => NothingReadyLeft
  <2> SUFFICES ASSUME SchedulerInv, pc = "done", NEW t \in Targets,
                      plan.open_callees[t] \subseteq completed
               PROVE  t \in dispatched
    BY DEF NothingReadyLeft
  <2>1. PlanInv /\ Typed /\ ready_entries = {} /\ completed \subseteq dispatched
    BY DEF SchedulerInv, Loop, Work
  <2>2. t \in plan.scheduled
    BY <2>1 DEF PlanInv, Typed
  <2> QED BY <2>1, <2>2 DEF ready_entries, landed
<1> QED BY <1>1, InvAlways, PTL

(* A run has at most as many waves as targets it offered.                   *)
THEOREM EveryWaveIsAlwaysNew == Spec => []EveryWaveIsNew
<1>1. SchedulerInv => EveryWaveIsNew
  <2> SUFFICES ASSUME SchedulerInv PROVE EveryWaveIsNew
    OBVIOUS
  <2>1. /\ iterations \in Nat /\ dispatched \in SUBSET Targets
        /\ iterations + (IF pc = "starting" THEN 1 ELSE 0) <= Cardinality(dispatched)
    BY PlanAssumption DEF SchedulerInv, PlanInv, Typed, WavesAreCounted
  <2>2. IsFiniteSet(dispatched)
    BY <2>1, PlanAssumption, FS_Subset
  <2>3. Cardinality(dispatched) \in Nat
    BY <2>2, FS_CardinalityType
  <2> QED BY <2>1, <2>3 DEF EveryWaveIsNew
<1> QED BY <1>1, InvAlways, PTL
=============================================================================
