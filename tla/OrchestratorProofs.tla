-------------------------- MODULE OrchestratorProofs --------------------------
(***************************************************************************)
(* Theorems about Orchestrator for any runs, workers and retry bounds.     *)
(***************************************************************************)
EXTENDS Orchestrator, TLAPS

USE WorkersAssumption, TtlAssumption, HistoryAssumption, RunsAssumption,
    BoundsAssumption

Entries == Workers \cup {Unblocked}

(* What keeps a row well typed: its columns, and a history within bounds.  *)
GoodRow(old) == old \in Row /\ Len(old.history) <= HistoryLimit

(* Remembering an entry keeps the history within its limit and puts the    *)
(* entry last (_merge_checkpoint).                                         *)
LEMMA RememberKeepsNewest ==
  ASSUME NEW h \in Seq(Entries), Len(h) <= HistoryLimit, NEW e \in Entries
  PROVE  /\ Remember(h, e) \in Seq(Entries)
         /\ Len(Remember(h, e)) <= HistoryLimit
         /\ Remember(h, e) # <<>>
         /\ Remember(h, e)[Len(Remember(h, e))] = e
<1>1. CASE Len(h) < HistoryLimit
  BY <1>1 DEF Remember
<1>2. CASE Len(h) = HistoryLimit
  <2>1. /\ Tail(h) \in Seq(Entries)
        /\ Len(Tail(h)) = HistoryLimit - 1
    BY <1>2
  <2>2. /\ Append(Tail(h), e) \in Seq(Entries)
        /\ Len(Append(Tail(h), e)) = HistoryLimit
        /\ Append(Tail(h), e)[HistoryLimit] = e
    BY <2>1
  <2> QED BY <1>2, <2>2 DEF Remember
<1> QED BY <1>1, <1>2

(***************************************************************************)
(* Every verb leaves a well-typed row.                                     *)
(***************************************************************************)
LEMMA VerbsKeepRows ==
  ASSUME NEW old, GoodRow(old), NEW r \in BOOLEAN, NEW s \in Status, NEW c
  PROVE  /\ \A w \in Workers : GoodRow(Claimed(old, w))
         /\ GoodRow(Written(old, c, r))
         /\ \A to \in {"queued", "blocked"} : GoodRow(Released(old, to, r))
         /\ GoodRow(AfterUnblock(old))
         /\ GoodRow(Closed(old, s))
         /\ GoodRow(Aged(old))
         /\ \A o \in Owners : GoodRow(New(s, o, r, 0)) /\ GoodRow(New(s, o, r, Unreadable))
<1> DEFINE Fields(x) == /\ x.status \in Status \cup {"absent"}
                        /\ x.owner \in Owners
                        /\ x.reason \in BOOLEAN
                        /\ x.age \in 0 .. MaxAge \cup {Unreadable}
                        /\ x.history \in Seq(Entries)
                        /\ x.evidence \in BOOLEAN
<1>1. Fields(old) /\ Len(old.history) <= HistoryLimit /\ Entries = Workers \cup {Unblocked}
  BY DEF GoodRow, Row, Entries
<1>2. old = [status |-> old.status, owner |-> old.owner, reason |-> old.reason,
             age |-> old.age, history |-> old.history, evidence |-> old.evidence]
  BY DEF GoodRow, Row
<1>3. 0 \in 0 .. MaxAge /\ Len(<<>>) <= HistoryLimit /\ <<>> \in Seq(Entries)
  OBVIOUS
<1>4. \A e \in Entries : /\ Remember(old.history, e) \in Seq(Entries)
                         /\ Len(Remember(old.history, e)) <= HistoryLimit
  BY <1>1, RememberKeepsNewest
<1>5. ASSUME NEW w \in Workers PROVE GoodRow(Claimed(old, w))
  <2>1. CASE old.status = "active" /\ old.owner # NoWorker
    <3>1. old.owner \in Entries
      BY <1>1, <2>1 DEF Owners
    <3> QED BY <1>1, <1>2, <1>3, <1>4, <2>1, <3>1
            DEF GoodRow, Row, Claimed, Status, Owners, Entries
  <2>2. CASE ~(old.status = "active" /\ old.owner # NoWorker)
    BY <1>1, <1>2, <1>3, <2>2 DEF GoodRow, Row, Claimed, Status, Owners, Entries
  <2> QED BY <2>1, <2>2
<1>6. GoodRow(Written(old, c, r))
  BY <1>1, <1>2, <1>3 DEF GoodRow, Row, Written, Entries
<1>7. ASSUME NEW to \in {"queued", "blocked"} PROVE GoodRow(Released(old, to, r))
  BY <1>1, <1>2, <1>3 DEF GoodRow, Row, Released, Status, Owners, Entries
<1>8. GoodRow(AfterUnblock(old))
  <2>1. Unblocked \in Entries
    BY DEF Entries
  <2> QED BY <1>1, <1>2, <1>3, <1>4, <2>1
          DEF GoodRow, Row, AfterUnblock, Status, Owners, Entries
<1>9. GoodRow(Closed(old, s))
  BY <1>1, <1>2, <1>3 DEF GoodRow, Row, Closed, Entries
<1>10. GoodRow(Aged(old))
  <2>1. CASE old.status = "active" /\ old.age # Unreadable /\ old.age < MaxAge
    <3>1. old.age + 1 \in 0 .. MaxAge
      BY <1>1, <2>1 DEF Unreadable
    <3> QED BY <1>1, <1>2, <2>1, <3>1 DEF GoodRow, Row, Aged, Entries
  <2>2. CASE ~(old.status = "active" /\ old.age # Unreadable /\ old.age < MaxAge)
    BY <2>2 DEF Aged
  <2> QED BY <2>1, <2>2
<1>11. ASSUME NEW o \in Owners
       PROVE GoodRow(New(s, o, r, 0)) /\ GoodRow(New(s, o, r, Unreadable))
  BY <1>3 DEF GoodRow, Row, New, Absent, Entries
<1> QED BY <1>5, <1>6, <1>7, <1>8, <1>9, <1>10, <1>11

(***************************************************************************)
(* What each verb leaves in the columns the properties read.               *)
(***************************************************************************)
LEMMA RowDomain ==
  ASSUME NEW old \in Row
  PROVE  DOMAIN old = {"status", "owner", "reason", "age", "history", "evidence"}
BY DEF Row

LEMMA AfterClaim ==
  ASSUME NEW old \in Row, NEW w
  PROVE  /\ Claimed(old, w).status = "active"
         /\ Claimed(old, w).owner = w
         /\ Claimed(old, w).age = 0
         /\ Claimed(old, w).reason = FALSE
         /\ old.status = "active" /\ old.owner # NoWorker
              => Claimed(old, w).history = Remember(old.history, old.owner)
BY RowDomain DEF Claimed

LEMMA AfterWrite ==
  ASSUME NEW old \in Row, NEW c, NEW r
  PROVE  /\ Written(old, c, r).status = old.status
         /\ Written(old, c, r).owner = old.owner
         /\ Written(old, c, r).age = 0
BY RowDomain DEF Written

LEMMA AfterRelease ==
  ASSUME NEW old \in Row, NEW to, NEW r
  PROVE  /\ Released(old, to, r).status = to
         /\ Released(old, to, r).owner = NoWorker
         /\ Released(old, to, r).age = 0
BY RowDomain DEF Released

LEMMA UnblockedColumns ==
  ASSUME NEW old \in Row
  PROVE  /\ old.status = "blocked" => /\ AfterUnblock(old).status = "queued"
                                      /\ AfterUnblock(old).owner = NoWorker
         /\ old.status # "blocked" => /\ AfterUnblock(old).status = old.status
                                      /\ AfterUnblock(old).owner = old.owner
         /\ AfterUnblock(old).age = 0
         /\ AfterUnblock(old).reason = FALSE
BY RowDomain DEF AfterUnblock

LEMMA AfterClose ==
  ASSUME NEW old \in Row, NEW d
  PROVE  /\ Closed(old, d).status = d
         /\ Closed(old, d).owner = old.owner
BY RowDomain DEF Closed

LEMMA AfterTick ==
  ASSUME NEW old \in Row
  PROVE  /\ Aged(old).status = old.status
         /\ Aged(old).owner = old.owner
         /\ old.status # "active" => Aged(old) = old
         /\ Aged(old).age = Unreadable <=> old.age = Unreadable
         /\ Stale(old, MinStaleAfter) => Stale(Aged(old), MinStaleAfter)
<1>1. old.age \in 0 .. MaxAge \cup {Unreadable}
  BY DEF Row
<1> QED BY <1>1, RowDomain DEF Aged, Unreadable, Stale

RunState == [pc : Pcs, attempts : [Counters -> Nat],
             leaseOpen : BOOLEAN, launches : Nat,
             outcome : Outcomes \cup {"none"},
             verdict : Verdicts \cup {"none"},
             plan : Plans, result : Results, lost : BOOLEAN]

(***************************************************************************)
(* Types. A step of a run writes the row by one verb, and its own locals.  *)
(***************************************************************************)
(* The verbs a step applies to the row (queue.py, kg_tools.py:queue_op).    *)
RowVerb(old, new) ==
  \/ new = old
  \/ old.status = "absent" /\ new = New("queued", NoWorker, FALSE, 0)
  \/ \E r \in Runs : /\ Claimable(old, WorkerOf[r], LeaseTtl, r \in StaleRuns, FALSE)
                    /\ new = Claimed(old, WorkerOf[r])
  \/ \E r \in Runs : /\ Updatable(old, WorkerOf[r], {"checkpoint"})
                    /\ new = Written(old, {"checkpoint"}, FALSE)
  \/ \E r \in Runs : /\ Releasable(old, WorkerOf[r])
                    /\ \E to \in {"queued", "blocked"} : new = Released(old, to, TRUE)
  \/ \E r \in Runs : Closable(old, WorkerOf[r], FALSE) /\ new = Closed(old, "done")
  \/ Unblockable(old) /\ new = AfterUnblock(old)
  \/ Closable(old, NoWorker, TRUE) /\ new = Closed(old, "dropped")
  \/ new = Aged(old)

LEMMA StepWritesRow == Next => RowVerb(row, row')
<1> SUFFICES ASSUME Next PROVE RowVerb(row, row')
  OBVIOUS
<1>1. ASSUME NEW r \in Runs, Resolve(r) PROVE RowVerb(row, row')
  BY <1>1 DEF Resolve, RowVerb, Present
<1>2. ASSUME NEW r \in Runs, Claim(r) PROVE RowVerb(row, row')
  BY <1>2 DEF Claim, RowVerb
<1>3. ASSUME NEW r \in Runs, Save(r) PROVE RowVerb(row, row')
  BY <1>3 DEF Save, RowVerb
<1>4. ASSUME NEW r \in Runs, Finish(r) PROVE RowVerb(row, row')
  BY <1>4 DEF Finish, RowVerb
<1>5. ASSUME NEW r \in Runs, GiveBack(r) PROVE RowVerb(row, row')
  BY <1>5 DEF GiveBack, RowVerb, Destination
<1>6. ASSUME NEW r \in Runs, Brief(r) \/ Reply(r) \/ Validate(r) \/ Raise(r) \/ Crash(r)
      PROVE  RowVerb(row, row')
  BY <1>6 DEF Brief, Reply, Validate, Raise, Crash, RowVerb
<1>7. CASE OperatorUnblock \/ OperatorDrop \/ Tick
  BY <1>7 DEF OperatorUnblock, OperatorDrop, Tick, RowVerb
<1> QED BY <1>1, <1>2, <1>3, <1>4, <1>5, <1>6, <1>7 DEF Next, Step

LEMMA VerbKeepsRow ==
  ASSUME NEW old, GoodRow(old), NEW new, RowVerb(old, new)
  PROVE  GoodRow(new)
<1>1. \A s \in Status, r \in BOOLEAN :
        /\ \A w \in Workers : GoodRow(Claimed(old, w))
        /\ GoodRow(Written(old, {"checkpoint"}, r))
        /\ \A to \in {"queued", "blocked"} : GoodRow(Released(old, to, r))
        /\ GoodRow(AfterUnblock(old)) /\ GoodRow(Closed(old, s)) /\ GoodRow(Aged(old))
        /\ GoodRow(New(s, NoWorker, r, 0))
  BY VerbsKeepRows DEF Owners
<1>2. {"queued", "done", "dropped"} \subseteq Status /\ TRUE \in BOOLEAN /\ FALSE \in BOOLEAN
  BY DEF Status, Terminal
<1> QED BY <1>1, <1>2 DEF RowVerb

LEMMA BumpKeepsCounters ==
  ASSUME NEW a \in [Counters -> Nat], NEW c \in Counters
  PROVE  Bump(a, c) \in [Counters -> Nat]
BY DEF Bump, Counters

(* A step of a run leaves the locals of every other run alone.             *)
LEMMA OtherRunsKeepState ==
  ASSUME TypeOK, NEW r \in Runs, Step(r) \/ Raise(r) \/ Crash(r)
  PROVE  /\ run' = [run EXCEPT ![r] = run'[r]]
         /\ \A s \in Runs \ {r} : run'[s] = run[s]
<1>1. ASSUME NEW state, Become(r, state)
      PROVE  run' = [run EXCEPT ![r] = run'[r]] /\ \A s \in Runs \ {r} : run'[s] = run[s]
  BY <1>1 DEF Become, TypeOK
<1> QED BY <1>1 DEF Step, Raise, Crash, Resolve, Claim, Brief, Reply, Validate, Save,
                    Finish, GiveBack, Planned

(* What holds of the locals of a run: it validates a reply that it has, it  *)
(* carries out no retry without its own plan, only a static PASS of a      *)
(* candidate is planned complete, and only a run that returned has a       *)
(* result (process_target).                                                *)
GoodRun(s) ==
  /\ s \in RunState
  /\ s.pc = "validating" => s.outcome \in Outcomes
  /\ s.pc = "ending" => s.plan # "retry"
  /\ s.plan = "complete" => /\ s.verdict = "PASS" /\ s.outcome = "candidate"
                            /\ s.pc \in {"saving", "ending", "ended", "crashed"}
  /\ s.result # "none" => s.pc = "ended"
  /\ s.result = "complete" => s.plan = "complete"

LEMMA RunStaysGood ==
  ASSUME TypeOK, NEW r \in Runs, GoodRun(run[r]), Step(r) \/ Raise(r) \/ Crash(r)
  PROVE  GoodRun(run'[r]) /\ stored' \in [Counters -> Nat]
<1> DEFINE old == run[r]
<1>1. /\ run \in [Runs -> RunState] /\ old \in RunState /\ GoodRun(old)
      /\ old.attempts \in [Counters -> Nat] /\ stored \in [Counters -> Nat]
      /\ old.launches \in Nat
  BY DEF TypeOK, RunState
<1>2. ASSUME NEW state, GoodRun(state), Become(r, state) PROVE GoodRun(run'[r])
  BY <1>1, <1>2 DEF Become
<1>3. ASSUME NEW a \in [Counters -> Nat], NEW p \in Plans \ {"complete"},
             old.result = "none", Planned(r, p, a)
      PROVE  GoodRun(run'[r])
  <2>1. GoodRun([run[r] EXCEPT !.pc = "saving", !.plan = p, !.attempts = a])
    BY <1>1, <1>3 DEF GoodRun, RunState, Pcs
  <2> QED BY <1>2, <1>3, <2>1 DEF Planned
<1>4. CASE Resolve(r)
  <2>1. old.pc = "idle" => GoodRun([run[r] EXCEPT !.pc = "claiming"])
    BY <1>1 DEF GoodRun, RunState, Pcs
  <2> QED BY <1>1, <1>2, <1>4, <2>1 DEF Resolve, At
<1>5. CASE Claim(r)
  <2>1. old.pc = "claiming"
    BY <1>5 DEF Claim, At
  <2>2. GoodRun([run[r] EXCEPT !.pc = "briefing", !.attempts = stored, !.leaseOpen = TRUE])
    BY <1>1, <2>1 DEF GoodRun, RunState, Pcs
  <2>3. GoodRun([run[r] EXCEPT !.pc = "ended", !.result = "skipped"])
    BY <1>1, <2>1 DEF GoodRun, RunState, Pcs, Results
  <2> QED BY <1>1, <1>2, <1>5, <2>2, <2>3 DEF Claim
<1>6. CASE Brief(r)
  <2>1. Bump(old.attempts, "total") \in [Counters -> Nat] /\ old.pc = "briefing"
    BY <1>1, <1>6, BumpKeepsCounters DEF Counters, Brief, At
  <2>2. GoodRun([run[r] EXCEPT !.pc = "saving", !.plan = "park", !.attempts = Bump(@, "total")])
    BY <1>1, <2>1 DEF GoodRun, RunState, Pcs, Plans
  <2>3. \A n \in Nat : GoodRun([run[r] EXCEPT !.pc = "working", !.launches = n])
    BY <1>1, <2>1 DEF GoodRun, RunState, Pcs
  <2>4. old.launches + 1 \in Nat
    BY <1>1
  <2> QED BY <1>1, <1>2, <1>6, <2>2, <2>3, <2>4 DEF Brief
<1>7. CASE Reply(r)
  <2>1. /\ Bump(old.attempts, "total") \in [Counters -> Nat]
        /\ Bump(old.attempts, "malformed") \in [Counters -> Nat]
        /\ Bump(Bump(old.attempts, "malformed"), "total") \in [Counters -> Nat]
    BY <1>1, BumpKeepsCounters DEF Counters
  <2>2. {"spawn", "exhausted", "park", "partial"} \subseteq Plans \ {"complete"}
    BY DEF Plans
  <2>3. old.pc = "working" /\ old.result = "none" /\ stored' = stored
    BY <1>1, <1>7 DEF Reply, At, GoodRun
  <2>4. \A o \in Outcomes : GoodRun([run[r] EXCEPT !.pc = "validating", !.outcome = o])
    BY <1>1, <2>3 DEF GoodRun, RunState, Pcs
  <2>5. CASE \E o \in Outcomes : Become(r, [run[r] EXCEPT !.pc = "validating", !.outcome = o])
    BY <1>1, <1>2, <2>3, <2>4, <2>5
  <2>6. CASE \/ Planned(r, "spawn", Bump(old.attempts, "total"))
             \/ Planned(r, "exhausted", Bump(old.attempts, "total"))
             \/ Planned(r, "park", Bump(Bump(old.attempts, "malformed"), "total"))
             \/ Planned(r, "partial", Bump(old.attempts, "malformed"))
    BY <1>1, <1>3, <2>1, <2>2, <2>3, <2>6
  <2> QED BY <1>1, <1>7, <2>5, <2>6 DEF Reply
<1>8. CASE Validate(r)
  <2>1. Bump(Bump(old.attempts, "replace"), "validate") \in [Counters -> Nat]
    BY <1>1, BumpKeepsCounters DEF Counters
  <2>2. PICK v \in Verdicts : Become(r, [run[r] EXCEPT
          !.pc = "saving", !.verdict = v, !.plan = Reconcile(run[r].outcome, v),
          !.attempts = Bump(Bump(@, "replace"), "validate")])
    BY <1>8 DEF Validate
  <2>3. old.pc = "validating" /\ old.outcome \in Outcomes /\ old.result = "none"
    BY <1>1, <1>8 DEF Validate, At, GoodRun
  <2>4. /\ Reconcile(old.outcome, v) \in {"complete", "retry", "review"}
        /\ Reconcile(old.outcome, v) = "complete" => v = "PASS" /\ old.outcome = "candidate"
    BY <2>3 DEF Reconcile, Verdicts, Outcomes
  <2> DEFINE plan == Reconcile(old.outcome, v)
             counters == Bump(Bump(old.attempts, "replace"), "validate")
  <2>5. run'[r] = [run[r] EXCEPT !.pc = "saving", !.verdict = v, !.plan = plan,
                                 !.attempts = counters]
    BY <1>1, <2>2 DEF Become
  <2>6. plan \in Plans
    BY <2>4 DEF Plans
  <2> HIDE DEF plan, counters
  <2>7. GoodRun(run'[r])
    BY <1>1, <2>1, <2>3, <2>4, <2>5, <2>6 DEF GoodRun, RunState, Pcs, plan, counters
  <2> QED BY <1>1, <1>8, <2>7 DEF Validate
<1>9. CASE Save(r)
  <2>1. /\ old.pc = "saving" /\ old.result = "none"
        /\ stored' \in [Counters -> Nat]
    BY <1>1, <1>9 DEF Save, At, GoodRun
  <2>2. CASE old.plan # "retry"
    <3>1. GoodRun([run[r] EXCEPT !.pc = "ending"])
      BY <1>1, <2>1, <2>2 DEF GoodRun, RunState, Pcs
    <3> QED BY <1>2, <1>9, <2>1, <2>2, <3>1 DEF Save
  <2>3. CASE old.plan = "retry"
    <3>1. /\ Bump(old.attempts, "outcomes") \in [Counters -> Nat]
          /\ Bump(old.attempts, "total") \in [Counters -> Nat]
          /\ Bump(Bump(old.attempts, "outcomes"), "total") \in [Counters -> Nat]
      BY <1>1, BumpKeepsCounters DEF Counters
    <3>2. ASSUME NEW a \in [Counters -> Nat], NEW p \in {"park", "requeue"}
          PROVE  GoodRun([run[r] EXCEPT !.plan = p, !.attempts = a])
      BY <1>1, <2>1 DEF GoodRun, RunState, Plans
    <3>3. GoodRun(AfterRetry(r))
      BY <1>1, <3>1, <3>2 DEF AfterRetry
    <3> QED BY <1>2, <1>9, <2>1, <2>3, <3>3 DEF Save
  <2> QED BY <2>2, <2>3
<1>10. CASE Finish(r)
  <2>1. old.pc = "ending" /\ old.plan = "complete"
    BY <1>10 DEF Finish, At
  <2>2. GoodRun([run[r] EXCEPT !.pc = "ended", !.result = "complete", !.leaseOpen = FALSE])
    BY <1>1, <2>1 DEF GoodRun, RunState, Pcs, Results
  <2>3. \A l \in BOOLEAN : GoodRun([run[r] EXCEPT
          !.pc = "ended", !.result = "conflict", !.leaseOpen = FALSE, !.lost = l])
    BY <1>1, <2>1 DEF GoodRun, RunState, Pcs, Results
  <2>4. (old.lost \/ Closable(row, WorkerOf[r], FALSE)) \in BOOLEAN
    OBVIOUS
  <2> QED BY <1>1, <1>2, <1>10, <2>2, <2>3, <2>4 DEF Finish
<1>11. CASE GiveBack(r)
  <2>1. /\ old.pc = "ending" /\ old.plan \in Plans \ {"complete", "retry"}
        /\ old.result = "none"
    BY <1>1, <1>11 DEF GiveBack, At, GoodRun, RunState
  <2>2. ResultOf(old.plan) \in Results \ {"complete"} \/ old.plan = "requeue"
    BY <2>1 DEF ResultOf, Results, Plans
  <2>3. ASSUME NEW l \in BOOLEAN, NEW p \in {"briefing"}
        PROVE  GoodRun([run[r] EXCEPT !.leaseOpen = FALSE, !.lost = l, !.pc = p,
                                      !.result = old.result])
    BY <1>1, <2>1 DEF GoodRun, RunState, Pcs
  <2>4. ASSUME NEW l \in BOOLEAN, NEW e \in Results \ {"complete"}
        PROVE  GoodRun([run[r] EXCEPT !.leaseOpen = FALSE, !.lost = l, !.pc = "ended",
                                      !.result = e])
    BY <1>1, <2>1 DEF GoodRun, RunState, Pcs
  <2>5. PICK ok \in BOOLEAN : Become(r, [run[r] EXCEPT
            !.leaseOpen = FALSE, !.lost = @ \/ ~ok,
            !.pc     = IF old.plan = "requeue" THEN "briefing" ELSE "ended",
            !.result = IF old.plan = "requeue" THEN @ ELSE ResultOf(old.plan)])
    BY <1>11 DEF GiveBack
  <2> DEFINE l == old.lost \/ ~ok
  <2>6. l \in BOOLEAN
    OBVIOUS
  <2>7. CASE old.plan = "requeue"
    <3>1. Become(r, [run[r] EXCEPT !.leaseOpen = FALSE, !.lost = l, !.pc = "briefing",
                                   !.result = old.result])
      BY <2>5, <2>7
    <3> QED BY <1>1, <1>2, <1>11, <2>3, <2>6, <3>1 DEF GiveBack
  <2>8. CASE old.plan # "requeue"
    <3>1. Become(r, [run[r] EXCEPT !.leaseOpen = FALSE, !.lost = l, !.pc = "ended",
                                   !.result = ResultOf(old.plan)])
      BY <2>5, <2>8
    <3> QED BY <1>1, <1>2, <1>11, <2>2, <2>4, <2>6, <2>8, <3>1 DEF GiveBack
  <2> QED BY <2>7, <2>8
<1>12. CASE Raise(r)
  <2>1. /\ Bump(old.attempts, "total") \in [Counters -> Nat]
        /\ "error" \in Plans \ {"complete"} /\ old.result = "none"
    BY <1>1, <1>12, BumpKeepsCounters DEF Counters, Plans, Raise, GoodRun
  <2> QED BY <1>1, <1>3, <1>12, <2>1 DEF Raise
<1>13. CASE Crash(r)
  <2>1. old.result = "none"
    BY <1>1, <1>13 DEF Crash, GoodRun
  <2>2. GoodRun([run[r] EXCEPT !.pc = "crashed"])
    BY <1>1, <2>1 DEF GoodRun, RunState, Pcs
  <2> QED BY <1>1, <1>2, <1>13, <2>2 DEF Crash
<1> QED BY <1>4, <1>5, <1>6, <1>7, <1>8, <1>9, <1>10, <1>11, <1>12, <1>13 DEF Step

(* A step is one of a run, which leaves the others alone, or the           *)
(* operator's or the clock's, which leaves every run alone.                *)
LEMMA NextIsRunOrOther ==
  ASSUME Next
  PROVE  \/ \E r \in Runs : Step(r) \/ Raise(r) \/ Crash(r)
         \/ UNCHANGED <<stored, run>>
BY DEF Next, OperatorUnblock, OperatorDrop, Tick

(* TypeOK needs GoodRun: what a run plans depends on the reply it has.     *)
Typed == TypeOK /\ \A r \in Runs : GoodRun(run[r])

LEMMA AlwaysTyped == Spec => []Typed
<1>1. Init => Typed
  <2> SUFFICES ASSUME Init PROVE Typed
    OBVIOUS
  <2>1. GoodRow(row)
    <3>1. /\ <<>> \in Seq(Workers \cup {Unblocked}) /\ Len(<<>>) <= HistoryLimit
          /\ 0 \in 0 .. MaxAge /\ NoWorker \in Owners
      BY DEF Owners
    <3>2. GoodRow(Absent)
      BY <3>1 DEF GoodRow, Row, Absent
    <3>3. "queued" \in Status /\ FALSE \in BOOLEAN
      BY DEF Status
    <3>4. GoodRow(New("queued", NoWorker, FALSE, Unreadable))
      BY <3>1, <3>2, <3>3, VerbsKeepRows
    <3> QED BY <3>2, <3>4 DEF Init
  <2>2. Fresh \in RunState /\ GoodRun(Fresh)
    BY DEF Fresh, NoAttempts, GoodRun, RunState, Pcs, Plans, Results
  <2> QED BY <2>1, <2>2 DEF Init, Typed, TypeOK, GoodRow, RunState
<1>2. Typed /\ [Next]_vars => Typed'
  <2> SUFFICES ASSUME Typed, [Next]_vars PROVE Typed'
    OBVIOUS
  <2>1. CASE UNCHANGED vars
    BY <2>1 DEF vars, Typed, TypeOK
  <2>2. CASE Next
    <3>1. GoodRow(row')
      BY <2>2, StepWritesRow, VerbKeepsRow DEF Typed, TypeOK, GoodRow
    <3>2. CASE UNCHANGED <<stored, run>>
      BY <3>1, <3>2 DEF Typed, TypeOK, GoodRow
    <3>3. ASSUME NEW r \in Runs, Step(r) \/ Raise(r) \/ Crash(r)
          PROVE  Typed'
      <4>1. GoodRun(run'[r]) /\ stored' \in [Counters -> Nat]
        BY <3>3, RunStaysGood DEF Typed
      <4>2. /\ run' = [run EXCEPT ![r] = run'[r]]
            /\ \A s \in Runs \ {r} : run'[s] = run[s]
        BY <3>3, OtherRunsKeepState DEF Typed
      <4>3. run' \in [Runs -> RunState]
        BY <4>1, <4>2 DEF Typed, TypeOK, GoodRun, RunState
      <4>4. \A s \in Runs : GoodRun(run'[s])
        BY <4>1, <4>2 DEF Typed
      <4> QED BY <3>1, <4>1, <4>3, <4>4 DEF Typed, TypeOK, GoodRow, RunState
    <3> QED BY <2>2, <3>2, <3>3, NextIsRunOrOther
  <2> QED BY <2>1, <2>2
<1> QED BY <1>1, <1>2, PTL DEF Spec

(* The row and the locals of every run keep their types (TypeOK).          *)
THEOREM TypeCorrect == Spec => []TypeOK
<1>1. Typed => TypeOK
  BY DEF Typed
<1> QED BY <1>1, AlwaysTyped, PTL

(***************************************************************************)
(* Who completes a row.                                                    *)
(***************************************************************************)
(* No step of any run, of the operator or of the clock rewrites a row that *)
(* is done or dropped, however late it comes.                              *)
LEMMA TerminalRowStays ==
  ASSUME Next, row.status \in Terminal
  PROVE  row' = row
BY StepWritesRow DEF RowVerb, Terminal, Claimable, Updatable, Releasable, Closable,
                     Unblockable, HeldBy, Live, Aged

(* A run that is told it completed found the row open, and leaves it done. *)
LEMMA CompletionNeedsOpenRow ==
  ASSUME Typed, Next, NEW r \in Runs,
         run[r].result # "complete", run'[r].result = "complete"
  PROVE  /\ Closable(row, WorkerOf[r], FALSE)
         /\ row' = Closed(row, "done")
         /\ \A s \in Runs \ {r} : run'[s] = run[s]
<1>1. Step(r) \/ Raise(r) \/ Crash(r)
  <2>1. ASSUME NEW s \in Runs \ {r}, Step(s) \/ Raise(s) \/ Crash(s) PROVE FALSE
    BY <2>1, OtherRunsKeepState DEF Typed
  <2> QED BY <2>1, NextIsRunOrOther
<1>2. \A s \in Runs \ {r} : run'[s] = run[s]
  BY <1>1, OtherRunsKeepState DEF Typed
<1> DEFINE old == run[r]
<1>3. old \in RunState /\ run \in [Runs -> RunState] /\ GoodRun(old)
  BY DEF Typed, TypeOK, RunState
<1>4. ASSUME NEW state, state.result = old.result \/ state.result # "complete", Become(r, state)
      PROVE  FALSE
  BY <1>3, <1>4 DEF Become
<1>5. ~(Resolve(r) \/ Brief(r) \/ Validate(r) \/ Crash(r) \/ Raise(r))
  BY <1>3, <1>4 DEF Resolve, Brief, Validate, Crash, Raise, Planned, RunState
<1>6. ~Claim(r)
  BY <1>3, <1>4 DEF Claim, RunState
<1>7. ~Reply(r)
  BY <1>3, <1>4 DEF Reply, Planned, RunState
<1>8. ~Save(r)
  BY <1>3, <1>4 DEF Save, AfterRetry, RunState
<1>9. ~GiveBack(r)
  <2>1. old.plan \in Plans /\ old.plan # "complete" => ResultOf(old.plan) # "complete"
    BY DEF ResultOf, Plans
  <2> QED BY <1>3, <1>4, <2>1 DEF GiveBack, RunState
<1>10. Finish(r)
  BY <1>1, <1>5, <1>6, <1>7, <1>8, <1>9 DEF Step
<1>11. Closable(row, WorkerOf[r], FALSE) /\ row' = Closed(row, "done")
  BY <1>3, <1>4, <1>10 DEF Finish, RunState
<1> QED BY <1>2, <1>11

(* What every reachable state has besides types: a completed row is done,  *)
(* and one run completed it.                                               *)
Earned == Typed /\ CompletionIsEarned

LEMMA StepKeepsEarned ==
  ASSUME Earned, Typed', Next
  PROVE  CompletionIsEarned'
<1>1. ASSUME NEW r \in Runs, run'[r].result = "complete"
      PROVE  /\ run'[r].verdict = "PASS" /\ run'[r].outcome = "candidate"
             /\ (row.status = "done" /\ run[r].result = "complete") \/
                (run[r].result # "complete" /\ row.status # "done")
             /\ row'.status = "done"
  <2>1. run'[r].verdict = "PASS" /\ run'[r].outcome = "candidate"
    BY <1>1 DEF Typed, GoodRun
  <2>2. CASE run[r].result = "complete"
    <3>1. row.status = "done"
      BY <2>2 DEF Earned, CompletionIsEarned
    <3> QED BY <2>1, <2>2, <3>1, TerminalRowStays DEF Terminal
  <2>3. CASE run[r].result # "complete"
    <3>1. Closable(row, WorkerOf[r], FALSE) /\ row' = Closed(row, "done") /\ row \in Row
      BY <1>1, <2>3, CompletionNeedsOpenRow DEF Earned, Typed, TypeOK
    <3>2. row'.status = "done" /\ row.status # "done"
      BY <3>1, AfterClose DEF Closable, HeldBy
    <3> QED BY <2>1, <2>3, <3>2
  <2> QED BY <2>2, <2>3
<1>2. ASSUME NEW r \in Runs, NEW s \in Runs,
             run'[r].result = "complete", run'[s].result = "complete", r # s
      PROVE  FALSE
  <2>1. CASE run[r].result = "complete" /\ run[s].result = "complete"
    BY <1>2, <2>1 DEF Earned, CompletionIsEarned
  <2>2. CASE run[r].result # "complete" /\ run[s].result # "complete"
    <3>1. run'[s] = run[s]
      BY <1>2, <2>2, CompletionNeedsOpenRow DEF Earned
    <3> QED BY <1>2, <2>2, <3>1
  <2>3. CASE row.status = "done" /\ row.status # "done"
    BY <2>3
  <2> QED BY <1>1, <1>2, <2>1, <2>2, <2>3
<1> QED BY <1>1, <1>2 DEF CompletionIsEarned

(* However many runs work on the row, hold it or lost it, "complete" is    *)
(* told to one of them, for a candidate with a static PASS, and the row is *)
(* done (reconcile, and the conflict of a lost close).                     *)
THEOREM CompletionsAreEarned == Spec => []CompletionIsEarned
<1>1. Init => CompletionIsEarned
  BY DEF Init, CompletionIsEarned, Fresh
<1>2. Earned /\ Typed' /\ [Next]_vars => CompletionIsEarned'
  <2>1. ASSUME Earned, UNCHANGED vars PROVE CompletionIsEarned'
    BY <2>1 DEF Earned, vars, CompletionIsEarned
  <2> QED BY <2>1, StepKeepsEarned
<1>3. Typed /\ CompletionIsEarned <=> Earned
  BY DEF Earned
<1> QED BY <1>1, <1>2, <1>3, AlwaysTyped, PTL DEF Spec

(* A run whose lease was taken over is not told "complete" while its       *)
(* successor holds the row (_queue_close).                                 *)
THEOREM HoldersAreNotOverruled == Spec => NoFinishOverHolder
<1>1. ASSUME Typed, [Next]_vars, NEW r \in Runs, NEW w \in Workers,
             HeldBy(row, w), w # WorkerOf[r], run[r].result # "complete"
      PROVE  run'[r].result # "complete"
  <2>1. CASE UNCHANGED vars
    BY <1>1, <2>1 DEF vars
  <2>2. ASSUME Next, run'[r].result = "complete" PROVE FALSE
    BY <1>1, <2>2, CompletionNeedsOpenRow DEF Closable, HeldBy, Terminal
  <2> QED BY <1>1, <2>1, <2>2
<1>2. Typed /\ [Next]_vars =>
        \A r \in Runs, w \in Workers :
          HeldBy(row, w) /\ w # WorkerOf[r] /\ run[r].result # "complete"
            => run'[r].result # "complete"
  BY <1>1
<1> QED BY <1>2, AlwaysTyped, PTL DEF Spec, NoFinishOverHolder

(***************************************************************************)
(* Leases.                                                                 *)
(***************************************************************************)
(* What the verbs that Orchestrator uses leave in the columns that say who *)
(* holds a row.                                                            *)
LEMMA HolderAfterVerb ==
  ASSUME NEW x \in Row
  PROVE  /\ New("queued", NoWorker, FALSE, 0).status = "queued"
         /\ Written(x, {"checkpoint"}, FALSE).status = x.status
         /\ Written(x, {"checkpoint"}, FALSE).owner = x.owner
         /\ Closed(x, "done").status = "done" /\ Closed(x, "dropped").status = "dropped"
         /\ Released(x, "queued", TRUE).status = "queued"
         /\ Released(x, "blocked", TRUE).status = "blocked"
<1>1. New("queued", NoWorker, FALSE, 0).status = "queued"
  BY DEF New, Absent
<1>2. /\ Written(x, {"checkpoint"}, FALSE).status = x.status
      /\ Written(x, {"checkpoint"}, FALSE).owner = x.owner
  BY AfterWrite
<1>3. Closed(x, "done").status = "done" /\ Closed(x, "dropped").status = "dropped"
  BY AfterClose
<1>4. /\ Released(x, "queued", TRUE).status = "queued"
      /\ Released(x, "blocked", TRUE).status = "blocked"
  BY AfterRelease
<1> QED BY <1>1, <1>2, <1>3, <1>4

(* A worker comes to hold the row by a claim of a run it works for.         *)
LEMMA OnlyClaimsHold ==
  ASSUME TypeOK, Next, NEW w \in Workers, HeldBy(row, w)', ~HeldBy(row, w)
  PROVE  \E r \in Runs : WorkerOf[r] = w /\ Claim(r) /\ row' = Claimed(row, w)
<1>1. row \in Row /\ w # NoWorker
  BY DEF TypeOK
<1>2. ASSUME NEW r \in Runs, Resolve(r) PROVE FALSE
  BY <1>1, <1>2, HolderAfterVerb DEF Resolve, HeldBy
<1>3. ASSUME NEW r \in Runs, Save(r) PROVE FALSE
  BY <1>1, <1>3, HolderAfterVerb DEF Save, HeldBy
<1>4. ASSUME NEW r \in Runs, Finish(r) PROVE FALSE
  BY <1>1, <1>4, HolderAfterVerb DEF Finish, HeldBy
<1>5. ASSUME NEW r \in Runs, GiveBack(r) PROVE FALSE
  <2>1. row' = Released(row, Destination(run[r].plan), TRUE) \/ row' = row
    BY <1>5 DEF GiveBack
  <2> QED BY <1>1, <2>1, HolderAfterVerb DEF HeldBy, Destination
<1>6. ASSUME NEW r \in Runs, Brief(r) \/ Reply(r) \/ Validate(r) \/ Raise(r) \/ Crash(r)
      PROVE  FALSE
  BY <1>6 DEF Brief, Reply, Validate, Raise, Crash, HeldBy
<1>7. ~OperatorUnblock
  BY <1>1, UnblockedColumns DEF OperatorUnblock, HeldBy
<1>8. ~OperatorDrop
  BY <1>1, AfterClose DEF OperatorDrop, HeldBy
<1>9. ~Tick
  BY <1>1, AfterTick DEF Tick, HeldBy
<1>10. PICK r \in Runs : Claim(r)
  BY <1>2, <1>3, <1>4, <1>5, <1>6, <1>7, <1>8, <1>9 DEF Next, Step
<1>11. row' # row
  BY DEF HeldBy
<1>12. row' = Claimed(row, WorkerOf[r])
  BY <1>10, <1>11 DEF Claim
<1>13. WorkerOf[r] = w
  BY <1>1, <1>12, AfterClaim DEF HeldBy
<1> QED BY <1>10, <1>12, <1>13

(* A run whose worker holds the row is at work under its claim, unless its *)
(* process died, or the write that was to end the lease was refused.       *)
HoldsKnowingly(r) ==
  HeldBy(row, WorkerOf[r]) =>
    \/ run[r].lost
    \/ run[r].pc = "crashed"
    \/ /\ run[r].leaseOpen
       /\ run[r].pc \in {"briefing", "working", "validating", "saving", "ending"}

LEMMA OwnStepHoldsKnowingly ==
  ASSUME Typed, NEW r \in Runs, Step(r) \/ Raise(r) \/ Crash(r), HoldsKnowingly(r), Next
  PROVE  HoldsKnowingly(r)'
<1> DEFINE old == run[r]
           w == WorkerOf[r]
<1> SUFFICES ASSUME HeldBy(row, w)'
             PROVE  \/ run'[r].lost \/ run'[r].pc = "crashed"
                    \/ /\ run'[r].leaseOpen
                       /\ run'[r].pc \in {"briefing", "working", "validating",
                                          "saving", "ending"}
  BY DEF HoldsKnowingly
<1>1. /\ run \in [Runs -> RunState] /\ old \in RunState /\ row \in Row
      /\ w \in Workers /\ w # NoWorker
  BY DEF Typed, TypeOK, RunState
<1>2. ASSUME NEW state, Become(r, state) PROVE run'[r] = state
  BY <1>1, <1>2 DEF Become
<1>3. CASE Resolve(r)
  <2>1. row' = row /\ old.pc = "idle" /\ HeldBy(row, w)
    BY <1>1, <1>3, HolderAfterVerb DEF Resolve, HeldBy, At
  <2>2. run'[r].lost = old.lost
    BY <1>1, <1>2, <1>3 DEF Resolve, RunState
  <2> QED BY <2>1, <2>2 DEF HoldsKnowingly
<1>4. CASE Claim(r)
  BY <1>1, <1>2, <1>4 DEF Claim, HoldsKnowingly, HeldBy, At, RunState
<1>5. CASE Brief(r)
  <2>1. HeldBy(row, w) /\ old.pc = "briefing"
    BY <1>5 DEF Brief, HeldBy, At
  <2>2. /\ run'[r].lost = old.lost /\ run'[r].leaseOpen = old.leaseOpen
        /\ run'[r].pc \in {"working", "saving"}
    BY <1>1, <1>2, <1>5 DEF Brief, RunState
  <2> QED BY <2>1, <2>2 DEF HoldsKnowingly
<1>6. CASE Reply(r) \/ Validate(r) \/ Raise(r)
  <2>1. HeldBy(row, w) /\ old.pc \in {"briefing", "working", "validating"}
    BY <1>6 DEF Reply, Validate, Raise, HeldBy, At
  <2>2. ASSUME NEW plan, NEW attempts, Planned(r, plan, attempts)
        PROVE  /\ run'[r].lost = old.lost /\ run'[r].leaseOpen = old.leaseOpen
               /\ run'[r].pc = "saving"
    BY <1>1, <1>2, <2>2 DEF Planned, RunState
  <2>3. ASSUME NEW outcome, Become(r, [old EXCEPT !.pc = "validating", !.outcome = outcome])
        PROVE  /\ run'[r].lost = old.lost /\ run'[r].leaseOpen = old.leaseOpen
               /\ run'[r].pc = "validating"
    BY <1>1, <1>2, <2>3 DEF RunState
  <2>4. CASE Reply(r)
    BY <2>1, <2>2, <2>3, <2>4 DEF Reply, HoldsKnowingly
  <2>5. CASE Validate(r)
    <3>1. /\ run'[r].lost = old.lost /\ run'[r].leaseOpen = old.leaseOpen
          /\ run'[r].pc = "saving"
      BY <1>1, <1>2, <2>5 DEF Validate, RunState
    <3> QED BY <2>1, <3>1 DEF HoldsKnowingly
  <2>6. CASE Raise(r)
    BY <2>1, <2>2, <2>6 DEF Raise, HoldsKnowingly
  <2> QED BY <1>6, <2>4, <2>5, <2>6
<1>10. CASE Crash(r)
  BY <1>1, <1>2, <1>10 DEF Crash, RunState
<1>7. CASE Save(r)
  <2>1. HeldBy(row, w) /\ old.pc = "saving"
    BY <1>1, <1>7, HolderAfterVerb DEF Save, HeldBy, At
  <2>2. /\ run'[r].lost = old.lost /\ run'[r].leaseOpen = old.leaseOpen
        /\ run'[r].pc \in {"saving", "ending"}
    BY <1>1, <1>2, <1>7, <2>1 DEF Save, AfterRetry, RunState
  <2> QED BY <2>1, <2>2 DEF HoldsKnowingly
<1>8. CASE Finish(r)
  <2>1. row' # Closed(row, "done")
    BY <1>1, AfterClose DEF HeldBy
  <2>2. /\ row' = row
        /\ run'[r] = [old EXCEPT !.pc = "ended", !.result = "conflict", !.leaseOpen = FALSE,
                                 !.lost = @ \/ Closable(row, w, FALSE)]
    BY <1>1, <1>2, <1>8, <2>1 DEF Finish
  <2>3. run'[r].lost = (old.lost \/ Closable(row, w, FALSE))
    BY <1>1, <2>2 DEF RunState
  <2>4. Closable(row, w, FALSE)
    BY <2>2 DEF Closable, HeldBy
  <2> QED BY <2>3, <2>4
<1>9. CASE GiveBack(r)
  <2>1. old.pc = "ending" /\ row' # Released(row, Destination(old.plan), TRUE)
    BY <1>1, <1>9, HolderAfterVerb DEF GiveBack, HeldBy, At, Destination
  <2> DEFINE held == Releasable(row, w) /\ (old.plan = "error" => old.leaseOpen)
  <2>2. PICK ok \in IF held THEN BOOLEAN ELSE {TRUE} :
          /\ row' = IF held /\ ok THEN Released(row, Destination(old.plan), TRUE) ELSE row
          /\ run'[r].lost = (old.lost \/ ~ok)
    BY <1>1, <1>2, <1>9 DEF GiveBack, RunState
  <2>3. row' = row /\ ~(held /\ ok)
    BY <2>1, <2>2
  <2>4. HeldBy(row, w)
    BY <2>3 DEF HeldBy
  <2>5. old.lost \/ held
    BY <1>1, <2>1, <2>4 DEF HoldsKnowingly, Releasable
  <2> QED BY <2>2, <2>3, <2>5
<1> QED BY <1>3, <1>4, <1>5, <1>6, <1>7, <1>8, <1>9, <1>10 DEF Step

(* When no two runs share a worker's name, a run that returned holds no    *)
(* lease, whichever path it took, unless the database refused the write    *)
(* that was to end it (_release_after_exception, close, release).          *)
THEOREM EndedRunsHoldNothing ==
  ASSUME \A r, s \in Runs : WorkerOf[r] = WorkerOf[s] => r = s
  PROVE  Spec => []EndedRunHoldsNothing
<1> DEFINE Known == \A r \in Runs : HoldsKnowingly(r)
<1>1. Init => Known
  <2>1. /\ Absent.status = "absent"
        /\ New("queued", NoWorker, FALSE, Unreadable).status = "queued"
    BY DEF Absent, New
  <2> QED BY <2>1 DEF Init, HoldsKnowingly, HeldBy
<1>2. Typed /\ Known /\ [Next]_vars => Known'
  <2> SUFFICES ASSUME Typed, Known, [Next]_vars, NEW r \in Runs
               PROVE  HoldsKnowingly(r)'
    OBVIOUS
  <2>1. CASE UNCHANGED vars
    BY <2>1 DEF vars, HoldsKnowingly, HeldBy
  <2>2. CASE Next /\ (Step(r) \/ Raise(r) \/ Crash(r))
    BY <2>2, OwnStepHoldsKnowingly
  <2>3. CASE Next /\ ~(Step(r) \/ Raise(r) \/ Crash(r))
    <3>1. run'[r] = run[r]
      BY <2>3, NextIsRunOrOther, OtherRunsKeepState DEF Typed
    <3>2. HeldBy(row, WorkerOf[r])' => HeldBy(row, WorkerOf[r])
      BY <2>3, OnlyClaimsHold DEF Typed, Step
    <3> QED BY <3>1, <3>2 DEF HoldsKnowingly
  <2> QED BY <2>1, <2>2, <2>3
<1>3. Known => EndedRunHoldsNothing
  BY DEF HoldsKnowingly, EndedRunHoldsNothing
<1> HIDE DEF Known
<1> QED BY <1>1, <1>2, <1>3, AlwaysTyped, PTL DEF Spec

(***************************************************************************)
(* Retries.  Every launch after the first is paid for by a counter that    *)
(* its class bounds; a run that may launch has not spent its budget.       *)
(***************************************************************************)
Least(m, n) == IF m < n THEN m ELSE n

Budget(validate, outcomes) ==
  Least(validate, MaxValidationRetries) + Least(outcomes, MaxAttempts - 1)

LEMMA BudgetGrows ==
  ASSUME NEW v \in Nat, NEW o \in Nat
  PROVE  /\ Budget(v, o) \in Nat
         /\ Budget(v, o) + 1 <= MaxValidationRetries + MaxAttempts
         /\ Budget(v, o) <= Budget(v + 1, o)
         /\ Budget(v, o) <= Budget(v, o + 1)
         /\ v + 1 <= MaxValidationRetries => Budget(v + 1, o) = Budget(v, o) + 1
         /\ o + 1 < MaxAttempts => Budget(v, o + 1) = Budget(v, o) + 1
BY DEF Budget, Least

LEMMA BumpCounts ==
  ASSUME NEW a \in [Counters -> Nat], NEW c \in Counters, NEW d \in Counters, d # "total"
  PROVE  Bump(a, c)[d] = IF c = d THEN a[d] + 1 ELSE a[d]
BY DEF Bump, Counters

WithinBudget(s) ==
  LET v == s.attempts["validate"]
      o == s.attempts["outcomes"]
  IN
  /\ s.launches <= MaxValidationRetries + MaxAttempts
  /\ s.pc \in {"idle", "claiming"} => s.launches = 0
  /\ s.pc = "briefing" => s.launches <= Budget(v, o)
  /\ s.pc \in {"working", "validating"} => s.launches <= Budget(v, o) + 1
  /\ s.pc = "saving" /\ s.plan = "retry" =>
       v >= 1 /\ s.launches <= Budget(v - 1, o) + 1
  /\ s.pc \in {"saving", "ending"} /\ s.plan = "requeue" => s.launches <= Budget(v, o)

(* Where no clause but the first speaks, that one is enough.                *)
LEMMA SettledWithinBudget ==
  ASSUME NEW s, s.launches <= MaxValidationRetries + MaxAttempts,
         \/ s.pc \in {"ended", "crashed"}
         \/ s.pc \in {"saving", "ending"} /\ s.plan \notin {"retry", "requeue"}
  PROVE  WithinBudget(s)
BY DEF WithinBudget

LEMMA RunStaysWithinBudget ==
  ASSUME TypeOK, NEW r \in Runs, GoodRun(run[r]), WithinBudget(run[r]),
         Step(r) \/ Raise(r) \/ Crash(r)
  PROVE  WithinBudget(run'[r])
<1> DEFINE old == run[r]
           new == run'[r]
           v == old.attempts["validate"]
           o == old.attempts["outcomes"]
<1>1. /\ run \in [Runs -> RunState] /\ old \in RunState
      /\ old.attempts \in [Counters -> Nat] /\ stored \in [Counters -> Nat]
      /\ old.launches \in Nat /\ v \in Nat /\ o \in Nat
  BY DEF TypeOK, RunState, Counters
<1>2. ASSUME NEW state, Become(r, state) PROVE new = state
  BY <1>1, <1>2 DEF Become
<1>3. old.launches <= MaxValidationRetries + MaxAttempts
  BY DEF WithinBudget
<1>4. ASSUME NEW p \in Plans \ {"retry", "requeue"}, NEW a, Planned(r, p, a)
      PROVE  WithinBudget(new)
  <2>1. new.launches = old.launches /\ new.pc = "saving" /\ new.plan = p
    BY <1>1, <1>2, <1>4 DEF Planned, RunState
  <2> QED BY <1>3, <2>1, SettledWithinBudget
<1>5. CASE Resolve(r)
  <2>1. old.launches = 0 /\ new.launches = old.launches /\ new.pc = "claiming"
    BY <1>1, <1>2, <1>5 DEF Resolve, At, WithinBudget, RunState
  <2> QED BY <2>1 DEF WithinBudget
<1>6. CASE Claim(r)
  <2>1. old.launches = 0 /\ new.launches = old.launches
    BY <1>1, <1>2, <1>6 DEF Claim, At, WithinBudget, RunState
  <2>2. \/ new.pc = "ended"
        \/ new.pc = "briefing" /\ new.attempts = stored
    BY <1>1, <1>2, <1>6 DEF Claim, RunState
  <2>3. Budget(stored["validate"], stored["outcomes"]) \in Nat
    BY <1>1, BudgetGrows DEF Counters
  <2> QED BY <2>1, <2>2, <2>3 DEF WithinBudget
<1>7. CASE Brief(r)
  <2>1. old.launches <= Budget(v, o)
    BY <1>7 DEF Brief, At, WithinBudget
  <2>2. \/ new.pc = "saving" /\ new.plan = "park" /\ new.launches = old.launches
        \/ /\ new.pc = "working" /\ new.launches = old.launches + 1
           /\ new.attempts = old.attempts
    BY <1>1, <1>2, <1>7 DEF Brief, RunState
  <2>3. Budget(v, o) \in Nat /\ Budget(v, o) + 1 <= MaxValidationRetries + MaxAttempts
    BY <1>1, BudgetGrows
  <2>4. CASE new.plan = "park" /\ new.pc = "saving" /\ new.launches = old.launches
    BY <1>3, <2>4, SettledWithinBudget
  <2>5. CASE /\ new.pc = "working" /\ new.launches = old.launches + 1
             /\ new.attempts = old.attempts
    <3>1. /\ new.launches <= Budget(v, o) + 1
          /\ new.launches <= MaxValidationRetries + MaxAttempts
      BY <1>1, <2>1, <2>3, <2>5
    <3> QED BY <2>5, <3>1 DEF WithinBudget
  <2> QED BY <2>2, <2>4, <2>5
<1>8. CASE Reply(r)
  <2>1. {"spawn", "exhausted", "park", "partial"} \subseteq Plans \ {"retry", "requeue"}
    BY DEF Plans
  <2>2. ASSUME NEW outcome, Become(r, [old EXCEPT !.pc = "validating", !.outcome = outcome])
        PROVE  WithinBudget(new)
    <3>1. /\ new.launches = old.launches /\ new.attempts = old.attempts
          /\ new.pc = "validating"
      BY <1>1, <1>2, <2>2 DEF RunState
    <3>2. old.pc = "working"
      BY <1>8 DEF Reply, At
    <3> QED BY <1>3, <3>1, <3>2 DEF WithinBudget
  <2> QED BY <1>4, <1>8, <2>1, <2>2 DEF Reply
<1>9. CASE Validate(r)
  <2>1. old.launches <= Budget(v, o) + 1
    BY <1>9 DEF Validate, At, WithinBudget
  <2>2. PICK verdict \in Verdicts : Become(r, [run[r] EXCEPT
          !.pc = "saving", !.verdict = verdict, !.plan = Reconcile(run[r].outcome, verdict),
          !.attempts = Bump(Bump(@, "replace"), "validate")])
    BY <1>9 DEF Validate
  <2>3. /\ new.pc = "saving" /\ new.launches = old.launches
        /\ new.plan = Reconcile(old.outcome, verdict)
        /\ new.attempts = Bump(Bump(old.attempts, "replace"), "validate")
    BY <1>1, <1>2, <2>2 DEF RunState
  <2>4. new.plan # "requeue"
    <3>1. old.outcome \in Outcomes
      BY <1>9 DEF Validate, At, GoodRun
    <3> QED BY <2>3, <3>1 DEF Reconcile, Outcomes, Verdicts
  <2>5. new.attempts["validate"] = v + 1 /\ new.attempts["outcomes"] = o
    <3>1. Bump(old.attempts, "replace") \in [Counters -> Nat]
      BY <1>1, BumpKeepsCounters DEF Counters
    <3>2. /\ Bump(old.attempts, "replace")["validate"] = v
          /\ Bump(old.attempts, "replace")["outcomes"] = o
      BY <1>1, BumpCounts DEF Counters
    <3> QED BY <2>3, <3>1, <3>2, BumpCounts DEF Counters
  <2> QED BY <1>1, <1>3, <2>1, <2>3, <2>4, <2>5 DEF WithinBudget
<1>10. CASE Save(r)
  <2>1. old.pc = "saving"
    BY <1>10 DEF Save, At
  <2>2. CASE old.plan # "retry"
    <3>1. /\ new.pc = "ending" /\ new.plan = old.plan /\ new.launches = old.launches
          /\ new.attempts = old.attempts
      BY <1>1, <1>2, <1>10, <2>2 DEF Save, RunState
    <3> QED BY <1>3, <2>1, <2>2, <3>1 DEF WithinBudget
  <2>3. CASE old.plan = "retry"
    <3>1. v >= 1 /\ old.launches <= Budget(v - 1, o) + 1
      BY <2>1, <2>3 DEF WithinBudget
    <3>2. new = AfterRetry(r)
      BY <1>2, <1>10, <2>3 DEF Save
    <3>3. ASSUME NEW a, NEW p, new = [old EXCEPT !.plan = p, !.attempts = a]
          PROVE  /\ new.pc = "saving" /\ new.plan = p /\ new.launches = old.launches
                 /\ new.attempts = a
      BY <1>1, <2>1, <3>3 DEF RunState
    <3>4. CASE new.plan = "park"
      <4>1. new.launches = old.launches /\ new.pc = "saving"
        BY <3>2, <3>3 DEF AfterRetry
      <4> QED BY <1>3, <3>4, <4>1, SettledWithinBudget
    <3>5. CASE new.plan # "park" /\ old.verdict = "FAIL"
      <4>1. /\ v <= MaxValidationRetries /\ new.pc = "saving" /\ new.plan = "requeue"
            /\ new.launches = old.launches /\ new.attempts = old.attempts
        <5>1. new = IF v >= MaxValidationRetries + 1
                    THEN [old EXCEPT !.plan = "park", !.attempts = Bump(old.attempts, "total")]
                    ELSE [old EXCEPT !.plan = "requeue", !.attempts = old.attempts]
          BY <3>2, <3>5 DEF AfterRetry
        <5>2. ~(v >= MaxValidationRetries + 1)
          BY <3>3, <3>5, <5>1
        <5>3. new = [old EXCEPT !.plan = "requeue", !.attempts = old.attempts]
          BY <5>1, <5>2
        <5>4. v <= MaxValidationRetries
          BY <1>1, <5>2
        <5> QED BY <3>3, <5>3, <5>4
      <4>2. v - 1 \in Nat /\ (v - 1) + 1 = v
        BY <1>1, <3>1
      <4>3. Budget(v, o) = Budget(v - 1, o) + 1
        BY <1>1, <4>1, <4>2, BudgetGrows
      <4> QED BY <1>3, <3>1, <4>1, <4>3 DEF WithinBudget
    <3>6. CASE new.plan # "park" /\ old.verdict # "FAIL"
      <4> DEFINE bumped == Bump(old.attempts, "outcomes")
      <4>1. bumped["outcomes"] = o + 1 /\ bumped["validate"] = v
        BY <1>1, BumpCounts DEF Counters
      <4>2. /\ ~(bumped["outcomes"] >= MaxAttempts)
            /\ new.pc = "saving" /\ new.plan = "requeue"
            /\ new.launches = old.launches /\ new.attempts = bumped
        BY <1>1, <3>2, <3>3, <3>6 DEF AfterRetry
      <4>3. o + 1 < MaxAttempts
        BY <1>1, <4>1, <4>2
      <4>4. v - 1 \in Nat /\ (v - 1) + 1 = v
        BY <1>1, <3>1
      <4>5. Budget(v - 1, o) <= Budget(v, o) /\ Budget(v, o + 1) = Budget(v, o) + 1
        BY <1>1, <4>3, <4>4, BudgetGrows
      <4>6. /\ Budget(v - 1, o) \in Nat /\ Budget(v, o) \in Nat
            /\ Budget(v, o + 1) \in Nat
        <5>1. o + 1 \in Nat
          BY <1>1
        <5> QED BY <1>1, <4>4, <5>1, BudgetGrows
      <4>7. old.launches <= Budget(v, o + 1)
        BY <1>1, <3>1, <4>5, <4>6
      <4> HIDE DEF bumped
      <4> QED BY <1>3, <4>1, <4>2, <4>7 DEF WithinBudget
    <3> QED BY <3>4, <3>5, <3>6
  <2> QED BY <2>2, <2>3
<1>11. CASE Finish(r)
  <2>1. new.launches = old.launches /\ new.pc = "ended"
    BY <1>1, <1>2, <1>11 DEF Finish, RunState
  <2> QED BY <1>3, <2>1, SettledWithinBudget
<1>12. CASE GiveBack(r)
  <2>1. /\ old.pc = "ending" /\ new.launches = old.launches
        /\ new.attempts = old.attempts
        /\ \/ old.plan = "requeue" /\ new.pc = "briefing"
           \/ new.pc = "ended"
    <3>1. PICK ok : new = [old EXCEPT
            !.leaseOpen = FALSE, !.lost = @ \/ ~ok,
            !.pc     = IF old.plan = "requeue" THEN "briefing" ELSE "ended",
            !.result = IF old.plan = "requeue" THEN @ ELSE ResultOf(old.plan)]
      BY <1>2, <1>12 DEF GiveBack
    <3>2. /\ new.launches = old.launches /\ new.attempts = old.attempts
          /\ new.pc = IF old.plan = "requeue" THEN "briefing" ELSE "ended"
      BY <1>1, <3>1 DEF RunState
    <3> QED BY <1>12, <3>2 DEF GiveBack, At
  <2> QED BY <1>3, <2>1 DEF WithinBudget
<1>13. CASE Raise(r)
  <2>1. "error" \in Plans \ {"retry", "requeue"}
    BY DEF Plans
  <2> QED BY <1>4, <1>13, <2>1 DEF Raise
<1>14. CASE Crash(r)
  <2>1. new.launches = old.launches /\ new.pc = "crashed"
    BY <1>1, <1>2, <1>14 DEF Crash, RunState
  <2> QED BY <1>3, <2>1, SettledWithinBudget
<1> QED BY <1>5, <1>6, <1>7, <1>8, <1>9, <1>10, <1>11, <1>12, <1>13, <1>14 DEF Step

(* However the answers of a worker alternate between a failing candidate   *)
(* and no candidate, and whatever counters the row already had, a call     *)
(* launches at most as many workers as its two retry bounds allow together *)
(* (process_target's retry branches).                                      *)
THEOREM LaunchesStayBounded == Spec => []LaunchesBounded
<1> DEFINE Within == \A r \in Runs : WithinBudget(run[r])
<1>1. Init => Within
  <2>1. Fresh.launches = 0 /\ Fresh.pc = "idle"
    BY DEF Fresh
  <2> QED BY <2>1 DEF Init, WithinBudget
<1>2. Typed /\ Within /\ [Next]_vars => Within'
  <2> SUFFICES ASSUME Typed, Within, [Next]_vars, NEW r \in Runs
               PROVE  WithinBudget(run'[r])
    OBVIOUS
  <2>1. CASE UNCHANGED vars
    BY <2>1 DEF vars
  <2>2. CASE Step(r) \/ Raise(r) \/ Crash(r)
    BY <2>2, RunStaysWithinBudget DEF Typed
  <2>3. CASE Next /\ ~(Step(r) \/ Raise(r) \/ Crash(r))
    <3>1. run'[r] = run[r]
      BY <2>3, NextIsRunOrOther, OtherRunsKeepState DEF Typed
    <3> QED BY <3>1
  <2> QED BY <2>1, <2>2, <2>3
<1>3. Within => LaunchesBounded
  BY DEF WithinBudget, LaunchesBounded
<1> HIDE DEF Within
<1> QED BY <1>1, <1>2, <1>3, AlwaysTyped, PTL DEF Spec
===============================================================================
