----------------------------- MODULE Orchestrator -----------------------------
(***************************************************************************)
(* orchestrate.py:process_target: one call takes one target through claim, *)
(* brief, launch, ingest, validate, reconcile and the end of its lease.    *)
(* Several calls (a run's threads, several orchestrators) work on one row  *)
(* through the verbs of InvestigationRow, with an operator beside them.    *)
(***************************************************************************)
EXTENDS InvestigationRow

CONSTANTS
  Runs,                  \* calls of process_target
  WorkerOf,              \* [Runs -> Workers], "<implementer>/<unit>"
  StaleRuns,             \* the runs started with allow_stale
  LeaseTtl,              \* LEASE_TTL, in clock units
  MaxAttempts, MaxValidationRetries, MaxTotalAttempts, MaxMalformed,
  MaxIterations,
  StoredAttempts         \* values the attempts column may have at the start

Counters == {"replace", "validate", "outcomes", "malformed", "total"}

ASSUME RunsAssumption ==
  /\ WorkerOf \in [Runs -> Workers]
  /\ StaleRuns \subseteq Runs
  /\ LeaseTtl \in Nat /\ LeaseTtl >= MinStaleAfter
  /\ StoredAttempts \subseteq [Counters -> Nat]

ASSUME BoundsAssumption ==
  /\ {MaxTotalAttempts, MaxMalformed, MaxIterations} \subseteq Nat
  /\ MaxAttempts \in Nat \ {0} /\ MaxValidationRetries \in Nat

VARIABLES
  row,      \* the target's row in the queue
  stored,   \* its attempts column
  run       \* [Runs -> the local state of a call]

vars == <<row, stored, run>>

Outcomes == {"candidate", "unsatisfied"}  \* TERMINAL_, UNSATISFIED_OUTCOMES
Verdicts == {"PASS", "WARN", "FAIL", "UNKNOWN"}  \* NOT_AVAILABLE is UNKNOWN
Plans    == {"none", "complete", "review", "retry", "requeue", "park",
             "spawn", "exhausted", "partial", "error"}
Results  == {"none", "skipped", "complete", "conflict", "review_required",
             "blocked", "retry_pending", "partial", "error"}
Pcs      == {"idle", "claiming", "briefing", "working", "validating", "saving",
             "ending", "ended", "crashed"}

NoAttempts == [c \in Counters |-> 0]

Fresh == [pc |-> "idle", attempts |-> NoAttempts, leaseOpen |-> FALSE,
          launches |-> 0, outcome |-> "none", verdict |-> "none",
          plan |-> "none", result |-> "none", lost |-> FALSE]

Init ==
  /\ row \in {Absent, New("queued", NoWorker, FALSE, Unreadable)}
  /\ stored \in StoredAttempts
  /\ run = [r \in Runs |-> Fresh]

(* Mutant: a bump that leaves the class counter alone.                      *)
BumpTotalOnly(attempts, counter) == [attempts EXCEPT !["total"] = @ + 1]

(* _bump counts "_total" once more than the counter it was asked to bump,   *)
(* twice when that is "_total" itself.                                     *)
Bump(attempts, counter) ==
  [[attempts EXCEPT ![counter] = @ + 1] EXCEPT !["total"] = @ + 1]

(* The disposition of a validated reply.                                   *)
Reconcile(outcome, verdict) ==
  CASE verdict = "PASS" /\ outcome = "candidate"            -> "complete"
    [] \/ verdict = "FAIL"
       \/ verdict = "UNKNOWN" /\ outcome = "candidate"
       \/ verdict = "PASS" /\ outcome = "unsatisfied"       -> "retry"
    [] \/ verdict = "WARN"
       \/ verdict = "UNKNOWN" /\ outcome = "unsatisfied"    -> "review"

(* What a call returns when it carries out a plan.                          *)
ResultOf(plan) ==
  CASE plan = "review"            -> "review_required"
    [] plan \in {"park", "spawn"} -> "blocked"
    [] plan = "exhausted"         -> "retry_pending"
    [] OTHER                      -> plan

Destination(plan) ==
  IF plan \in {"requeue", "exhausted", "partial"} THEN "queued" ELSE "blocked"

At(r, pc)        == run[r].pc = pc
Become(r, state) == run' = [run EXCEPT ![r] = state]

Resolve(r) ==
  /\ At(r, "idle")
  /\ row' = IF Present(row) THEN row ELSE New("queued", NoWorker, FALSE, 0)
  /\ Become(r, [run[r] EXCEPT !.pc = "claiming"])
  /\ UNCHANGED stored

(* Mutant: a refused claim tried again.                                    *)
ClaimUntilGranted(r) ==
  LET w == WorkerOf[r] IN
  /\ At(r, "claiming")
  /\ ClaimIdempotent(row, w) \/ Claimable(row, w, LeaseTtl, r \in StaleRuns, FALSE)
  /\ row' = IF ClaimIdempotent(row, w) THEN row ELSE Claimed(row, w)
  /\ Become(r, [run[r] EXCEPT !.pc = "briefing", !.attempts = stored,
                              !.leaseOpen = TRUE])
  /\ UNCHANGED stored

(* A claim is refused by the queue's guard, or by the database failing.    *)
Claim(r) ==
  LET w == WorkerOf[r] IN
  /\ At(r, "claiming")
  /\ \/ /\ \/ ClaimIdempotent(row, w)
           \/ Claimable(row, w, LeaseTtl, r \in StaleRuns, FALSE)
        /\ row' = IF ClaimIdempotent(row, w) THEN row ELSE Claimed(row, w)
        /\ Become(r, [run[r] EXCEPT !.pc = "briefing", !.attempts = stored,
                                    !.leaseOpen = TRUE])
     \/ /\ Become(r, [run[r] EXCEPT !.pc = "ended", !.result = "skipped"])
        /\ UNCHANGED row
  /\ UNCHANGED stored

BoundReached(r) ==
  \/ run[r].attempts["total"] >= MaxTotalAttempts
  \/ run[r].launches >= MaxIterations

(* The loop head: a bound trips, or the worker is briefed and launched.    *)
Brief(r) ==
  /\ At(r, "briefing")
  /\ \/ /\ BoundReached(r)
        /\ Become(r, [run[r] EXCEPT !.pc = "saving", !.plan = "park",
                                    !.attempts = Bump(@, "total")])
     \/ /\ ~BoundReached(r)
        /\ Become(r, [run[r] EXCEPT !.pc = "working", !.launches = @ + 1])
  /\ UNCHANGED <<row, stored>>

Planned(r, plan, attempts) ==
  Become(r, [run[r] EXCEPT !.pc = "saving", !.plan = plan, !.attempts = attempts])

(* The worker returns: not spawned, nothing left to deliver (a native       *)
(* session answers a target once), malformed or timed out, or a result.    *)
Reply(r) ==
  LET total     == Bump(run[r].attempts, "total")
      malformed == Bump(run[r].attempts, "malformed")
  IN
  /\ At(r, "working")
  /\ \/ Planned(r, "spawn", total)
     \/ run[r].launches > 1 /\ Planned(r, "exhausted", total)
     \/ IF malformed["malformed"] >= MaxMalformed
        THEN Planned(r, "park", Bump(malformed, "total"))
        ELSE Planned(r, "partial", malformed)
     \/ \E outcome \in Outcomes :
          Become(r, [run[r] EXCEPT !.pc = "validating", !.outcome = outcome])
  /\ UNCHANGED <<row, stored>>

Validate(r) ==
  /\ At(r, "validating")
  /\ \E verdict \in Verdicts :
       Become(r, [run[r] EXCEPT
         !.pc = "saving", !.verdict = verdict,
         !.plan = Reconcile(run[r].outcome, verdict),
         !.attempts = Bump(Bump(@, "replace"), "validate")])
  /\ UNCHANGED <<row, stored>>

(* Each class of retry has its own counter and bound.                       *)
AfterRetry(r) ==
  LET failed  == run[r].verdict = "FAIL"
      a       == IF failed THEN run[r].attempts ELSE Bump(run[r].attempts, "outcomes")
      tripped == IF failed THEN a["validate"] >= MaxValidationRetries + 1
                           ELSE a["outcomes"] >= MaxAttempts
  IN IF tripped THEN [run[r] EXCEPT !.plan = "park", !.attempts = Bump(a, "total")]
                ELSE [run[r] EXCEPT !.plan = "requeue", !.attempts = a]

(* q.checkpoint is a queue_op update that names the implementer.  A retry   *)
(* writes a second one, once it knows whether its bound has tripped.       *)
Save(r) ==
  LET accepted == Updatable(row, WorkerOf[r], {"checkpoint"}) IN
  /\ At(r, "saving")
  /\ row' = IF accepted THEN Written(row, {"checkpoint"}, FALSE) ELSE row
  /\ stored' = IF accepted THEN run[r].attempts ELSE stored
  /\ Become(r, IF run[r].plan = "retry" THEN AfterRetry(r)
               ELSE [run[r] EXCEPT !.pc = "ending"])

(* Mutants: a close that reports the re-close of a finished row as its own *)
(* work, and one that does not ask who holds the row.                      *)
FinishAgain(r) ==
  LET open == Closable(row, WorkerOf[r], FALSE) IN
  /\ At(r, "ending") /\ run[r].plan = "complete"
  /\ row' = IF open THEN Closed(row, "done") ELSE row
  /\ Become(r, [run[r] EXCEPT
       !.pc = "ended", !.leaseOpen = FALSE,
       !.result = IF open \/ row.status \in Terminal THEN "complete" ELSE "conflict"])
  /\ UNCHANGED stored

FinishOverHolder(r) ==
  /\ At(r, "ending") /\ run[r].plan = "complete"
  /\ row' = IF Live(row) THEN Closed(row, "done") ELSE row
  /\ Become(r, [run[r] EXCEPT
       !.pc = "ended", !.leaseOpen = FALSE,
       !.result = IF Live(row) THEN "complete" ELSE "conflict"])
  /\ UNCHANGED stored

(* close: a row somebody else finished, holds or blocked is a conflict.     *)
Finish(r) ==
  LET open == Closable(row, WorkerOf[r], FALSE) IN
  /\ At(r, "ending") /\ run[r].plan = "complete"
  /\ \/ /\ open
        /\ row' = Closed(row, "done")
        /\ Become(r, [run[r] EXCEPT !.pc = "ended", !.result = "complete",
                                    !.leaseOpen = FALSE])
     \/ /\ row' = row
        /\ Become(r, [run[r] EXCEPT !.pc = "ended", !.result = "conflict",
                                    !.leaseOpen = FALSE, !.lost = @ \/ open])
  /\ UNCHANGED stored

(* Mutant: an exception's path that never releases.                         *)
GiveBackUnlessError(r) ==
  LET plan == run[r].plan
      held == Releasable(row, WorkerOf[r]) /\ plan # "error"
  IN
  /\ At(r, "ending") /\ plan # "complete"
  /\ row' = IF held THEN Released(row, Destination(plan), TRUE) ELSE row
  /\ Become(r, [run[r] EXCEPT
       !.leaseOpen = FALSE,
       !.pc     = IF plan = "requeue" THEN "briefing" ELSE "ended",
       !.result = IF plan = "requeue" THEN @ ELSE ResultOf(plan)])
  /\ UNCHANGED stored

(* release, whose answer nobody reads: after a requeue the loop goes on     *)
(* without a claim, and a later release finds no lease to end.             *)
GiveBack(r) ==
  LET plan == run[r].plan
      held == /\ Releasable(row, WorkerOf[r])
              /\ plan = "error" => run[r].leaseOpen
  IN
  /\ At(r, "ending") /\ plan # "complete"
  /\ \E ok \in IF held THEN BOOLEAN ELSE {TRUE} :
       /\ row' = IF held /\ ok THEN Released(row, Destination(plan), TRUE) ELSE row
       /\ Become(r, [run[r] EXCEPT
            !.leaseOpen = FALSE, !.lost = @ \/ ~ok,
            !.pc     = IF plan = "requeue" THEN "briefing" ELSE "ended",
            !.result = IF plan = "requeue" THEN @ ELSE ResultOf(plan)])
  /\ UNCHANGED stored

(* collect_inputs, brief, the worker or validate raises.                    *)
Raise(r) ==
  /\ run[r].pc \in {"briefing", "working", "validating"}
  /\ Planned(r, "error", Bump(run[r].attempts, "total"))
  /\ UNCHANGED <<row, stored>>

(* The orchestrator's process dies.                                         *)
Crash(r) ==
  /\ run[r].pc \notin {"idle", "ended", "crashed"}
  /\ Become(r, [run[r] EXCEPT !.pc = "crashed"])
  /\ UNCHANGED <<row, stored>>

(* The operator unblocks a parked row or drops one that nobody holds.       *)
OperatorUnblock ==
  /\ Unblockable(row)
  /\ row' = AfterUnblock(row)
  /\ UNCHANGED <<stored, run>>

OperatorDrop ==
  /\ Closable(row, NoWorker, TRUE)
  /\ row' = Closed(row, "dropped")
  /\ UNCHANGED <<stored, run>>

Tick == row' = Aged(row) /\ UNCHANGED <<stored, run>>

Step(r) ==
  Resolve(r) \/ Claim(r) \/ Brief(r) \/ Reply(r) \/ Validate(r) \/ Save(r)
    \/ Finish(r) \/ GiveBack(r)

Next ==
  \/ \E r \in Runs : Step(r) \/ Raise(r) \/ Crash(r)
  \/ OperatorUnblock \/ OperatorDrop \/ Tick

(* A thread is scheduled, and a worker's subprocess has a timeout: a call   *)
(* that can take its next step takes it.                                   *)
Spec == Init /\ [][Next]_vars /\ \A r \in Runs : WF_vars(Step(r))

-----------------------------------------------------------------------------
TypeOK ==
  /\ row \in Row /\ Len(row.history) <= HistoryLimit
  /\ stored \in [Counters -> Nat]
  /\ run \in [Runs -> [pc : Pcs, attempts : [Counters -> Nat],
                       leaseOpen : BOOLEAN, launches : Nat,
                       outcome : Outcomes \cup {"none"},
                       verdict : Verdicts \cup {"none"},
                       plan : Plans, result : Results, lost : BOOLEAN]]

(* What a run reports complete is done in the queue, on a static PASS of a *)
(* candidate, and is the work of that one run: of all the runs that worked *)
(* on the row, with retries that no longer hold it and takeovers, at most  *)
(* one is told it finished (reconcile, and the "conflict" of a lost close).*)
CompletionIsEarned ==
  /\ \A r \in Runs : run[r].result = "complete" =>
       /\ row.status = "done"
       /\ run[r].verdict = "PASS" /\ run[r].outcome = "candidate"
  /\ \A r, s \in Runs :
       run[r].result = "complete" /\ run[s].result = "complete" => r = s

(* A run whose lease was taken over cannot finish the row over its         *)
(* successor: when it is told "complete" nobody else held the row.         *)
NoFinishOverHolder ==
  [][\A r \in Runs, w \in Workers :
       HeldBy(row, w) /\ w # WorkerOf[r] /\ run[r].result # "complete"
         => run'[r].result # "complete"]_vars

(* "No row is ever left active behind an orchestrator that has already     *)
(* recorded an error": a run that returned, by whatever path, holds no     *)
(* lease, unless the database refused the write that was to end it.        *)
EndedRunHoldsNothing ==
  \A r \in Runs :
    run[r].pc = "ended" /\ ~run[r].lost => ~HeldBy(row, WorkerOf[r])

(* However the worker's answers alternate between a failing candidate and  *)
(* no candidate, the two retry classes cannot feed each other: a call      *)
(* launches at most as many workers as both bounds together allow. That is *)
(* the code's bound (orchestrate.py:1586-1600). It is tighter than what    *)
(* docs/tooling/orchestration.md:459-461 promises, by which a worker that  *)
(* repeats STILL_UNKNOWN is bounded by MAX_TOTAL_ATTEMPTS and not by       *)
(* MAX_ATTEMPTS: with the code's values three launches and not six.        *)
LaunchesBounded ==
  \A r \in Runs : run[r].launches <= MaxValidationRetries + MaxAttempts

(* Every call returns, unless its process dies.                            *)
EveryRunEnds ==
  \A r \in Runs : <>(run[r].pc \in {"ended", "crashed"})

(***************************************************************************)
(* What the code's own documents say of it, and it does not do.            *)
(***************************************************************************)
(* "Evidence is always written before the lease ends."                     *)
EvidenceBeforeLeaseEnds ==
  [][\A r \in Runs :
       At(r, "ending") /\ HeldBy(row, WorkerOf[r]) /\ ~HeldBy(row, WorkerOf[r])'
         => row.evidence]_vars
===============================================================================
