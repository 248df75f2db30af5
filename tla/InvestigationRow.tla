--------------------------- MODULE InvestigationRow ---------------------------
(***************************************************************************)
(* One row of the "investigations" table and what each verb of             *)
(* tools/mcp/kg_tools.py:queue_op does to it.  Every verb runs inside one  *)
(* BEGIN IMMEDIATE transaction, so a verb is a function of the row it      *)
(* reads: a predicate that says when the write is accepted, and the row    *)
(* that it leaves.  A refused verb leaves the row alone.                   *)
(*                                                                         *)
(* The clock column updated_at is kept as the AGE of the last write, cut   *)
(* off at MaxAge; a NULL or unparseable clock is the age Unreadable.       *)
(***************************************************************************)
EXTENDS Integers, Sequences

CONSTANTS
  Workers,         \* implementer ids
  NoWorker,        \* implementer_id IS NULL
  MinStaleAfter,   \* _MIN_STALE_AFTER_SECONDS, in clock units
  MaxAge,          \* ages from here on are not told apart
  HistoryLimit     \* entries kept in checkpoint.lease_history (8 in the code)

ASSUME WorkersAssumption == NoWorker \notin Workers
ASSUME TtlAssumption ==
  /\ MinStaleAfter \in Nat \ {0}
  /\ MaxAge \in Nat
  /\ MaxAge >= MinStaleAfter
ASSUME HistoryAssumption == HistoryLimit \in Nat \ {0}

Terminal   == {"done", "dropped"}
Status     == {"queued", "active", "blocked"} \cup Terminal
Owners     == Workers \cup {NoWorker}
Unreadable == -1
Unblocked  == "unblocked"     \* the lease_history entry unblock appends

Row == [status   : Status \cup {"absent"},
        owner    : Owners,
        reason   : BOOLEAN,                        \* block_reason IS NOT NULL
        age      : 0 .. MaxAge \cup {Unreadable},
        history  : Seq(Workers \cup {Unblocked}),
        evidence : BOOLEAN]                        \* a worker's checkpoint landed

Absent == [status |-> "absent", owner |-> NoWorker, reason |-> FALSE,
           age |-> 0, history |-> <<>>, evidence |-> FALSE]

Present(row)   == row.status # "absent"
Live(row)      == row.status \in {"queued", "active", "blocked"}
HeldBy(row, w) == row.status = "active" /\ row.owner = w

(* _claim_is_stale fails closed on a clock it cannot read.                  *)
Stale(row, ttl) == row.age # Unreadable /\ row.age >= ttl

(* The clock, as _claim_is_stale reads it.  Only a lease has an age that   *)
(* anything looks at.                                                      *)
Aged(row) ==
  IF row.status = "active" /\ row.age # Unreadable /\ row.age < MaxAge
  THEN [row EXCEPT !.age = @ + 1] ELSE row

(* Mutants: a full history that keeps its oldest entries, and one with no   *)
(* limit.                                                                  *)
RememberOldest(history, entry) ==
  IF Len(history) < HistoryLimit THEN Append(history, entry) ELSE history

RememberAll(history, entry) == Append(history, entry)

(* _merge_checkpoint keeps the last entries only.                           *)
Remember(history, entry) ==
  IF Len(history) < HistoryLimit THEN Append(history, entry)
                                 ELSE Append(Tail(history), entry)

New(status, owner, reason, age) ==
  [Absent EXCEPT !.status = status, !.owner = owner,
                 !.reason = reason, !.age = age]

(***************************************************************************)
(* claim                                                                   *)
(***************************************************************************)
ClaimIdempotent(row, w) == HeldBy(row, w)

(* Mutants: no floor under the TTL; a claim that forgets updated_at, or     *)
(* block_reason.                                                           *)
ClaimableAtAnyTtl(row, w, ttl, allowStale, allowBlocked) ==
  \/ row.status = "queued"
  \/ row.status = "blocked" /\ allowBlocked
  \/ row.status = "active" /\ row.owner # w /\ allowStale /\ Stale(row, ttl)

ClaimedWithoutClock(row, w) ==
  [row EXCEPT !.status = "active", !.owner = w, !.reason = FALSE,
              !.history = IF row.status = "active" /\ row.owner # NoWorker
                          THEN Remember(@, row.owner) ELSE @]

ClaimedWithReason(row, w) ==
  [row EXCEPT !.status = "active", !.owner = w, !.age = 0,
              !.history = IF row.status = "active" /\ row.owner # NoWorker
                          THEN Remember(@, row.owner) ELSE @]

Claimable(row, w, ttl, allowStale, allowBlocked) ==
  /\ ttl >= MinStaleAfter
  /\ \/ row.status = "queued"
     \/ row.status = "blocked" /\ allowBlocked
     \/ row.status = "active" /\ row.owner # w /\ allowStale /\ Stale(row, ttl)

Claimed(row, w) ==
  [row EXCEPT !.status = "active", !.owner = w, !.reason = FALSE, !.age = 0,
              !.history = IF row.status = "active" /\ row.owner # NoWorker
                          THEN Remember(@, row.owner) ELSE @]

(***************************************************************************)
(* update, in its two lanes.  implementer_id is itself a writable column,  *)
(* so naming a worker in the call puts it among the fields to write.       *)
(***************************************************************************)
Activatable(row, w, allowBlocked) ==
  \/ row.status = "queued"
  \/ row.status = "blocked" /\ allowBlocked
  \/ HeldBy(row, w)

Written(row, columns, reason) ==
  [row EXCEPT !.age = 0,
              !.reason = IF "block_reason" \in columns THEN reason ELSE @,
              !.history = IF "checkpoint" \in columns THEN <<>> ELSE @,
              !.evidence = @ \/ "checkpoint" \in columns]

Activated(row, w, columns) ==
  [Written(row, columns, FALSE) EXCEPT !.status = "active", !.owner = w,
                                       !.reason = FALSE]

FieldsOf(w, columns) ==
  columns \cup (IF w = NoWorker THEN {} ELSE {"implementer_id"})

Updatable(row, w, columns) ==
  /\ Live(row)
  /\ row.status = "active" => w # NoWorker /\ row.owner = w
  /\ FieldsOf(w, columns) \cap {"status", "implementer_id"} = {}

(***************************************************************************)
(* release, unblock, close                                                 *)
(***************************************************************************)
(* Mutant: a release that does not compare the owner.                      *)
ReleasableByAnyone(row, w) == row.status = "active" /\ w # NoWorker

Releasable(row, w) == HeldBy(row, w) /\ w # NoWorker

Released(row, to, reason) ==
  [row EXCEPT !.status = to, !.owner = NoWorker,
              !.reason = reason /\ to = "blocked", !.age = 0]

Unblockable(row) ==
  \/ row.status = "blocked"
  \/ row.status = "queued" /\ row.reason
  \/ HeldBy(row, NoWorker) /\ row.reason

AfterUnblock(row) ==
  [row EXCEPT !.status = IF @ = "blocked" THEN "queued" ELSE @,
              !.owner = IF row.status = "blocked" THEN NoWorker ELSE @,
              !.reason = FALSE, !.age = 0,
              !.history = Remember(@, Unblocked)]

(* Mutant: a close that does not look for a terminal status first.         *)
ClosableAgain(row, w, allowBlocked) ==
  \/ row.status \in {"queued"} \cup Terminal
  \/ HeldBy(row, w)
  \/ row.status = "blocked" /\ allowBlocked

Closable(row, w, allowBlocked) ==
  \/ row.status = "queued"
  \/ HeldBy(row, w)
  \/ row.status = "blocked" /\ allowBlocked

Closed(row, disposition) ==
  [row EXCEPT !.status = disposition, !.age = 0]
===============================================================================
