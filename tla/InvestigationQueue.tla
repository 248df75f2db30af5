-------------------------- MODULE InvestigationQueue --------------------------
(***************************************************************************)
(* The investigations queue under every client it has: the orchestrator's  *)
(* adapter, the MCP server's queue_op tool, and the operator's command     *)
(* line, all of which reach the table through the verbs of queue_op only.  *)
(***************************************************************************)
EXTENDS InvestigationRow

CONSTANTS
  Ids,    \* investigation ids (one per kind, va and binary)
  Ttls    \* the stale_after_seconds values clients pass

ASSUME TtlsAssumption == Ttls \subseteq Nat

VARIABLES
  table,  \* [Ids -> Row]
  last    \* the latest accepted write: which verb, on which row, by whom

vars == <<table, last>>

Columns == {"block_reason", "checkpoint", "status"}
Verbs   == {"none", "seed", "insert", "claim", "activate", "update",
            "release", "unblock", "close"}

Write(verb, i, w, row) ==
  /\ table' = [table EXCEPT ![i] = row]
  /\ last' = [verb |-> verb, id |-> i, by |-> w]

Init ==
  /\ table = [i \in Ids |-> Absent]
  /\ last \in [verb : {"none"}, id : Ids, by : {NoWorker}]

(* seed.py writes neither created_at nor updated_at, and seeds rows that    *)
(* are either waiting or already recorded.                                 *)
Seed(i, status) ==
  /\ ~Present(table[i])
  /\ Write("seed", i, NoWorker, New(status, NoWorker, FALSE, Unreadable))

Insert(i, status, owner, reason) ==
  /\ ~Present(table[i])
  /\ Write("insert", i, owner, New(status, owner, reason, 0))

Claim(i, w, ttl, allowStale, allowBlocked) ==
  /\ Claimable(table[i], w, ttl, allowStale, allowBlocked)
  /\ Write("claim", i, w, Claimed(table[i], w))

UpdateActive(i, w, columns, allowBlocked) ==
  /\ Activatable(table[i], w, allowBlocked)
  /\ Write("activate", i, w, Activated(table[i], w, columns))

UpdateOwned(i, w, columns, reason) ==
  /\ columns # {}
  /\ Updatable(table[i], w, columns)
  /\ Write("update", i, w, Written(table[i], columns, reason))

Release(i, w, to, reason) ==
  /\ Releasable(table[i], w)
  /\ Write("release", i, w, Released(table[i], to, reason))

Unblock(i) ==
  /\ Unblockable(table[i])
  /\ Write("unblock", i, NoWorker, AfterUnblock(table[i]))

Close(i, w, disposition, allowBlocked) ==
  /\ Closable(table[i], w, allowBlocked)
  /\ Write("close", i, w, Closed(table[i], disposition))

(* Time passes for every lease at once.                                    *)
Tick ==
  /\ table' = [i \in Ids |-> Aged(table[i])]
  /\ UNCHANGED last

Next ==
  \/ \E i \in Ids, status \in {"queued", "done"} : Seed(i, status)
  \/ \E i \in Ids, status \in Status, w \in Owners, reason \in BOOLEAN :
       Insert(i, status, w, reason)
  \/ \E i \in Ids, w \in Workers, ttl \in Ttls, stale, blocked \in BOOLEAN :
       Claim(i, w, ttl, stale, blocked)
  \/ \E i \in Ids, columns \in SUBSET Columns, flag \in BOOLEAN :
       \/ \E w \in Workers : UpdateActive(i, w, columns, flag)
       \/ \E w \in Owners : UpdateOwned(i, w, columns, flag)
  \/ \E i \in Ids, w \in Workers, to \in {"queued", "blocked"}, reason \in BOOLEAN :
       Release(i, w, to, reason)
  \/ \E i \in Ids : Unblock(i)
  \/ \E i \in Ids, w \in Owners, d \in Terminal, blocked \in BOOLEAN :
       Close(i, w, d, blocked)
  \/ Tick

Spec == Init /\ [][Next]_vars

-----------------------------------------------------------------------------
(* Every row is a row of the table's declared columns.                     *)
TypeOK ==
  /\ table \in [Ids -> Row]
  /\ \A i \in Ids : Len(table[i].history) <= HistoryLimit
  /\ last \in [verb : Verbs, id : Ids, by : Owners]

(* Every lease can lapse: whatever row the claim found, seeded rows with no *)
(* clock included, an active row carries a clock _claim_is_stale can read, *)
(* so a dead holder can always be displaced in the end.                    *)
LeaseClockReadable ==
  \A i \in Ids : table[i].status = "active" => table[i].age # Unreadable

(* A holder loses its lease only by its own verb, or by a claim that found *)
(* the clock readable and at least MinStaleAfter old: nobody releases,     *)
(* closes, activates or unblocks a lease away (_queue_release,             *)
(* _queue_close, _queue_update_active, _queue_claim).                      *)
LeaseRespected ==
  [][\A i \in Ids, w \in Workers :
       HeldBy(table[i], w) /\ ~HeldBy(table[i], w)'
         => \/ last'.by = w /\ last'.verb \in {"release", "close"}
            \/ last'.verb = "claim" /\ Stale(table[i], MinStaleAfter)]_vars

(* A takeover leaves the displaced worker as the newest entry of           *)
(* checkpoint.lease_history, however many entries were dropped to make     *)
(* room (_merge_checkpoint called from _queue_claim).                      *)
DisplacementRecorded ==
  [][\A i \in Ids, w \in Workers :
       HeldBy(table[i], w) /\ (table[i].status = "active" /\ ~HeldBy(table[i], w))'
         => /\ table'[i].history # <<>>
            /\ table'[i].history[Len(table'[i].history)] = w]_vars

(* done and dropped are final: no verb, by anyone, rewrites a terminal row *)
(* ("terminal rows are never rewritten", _queue_update_owned).             *)
TerminalImmutable ==
  [][\A i \in Ids : table[i].status \in Terminal => table'[i] = table[i]]_vars

(* Nothing but the two verbs that ask for it lifts a block: a blocked row  *)
(* becomes active through a claim or an activation and queued through an   *)
(* unblock, and each of them leaves no block_reason behind, so the         *)
(* frontier's claim view does not read the freed row as still blocked      *)
(* (kg_tools.py:1260). That is the code and its comment; the docstring of  *)
(* unblock (:1184) says the opposite of that verb, that its reason is      *)
(* written to the column and stays visible there until the next claim.     *)
BlockLiftedCleanly ==
  [][\A i \in Ids :
       table[i].status = "blocked" /\ table'[i].status \in {"queued", "active"}
         => /\ last'.verb \in {"claim", "activate", "unblock"}
            /\ ~table'[i].reason]_vars

(* The queue is a Lease: see Lease.tla.  An unowned active row is held by  *)
(* NoWorker, and a lease has lapsed when its clock reads MinStaleAfter.    *)
LeaseState(row) ==
  CASE row.status = "active"    -> "held"
    [] row.status \in Terminal  -> "over"
    [] OTHER                    -> "free"

Abstract == INSTANCE Lease WITH
  Holders <- Owners,
  state   <- [i \in Ids |-> LeaseState(table[i])],
  holder  <- [i \in Ids |-> table[i].owner],
  lapsed  <- [i \in Ids |-> /\ table[i].status = "active"
                            /\ Stale(table[i], MinStaleAfter)]

ImplementsLease == Abstract!LeaseSpec
===============================================================================
