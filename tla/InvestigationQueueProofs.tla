----------------------- MODULE InvestigationQueueProofs -----------------------
(***************************************************************************)
(* Theorems about InvestigationQueue for any rows, workers and TTLs.       *)
(***************************************************************************)
EXTENDS InvestigationQueue, TLAPS

USE WorkersAssumption, TtlAssumption, HistoryAssumption, TtlsAssumption

Entries == Workers \cup {Unblocked}

(* What keeps a row well typed: its columns, and a history within bounds.  *)
GoodRow(row) == row \in Row /\ Len(row.history) <= HistoryLimit

(* Remembering an entry keeps the history within its limit and puts the    *)
(* entry last (_merge_checkpoint).                                         *)
LEMMA RememberKeepsNewest ==
  ASSUME NEW h \in Seq(Entries), Len(h) <= HistoryLimit, NEW e \in Entries
  PROVE  /\ Remember(h, e) \in Seq(Entries)
         /\ Len(Remember(h, e)) <= HistoryLimit
         /\ Remember(h, e) # <<>>
         /\ Remember(h, e)[Len(Remember(h, e))] = e
<1>1. CASE Len(h) < HistoryLimit
  BY <1>1 DEF Remember
<1>2. CASE Len(h) = HistoryLimit
  <2>1. /\ Tail(h) \in Seq(Entries)
        /\ Len(Tail(h)) = HistoryLimit - 1
    BY <1>2
  <2>2. /\ Append(Tail(h), e) \in Seq(Entries)
        /\ Len(Append(Tail(h), e)) = HistoryLimit
        /\ Append(Tail(h), e)[HistoryLimit] = e
    BY <2>1
  <2> QED BY <1>2, <2>2 DEF Remember
<1> QED BY <1>1, <1>2

(***************************************************************************)
(* Every verb leaves a well-typed row.                                     *)
(***************************************************************************)
LEMMA VerbsKeepRows ==
  ASSUME NEW row, GoodRow(row), NEW r \in BOOLEAN, NEW s \in Status, NEW c
  PROVE  /\ \A w \in Workers : GoodRow(Claimed(row, w))
         /\ GoodRow(Written(row, c, r))
         /\ \A w \in Workers : GoodRow(Activated(row, w, c))
         /\ \A to \in {"queued", "blocked"} : GoodRow(Released(row, to, r))
         /\ GoodRow(AfterUnblock(row))
         /\ GoodRow(Closed(row, s))
         /\ GoodRow(Aged(row))
         /\ \A o \in Owners : GoodRow(New(s, o, r, 0)) /\ GoodRow(New(s, o, r, Unreadable))
<1> DEFINE Fields(x) == /\ x.status \in Status \cup {"absent"}
                        /\ x.owner \in Owners
                        /\ x.reason \in BOOLEAN
                        /\ x.age \in 0 .. MaxAge \cup {Unreadable}
                        /\ x.history \in Seq(Entries)
                        /\ x.evidence \in BOOLEAN
<1>1. Fields(row) /\ Len(row.history) <= HistoryLimit /\ Entries = Workers \cup {Unblocked}
  BY DEF GoodRow, Row, Entries
<1>2. row = [status |-> row.status, owner |-> row.owner, reason |-> row.reason,
             age |-> row.age, history |-> row.history, evidence |-> row.evidence]
  BY DEF GoodRow, Row
<1>3. 0 \in 0 .. MaxAge /\ Len(<<>>) <= HistoryLimit /\ <<>> \in Seq(Entries)
  OBVIOUS
<1>4. \A e \in Entries : /\ Remember(row.history, e) \in Seq(Entries)
                         /\ Len(Remember(row.history, e)) <= HistoryLimit
  BY <1>1, RememberKeepsNewest
<1>5. ASSUME NEW w \in Workers PROVE GoodRow(Claimed(row, w))
  <2>1. CASE row.status = "active" /\ row.owner # NoWorker
    <3>1. row.owner \in Entries
      BY <1>1, <2>1 DEF Owners
    <3> QED BY <1>1, <1>2, <1>3, <1>4, <2>1, <3>1
            DEF GoodRow, Row, Claimed, Status, Owners, Entries
  <2>2. CASE ~(row.status = "active" /\ row.owner # NoWorker)
    BY <1>1, <1>2, <1>3, <2>2 DEF GoodRow, Row, Claimed, Status, Owners, Entries
  <2> QED BY <2>1, <2>2
<1>6. GoodRow(Written(row, c, r))
  BY <1>1, <1>2, <1>3 DEF GoodRow, Row, Written, Entries
<1>7. ASSUME NEW w \in Workers
      PROVE GoodRow(Activated(row, w, c))
  BY <1>1, <1>2, <1>3 DEF GoodRow, Row, Written, Activated, Status, Owners, Entries
<1>8. ASSUME NEW to \in {"queued", "blocked"} PROVE GoodRow(Released(row, to, r))
  BY <1>1, <1>2, <1>3 DEF GoodRow, Row, Released, Status, Owners, Entries
<1>9. GoodRow(AfterUnblock(row))
  <2>1. Unblocked \in Entries
    BY DEF Entries
  <2> QED BY <1>1, <1>2, <1>3, <1>4, <2>1
          DEF GoodRow, Row, AfterUnblock, Status, Owners, Entries
<1>10. GoodRow(Closed(row, s))
  BY <1>1, <1>2, <1>3 DEF GoodRow, Row, Closed, Entries
<1>11. GoodRow(Aged(row))
  <2>1. CASE row.status = "active" /\ row.age # Unreadable /\ row.age < MaxAge
    <3>1. row.age + 1 \in 0 .. MaxAge
      BY <1>1, <2>1 DEF Unreadable
    <3> QED BY <1>1, <1>2, <2>1, <3>1 DEF GoodRow, Row, Aged, Entries
  <2>2. CASE ~(row.status = "active" /\ row.age # Unreadable /\ row.age < MaxAge)
    BY <2>2 DEF Aged
  <2> QED BY <2>1, <2>2
<1>12. ASSUME NEW o \in Owners
       PROVE GoodRow(New(s, o, r, 0)) /\ GoodRow(New(s, o, r, Unreadable))
  BY <1>3 DEF GoodRow, Row, New, Absent, Entries
<1> QED BY <1>5, <1>6, <1>7, <1>8, <1>9, <1>10, <1>11, <1>12

(***************************************************************************)
(* What each verb leaves in the columns the properties read.               *)
(***************************************************************************)
LEMMA RowDomain ==
  ASSUME NEW row \in Row
  PROVE  DOMAIN row = {"status", "owner", "reason", "age", "history", "evidence"}
BY DEF Row

LEMMA AfterClaim ==
  ASSUME NEW row \in Row, NEW w
  PROVE  /\ Claimed(row, w).status = "active"
         /\ Claimed(row, w).owner = w
         /\ Claimed(row, w).age = 0
         /\ Claimed(row, w).reason = FALSE
         /\ row.status = "active" /\ row.owner # NoWorker
              => Claimed(row, w).history = Remember(row.history, row.owner)
BY RowDomain DEF Claimed

LEMMA AfterWrite ==
  ASSUME NEW row \in Row, NEW c, NEW r
  PROVE  /\ Written(row, c, r).status = row.status
         /\ Written(row, c, r).owner = row.owner
         /\ Written(row, c, r).age = 0
BY RowDomain DEF Written

LEMMA AfterActivation ==
  ASSUME NEW row \in Row, NEW w, NEW c
  PROVE  /\ Activated(row, w, c).status = "active"
         /\ Activated(row, w, c).owner = w
         /\ Activated(row, w, c).age = 0
         /\ Activated(row, w, c).reason = FALSE
BY RowDomain DEF Activated, Written

LEMMA AfterRelease ==
  ASSUME NEW row \in Row, NEW to, NEW r
  PROVE  /\ Released(row, to, r).status = to
         /\ Released(row, to, r).owner = NoWorker
         /\ Released(row, to, r).age = 0
BY RowDomain DEF Released

LEMMA UnblockedColumns ==
  ASSUME NEW row \in Row
  PROVE  /\ row.status = "blocked" => /\ AfterUnblock(row).status = "queued"
                                      /\ AfterUnblock(row).owner = NoWorker
         /\ row.status # "blocked" => /\ AfterUnblock(row).status = row.status
                                      /\ AfterUnblock(row).owner = row.owner
         /\ AfterUnblock(row).age = 0
         /\ AfterUnblock(row).reason = FALSE
BY RowDomain DEF AfterUnblock

LEMMA AfterClose ==
  ASSUME NEW row \in Row, NEW d
  PROVE  /\ Closed(row, d).status = d
         /\ Closed(row, d).owner = row.owner
BY RowDomain DEF Closed

LEMMA AfterInsert ==
  ASSUME NEW s, NEW o, NEW r, NEW a
  PROVE  /\ New(s, o, r, a).status = s
         /\ New(s, o, r, a).owner = o
         /\ New(s, o, r, a).age = a
BY DEF New, Absent

LEMMA AfterTick ==
  ASSUME NEW row \in Row
  PROVE  /\ Aged(row).status = row.status
         /\ Aged(row).owner = row.owner
         /\ row.status # "active" => Aged(row) = row
         /\ Aged(row).age = Unreadable <=> row.age = Unreadable
         /\ Stale(row, MinStaleAfter) => Stale(Aged(row), MinStaleAfter)
<1>1. row.age \in 0 .. MaxAge \cup {Unreadable}
  BY DEF Row
<1> QED BY <1>1, RowDomain DEF Aged, Unreadable, Stale

(***************************************************************************)
(* A step either lets time pass or writes one row by one verb, and a verb  *)
(* writes only what its predicate accepted.  Every later proof splits Next *)
(* this way.                                                               *)
(***************************************************************************)
Verb(i, w) ==
  \/ \E s \in {"queued", "done"} : w = NoWorker /\ Seed(i, s)
  \/ \E s \in Status, r \in BOOLEAN : Insert(i, s, w, r)
  \/ \E ttl \in Ttls, a, b \in BOOLEAN : w \in Workers /\ Claim(i, w, ttl, a, b)
  \/ \E c \in SUBSET Columns, b \in BOOLEAN : w \in Workers /\ UpdateActive(i, w, c, b)
  \/ \E c \in SUBSET Columns, r \in BOOLEAN : UpdateOwned(i, w, c, r)
  \/ \E to \in {"queued", "blocked"}, r \in BOOLEAN :
       w \in Workers /\ Release(i, w, to, r)
  \/ w = NoWorker /\ Unblock(i)
  \/ \E d \in Terminal, b \in BOOLEAN : Close(i, w, d, b)

LEMMA NextIsVerbOrTick == Next => Tick \/ \E i \in Ids, w \in Owners : Verb(i, w)
  BY DEF Next, Verb, Owners

(* The table's columns keep their declared types (TypeOK).                 *)
THEOREM TypeCorrect == Spec => []TypeOK
<1>1. Init => TypeOK
  <2> SUFFICES ASSUME Init PROVE TypeOK
    OBVIOUS
  <2>1. Absent \in Row /\ Len(Absent.history) <= HistoryLimit
    BY DEF Absent, Row, Owners
  <2> QED BY <2>1 DEF Init, TypeOK, Verbs, Owners
<1>2. TypeOK /\ [Next]_vars => TypeOK'
  <2> SUFFICES ASSUME TypeOK, [Next]_vars PROVE TypeOK'
    OBVIOUS
  <2>1. \A i \in Ids : GoodRow(table[i])
    BY DEF TypeOK, GoodRow
  <2>2. CASE Tick
    <3>1. \A i \in Ids : GoodRow(Aged(table[i]))
      BY <2>1, VerbsKeepRows DEF Status
    <3> QED BY <2>2, <3>1 DEF Tick, TypeOK, GoodRow
  <2>3. ASSUME NEW i \in Ids, NEW w \in Owners, Verb(i, w)
        PROVE TypeOK'
    <3>1. ASSUME NEW v \in Verbs, NEW row, GoodRow(row), Write(v, i, w, row)
          PROVE  TypeOK'
      BY <2>1, <3>1 DEF Write, TypeOK, GoodRow
    <3>2. \E v \in Verbs : \E row : GoodRow(row) /\ Write(v, i, w, row)
      <4>1. GoodRow(table[i])
        BY <2>1
      <4>2. CASE \E s \in {"queued", "done"} : w = NoWorker /\ Seed(i, s)
        BY <4>1, <4>2, VerbsKeepRows DEF Seed, Verbs, Status, Terminal
      <4>3. CASE \E s \in Status, r \in BOOLEAN : Insert(i, s, w, r)
        BY <4>1, <4>3, VerbsKeepRows DEF Insert, Verbs
      <4>4. CASE \E ttl \in Ttls, a, b \in BOOLEAN :
                   w \in Workers /\ Claim(i, w, ttl, a, b)
        BY <4>1, <4>4, VerbsKeepRows DEF Claim, Verbs, Status
      <4>5. CASE \E c \in SUBSET Columns, b \in BOOLEAN :
                   w \in Workers /\ UpdateActive(i, w, c, b)
        BY <4>1, <4>5, VerbsKeepRows DEF UpdateActive, Verbs, Status
      <4>6. CASE \E c \in SUBSET Columns, r \in BOOLEAN : UpdateOwned(i, w, c, r)
        BY <4>1, <4>6, VerbsKeepRows DEF UpdateOwned, Verbs, Status
      <4>7. CASE \E to \in {"queued", "blocked"}, r \in BOOLEAN :
                   w \in Workers /\ Release(i, w, to, r)
        BY <4>1, <4>7, VerbsKeepRows DEF Release, Verbs, Status
      <4>8. CASE w = NoWorker /\ Unblock(i)
        BY <4>1, <4>8, VerbsKeepRows DEF Unblock, Verbs, Status
      <4>9. CASE \E d \in Terminal, b \in BOOLEAN : Close(i, w, d, b)
        BY <4>1, <4>9, VerbsKeepRows DEF Close, Verbs, Status
      <4> QED BY <2>3, <4>2, <4>3, <4>4, <4>5, <4>6, <4>7, <4>8, <4>9 DEF Verb
    <3> QED BY <3>1, <3>2
  <2>4. CASE UNCHANGED vars
    BY <2>4 DEF vars, TypeOK
  <2> QED BY <2>2, <2>3, <2>4, NextIsVerbOrTick
<1> QED BY <1>1, <1>2, PTL DEF Spec

(* The row a verb does not name is the row it was.                         *)
LEMMA VerbWritesOneRow ==
  ASSUME TypeOK, NEW i \in Ids, NEW w \in Owners, Verb(i, w), NEW j \in Ids, j # i
  PROVE  table'[j] = table[j]
BY DEF TypeOK, Verb, Write, Seed, Insert, Claim, UpdateActive, UpdateOwned,
       Release, Unblock, Close

(***************************************************************************)
(* What an accepted verb does, as a relation between the row it read and   *)
(* the row it left.  Everything below is proved from this relation.        *)
(***************************************************************************)
Created(old, new) ==
  /\ old.status = "absent"
  /\ new.status = "active" => new.age = 0

Taken(old, new, w) ==
  /\ \/ old.status \in {"queued", "blocked"}
     \/ old.status = "active" /\ Stale(old, MinStaleAfter)
  /\ new.status = "active" /\ new.owner = w /\ new.age = 0 /\ new.reason = FALSE
  /\ old.status = "active" /\ old.owner # NoWorker
       => new.history = Remember(old.history, old.owner)

Resumed(old, new, w) ==
  /\ old.status \in {"queued", "blocked"} \/ HeldBy(old, w)
  /\ new.status = "active" /\ new.owner = w /\ new.age = 0 /\ new.reason = FALSE

Noted(old, new, w) ==
  /\ Live(old) /\ (old.status = "active" => old.owner = w)
  /\ new.status = old.status /\ new.owner = old.owner /\ new.age = 0

Freed(old, new, w) ==
  /\ HeldBy(old, w) /\ w # NoWorker
  /\ new.status \in {"queued", "blocked"} /\ new.owner = NoWorker

BlockLifted(old, new) ==
  /\ Live(old) /\ (old.status = "active" => old.owner = NoWorker)
  /\ old.status = "blocked" => new.status = "queued" /\ new.owner = NoWorker
  /\ old.status # "blocked" => new.status = old.status /\ new.owner = old.owner
  /\ new.age = 0 /\ new.reason = FALSE

Ended(old, new, w) ==
  /\ old.status \in {"queued", "blocked"} \/ HeldBy(old, w)
  /\ new.status \in Terminal

Effect(old, new, verb, w) ==
  \/ verb \in {"seed", "insert"} /\ Created(old, new)
  \/ verb = "claim"    /\ w \in Workers /\ Taken(old, new, w)
  \/ verb = "activate" /\ w \in Workers /\ Resumed(old, new, w)
  \/ verb = "update"   /\ Noted(old, new, w)
  \/ verb = "release"  /\ Freed(old, new, w)
  \/ verb = "unblock"  /\ BlockLifted(old, new)
  \/ verb = "close"    /\ Ended(old, new, w)

LEMMA VerbEffect ==
  ASSUME TypeOK, NEW i \in Ids, NEW w \in Owners, Verb(i, w)
  PROVE  Effect(table[i], table'[i], last'.verb, w) /\ last'.by = w
<1> DEFINE old == table[i]
<1>1. old \in Row /\ old.age \in 0 .. MaxAge \cup {Unreadable}
  BY DEF TypeOK, Row
<1>2. ASSUME NEW verb, NEW row, Write(verb, i, w, row)
      PROVE  table'[i] = row /\ last'.verb = verb /\ last'.by = w
  BY <1>2 DEF TypeOK, Write
<1>3. CASE \E s \in {"queued", "done"} : w = NoWorker /\ Seed(i, s)
  <2>1. PICK s \in {"queued", "done"} : Seed(i, s) /\ w = NoWorker
    BY <1>3
  <2>2. table'[i] = New(s, NoWorker, FALSE, Unreadable) /\ last'.verb = "seed"
        /\ last'.by = w /\ old.status = "absent"
    BY <1>2, <2>1 DEF Seed, Present
  <2>3. table'[i].status = s /\ s # "active"
    BY <2>2 DEF New, Absent
  <2> QED BY <2>2, <2>3 DEF Effect, Created
<1>4. CASE \E s \in Status, r \in BOOLEAN : Insert(i, s, w, r)
  <2>1. PICK s \in Status, r \in BOOLEAN : Insert(i, s, w, r)
    BY <1>4
  <2>2. table'[i] = New(s, w, r, 0) /\ last'.verb = "insert"
        /\ last'.by = w /\ old.status = "absent"
    BY <1>2, <2>1 DEF Insert, Present
  <2> QED BY <2>2, AfterInsert DEF Effect, Created
<1>5. CASE \E ttl \in Ttls, a, b \in BOOLEAN : w \in Workers /\ Claim(i, w, ttl, a, b)
  <2>1. PICK ttl \in Ttls, a \in BOOLEAN, b \in BOOLEAN : Claim(i, w, ttl, a, b)
    BY <1>5
  <2>2. table'[i] = Claimed(old, w) /\ last'.verb = "claim" /\ last'.by = w
    BY <1>2, <2>1 DEF Claim
  <2>3. Claimable(old, w, ttl, a, b) /\ ttl \in Nat
    BY <2>1 DEF Claim
  <2>4. Stale(old, ttl) => Stale(old, MinStaleAfter)
    BY <1>1, <2>3 DEF Stale, Unreadable, Claimable
  <2>5. \/ old.status \in {"queued", "blocked"}
        \/ old.status = "active" /\ Stale(old, MinStaleAfter)
    BY <2>3, <2>4 DEF Claimable
  <2> HIDE DEF old
  <2>6. Taken(old, Claimed(old, w), w)
    BY <1>1, <2>5, AfterClaim DEF Taken
  <2> QED BY <1>5, <2>2, <2>6 DEF Effect, old
<1>6. CASE \E c \in SUBSET Columns, b \in BOOLEAN :
             w \in Workers /\ UpdateActive(i, w, c, b)
  <2>1. PICK c \in SUBSET Columns, b \in BOOLEAN : UpdateActive(i, w, c, b)
    BY <1>6
  <2>2. table'[i] = Activated(old, w, c) /\ last'.verb = "activate" /\ last'.by = w
    BY <1>2, <2>1 DEF UpdateActive
  <2>3. old.status \in {"queued", "blocked"} \/ HeldBy(old, w)
    BY <2>1 DEF UpdateActive, Activatable
  <2> HIDE DEF old
  <2>4. Resumed(old, Activated(old, w, c), w)
    <3>1. /\ Activated(old, w, c).status = "active"
          /\ Activated(old, w, c).owner = w
          /\ Activated(old, w, c).age = 0
          /\ Activated(old, w, c).reason = FALSE
      BY <1>1, AfterActivation, Zenon
    <3> QED BY <2>3, <3>1 DEF Resumed
  <2> QED BY <1>6, <2>2, <2>4 DEF Effect, old
<1>7. CASE \E c \in SUBSET Columns, r \in BOOLEAN : UpdateOwned(i, w, c, r)
  <2>1. PICK c \in SUBSET Columns, r \in BOOLEAN : UpdateOwned(i, w, c, r)
    BY <1>7
  <2>2. table'[i] = Written(old, c, r) /\ last'.verb = "update" /\ last'.by = w
    BY <1>2, <2>1 DEF UpdateOwned
  <2>3. Live(old) /\ (old.status = "active" => old.owner = w)
    BY <2>1 DEF UpdateOwned, Updatable
  <2> HIDE DEF old
  <2>4. Noted(old, Written(old, c, r), w)
    BY <1>1, <2>3, AfterWrite DEF Noted
  <2> QED BY <2>2, <2>4 DEF Effect, old
<1>8. CASE \E to \in {"queued", "blocked"}, r \in BOOLEAN :
             w \in Workers /\ Release(i, w, to, r)
  <2>1. PICK to \in {"queued", "blocked"}, r \in BOOLEAN : Release(i, w, to, r)
    BY <1>8
  <2>2. table'[i] = Released(old, to, r) /\ last'.verb = "release" /\ last'.by = w
    BY <1>2, <2>1 DEF Release
  <2>3. HeldBy(old, w) /\ w # NoWorker
    BY <2>1 DEF Release, Releasable
  <2> HIDE DEF old
  <2>4. Freed(old, Released(old, to, r), w)
    BY <1>1, <2>3, AfterRelease DEF Freed
  <2> QED BY <2>2, <2>4 DEF Effect, old
<1>9. CASE w = NoWorker /\ Unblock(i)
  <2>1. table'[i] = AfterUnblock(old) /\ last'.verb = "unblock" /\ last'.by = w
    BY <1>2, <1>9 DEF Unblock
  <2>2. Live(old) /\ (old.status = "active" => old.owner = NoWorker)
    BY <1>9 DEF Unblock, Unblockable, Live, HeldBy
  <2> HIDE DEF old
  <2>3. BlockLifted(old, AfterUnblock(old))
    BY <1>1, <2>2, UnblockedColumns DEF BlockLifted
  <2> QED BY <2>1, <2>3 DEF Effect, old
<1>10. CASE \E d \in Terminal, b \in BOOLEAN : Close(i, w, d, b)
  <2>1. PICK d \in Terminal, b \in BOOLEAN : Close(i, w, d, b)
    BY <1>10
  <2>2. table'[i] = Closed(old, d) /\ last'.verb = "close" /\ last'.by = w
    BY <1>2, <2>1 DEF Close
  <2>3. old.status \in {"queued", "blocked"} \/ HeldBy(old, w)
    BY <2>1 DEF Close, Closable
  <2> HIDE DEF old
  <2>4. Ended(old, Closed(old, d), w)
    BY <1>1, <2>3, AfterClose DEF Ended
  <2> QED BY <2>2, <2>4 DEF Effect, old
<1> QED BY <1>3, <1>4, <1>5, <1>6, <1>7, <1>8, <1>9, <1>10 DEF Verb

(***************************************************************************)
(* Every lease carries a clock a later claim can read (LeaseClockReadable):*)
(* the verbs that make a row active all write updated_at, and a tick does  *)
(* not unwrite it.                                                         *)
(***************************************************************************)
THEOREM LeasesCanLapse == Spec => []LeaseClockReadable
<1>1. Init => LeaseClockReadable
  BY DEF Init, LeaseClockReadable, Absent
<1>2. TypeOK /\ LeaseClockReadable /\ [Next]_vars => LeaseClockReadable'
  <2> SUFFICES ASSUME TypeOK, LeaseClockReadable, [Next]_vars
               PROVE  LeaseClockReadable'
    OBVIOUS
  <2>1. \A i \in Ids : table[i] \in Row
    BY DEF TypeOK
  <2>2. CASE Tick
    BY <2>1, <2>2, AfterTick DEF Tick, LeaseClockReadable
  <2>3. ASSUME NEW i \in Ids, NEW w \in Owners, Verb(i, w)
        PROVE  LeaseClockReadable'
    <3>1. Effect(table[i], table'[i], last'.verb, w)
      BY <2>3, VerbEffect
    <3>2. table'[i].status = "active" => table'[i].age = 0
      BY <3>1 DEF Effect, Created, Taken, Resumed, Noted, Freed, BlockLifted,
                  Ended, Terminal
    <3>3. \A j \in Ids : j # i => table'[j] = table[j]
      BY <2>3, VerbWritesOneRow
    <3> QED BY <3>2, <3>3 DEF LeaseClockReadable, Unreadable
  <2>4. CASE UNCHANGED vars
    BY <2>4 DEF vars, LeaseClockReadable
  <2> QED BY <2>2, <2>3, <2>4, NextIsVerbOrTick
<1> QED BY <1>1, <1>2, TypeCorrect, PTL DEF Spec

(***************************************************************************)
(* A step, seen from one row: the row is written by a verb, or at most its *)
(* clock moves.                                                            *)
(***************************************************************************)
LEMMA StepOnRow ==
  ASSUME TypeOK, Next, NEW i \in Ids
  PROVE  \/ table'[i] = table[i]
         \/ table'[i] = Aged(table[i])
         \/ \E w \in Owners : /\ Effect(table[i], table'[i], last'.verb, w)
                              /\ last'.by = w
<1>1. CASE Tick
  BY <1>1 DEF Tick
<1>2. ASSUME NEW j \in Ids, NEW w \in Owners, Verb(j, w)
      PROVE  \/ table'[i] = table[i]
             \/ Effect(table[i], table'[i], last'.verb, w) /\ last'.by = w
  BY <1>2, VerbEffect, VerbWritesOneRow
<1> QED BY <1>1, <1>2, NextIsVerbOrTick

(***************************************************************************)
(* A lease is lost only by its holder's own release or close, or to a      *)
(* claim of a lapsed lease (LeaseRespected).                               *)
(***************************************************************************)
THEOREM LeasesAreRespected == Spec => LeaseRespected
<1> DEFINE Respected ==
      \A i \in Ids, w \in Workers :
        HeldBy(table[i], w) /\ ~HeldBy(table[i], w)'
          => \/ last'.by = w /\ last'.verb \in {"release", "close"}
             \/ last'.verb = "claim" /\ Stale(table[i], MinStaleAfter)
<1>1. TypeOK /\ [Next]_vars => [Respected]_vars
  <2> SUFFICES ASSUME TypeOK, Next, NEW i \in Ids, NEW v \in Workers,
                      HeldBy(table[i], v), ~HeldBy(table[i], v)'
               PROVE  \/ last'.by = v /\ last'.verb \in {"release", "close"}
                      \/ last'.verb = "claim" /\ Stale(table[i], MinStaleAfter)
    OBVIOUS
  <2>1. /\ table[i] \in Row /\ v # NoWorker
        /\ table[i].status = "active" /\ table[i].owner = v
        /\ table'[i].status # "active" \/ table'[i].owner # v
    BY DEF TypeOK, HeldBy
  <2>2. table'[i] # table[i] /\ table'[i] # Aged(table[i])
    BY <2>1, AfterTick
  <2>3. PICK w \in Owners : /\ Effect(table[i], table'[i], last'.verb, w)
                            /\ last'.by = w
    BY <2>2, StepOnRow
  <2> QED BY <2>1, <2>3 DEF Effect, Created, Taken, Resumed, Noted, Freed,
                            BlockLifted, Ended, HeldBy
<1> QED BY <1>1, TypeCorrect, PTL DEF Spec, LeaseRespected

(***************************************************************************)
(* A terminal row is never written again (TerminalImmutable).              *)
(***************************************************************************)
THEOREM TerminalRowsAreFinal == Spec => TerminalImmutable
<1> DEFINE Final ==
      \A i \in Ids : table[i].status \in Terminal => table'[i] = table[i]
<1>1. TypeOK /\ [Next]_vars => [Final]_vars
  <2> SUFFICES ASSUME TypeOK, Next, NEW i \in Ids, table[i].status \in Terminal
               PROVE  table'[i] = table[i]
    OBVIOUS
  <2>1. ~Live(table[i]) /\ table[i].status # "absent" /\ table[i] \in Row
    BY DEF TypeOK, Live, Terminal
  <2>2. Aged(table[i]) = table[i]
    BY <2>1, AfterTick DEF Live
  <2>3. \A w \in Owners : ~Effect(table[i], table'[i], last'.verb, w)
    BY <2>1 DEF Effect, Created, Taken, Resumed, Noted, Freed, BlockLifted,
                Ended, HeldBy, Live
  <2> QED BY <2>2, <2>3, StepOnRow
<1> QED BY <1>1, TypeCorrect, PTL DEF Spec, TerminalImmutable

(***************************************************************************)
(* A displaced holder is the newest entry of the history                   *)
(* (DisplacementRecorded).                                                 *)
(***************************************************************************)
THEOREM DisplacementsAreRecorded == Spec => DisplacementRecorded
<1> DEFINE Recorded ==
      \A i \in Ids, w \in Workers :
        HeldBy(table[i], w) /\ (table[i].status = "active" /\ ~HeldBy(table[i], w))'
          => /\ table'[i].history # <<>>
             /\ table'[i].history[Len(table'[i].history)] = w
<1>1. TypeOK /\ [Next]_vars => [Recorded]_vars
  <2> SUFFICES ASSUME TypeOK, Next, NEW i \in Ids, NEW v \in Workers,
                      HeldBy(table[i], v),
                      table'[i].status = "active", ~HeldBy(table[i], v)'
               PROVE  /\ table'[i].history # <<>>
                      /\ table'[i].history[Len(table'[i].history)] = v
    OBVIOUS
  <2>1. /\ table[i] \in Row /\ v # NoWorker
        /\ table[i].status = "active" /\ table[i].owner = v
        /\ table'[i].status = "active" /\ table'[i].owner # v
    BY DEF TypeOK, HeldBy
  <2>2. /\ table[i].history \in Seq(Entries) /\ Len(table[i].history) <= HistoryLimit
        /\ v \in Entries
    BY DEF TypeOK, Row, Entries
  <2>3. table'[i] # table[i] /\ table'[i] # Aged(table[i])
    BY <2>1, AfterTick
  <2>4. PICK w \in Owners : Effect(table[i], table'[i], last'.verb, w)
    BY <2>3, StepOnRow
  <2>5. table'[i].history = Remember(table[i].history, v)
    BY <2>1, <2>4 DEF Effect, Created, Taken, Resumed, Noted, Freed,
                      BlockLifted, Ended, HeldBy, Terminal
  <2> QED BY <2>2, <2>5, RememberKeepsNewest
<1> QED BY <1>1, TypeCorrect, PTL DEF Spec, DisplacementRecorded

(***************************************************************************)
(* A block is lifted by a verb that asks for it, and leaves no reason      *)
(* (BlockLiftedCleanly).                                                   *)
(***************************************************************************)
THEOREM BlocksAreLiftedCleanly == Spec => BlockLiftedCleanly
<1> DEFINE Lifted ==
      \A i \in Ids :
        table[i].status = "blocked" /\ table'[i].status \in {"queued", "active"}
          => /\ last'.verb \in {"claim", "activate", "unblock"}
             /\ ~table'[i].reason
<1>1. TypeOK /\ [Next]_vars => [Lifted]_vars
  <2> SUFFICES ASSUME TypeOK, Next, NEW i \in Ids, table[i].status = "blocked",
                      table'[i].status \in {"queued", "active"}
               PROVE  /\ last'.verb \in {"claim", "activate", "unblock"}
                      /\ ~table'[i].reason
    OBVIOUS
  <2>1. table[i] \in Row
    BY DEF TypeOK
  <2>2. table'[i] # table[i] /\ table'[i] # Aged(table[i])
    BY <2>1, AfterTick
  <2>3. PICK w \in Owners : Effect(table[i], table'[i], last'.verb, w)
    BY <2>2, StepOnRow
  <2> QED BY <2>3 DEF Effect, Created, Taken, Resumed, Noted, Freed,
                      BlockLifted, Ended, HeldBy, Terminal
<1> QED BY <1>1, TypeCorrect, PTL DEF Spec, BlockLiftedCleanly

(***************************************************************************)
(* The queue implements Lease: each verb on a row is one step of the lease *)
(* on that row, and a tick of the clock is a Lapse (ImplementsLease).      *)
(***************************************************************************)
Lapsed(row) == row.status = "active" /\ Stale(row, MinStaleAfter)

LEMMA VerbIsLeaseStep ==
  ASSUME TypeOK, TypeOK', NEW i \in Ids, NEW w \in Owners, Verb(i, w)
  PROVE  Abstract!LeaseNext
<1> DEFINE old == table[i]
           new == table'[i]
<1>1. Effect(old, new, last'.verb, w)
  BY VerbEffect
<1>2. \A j \in Ids : j # i => table'[j] = table[j]
  BY VerbWritesOneRow
<1>3. new.owner \in Owners /\ old.owner \in Owners
  BY DEF TypeOK, Row
<1>4. ~Lapsed(new)
  <2>1. new.status = "active" => new.age = 0
    BY <1>1 DEF Effect, Created, Taken, Resumed, Noted, Freed, BlockLifted,
                Ended, Terminal
  <2> QED BY <2>1 DEF Lapsed, Stale
<1>5. Abstract!SetItem(i, LeaseState(new), new.owner, FALSE)
  BY <1>2, <1>4 DEF Abstract!SetItem, Lapsed
<1>6. CASE LeaseState(old) = "free" /\ LeaseState(new) = "held"
  <2>1. Abstract!Grant(i, new.owner)
    BY <1>5, <1>6 DEF Abstract!Grant
  <2> QED BY <1>3, <2>1 DEF Abstract!LeaseNext
<1>7. CASE LeaseState(old) = "free" /\ LeaseState(new) = "free"
  <2>1. Abstract!Rename(i, new.owner)
    BY <1>5, <1>7 DEF Abstract!Rename
  <2> QED BY <1>3, <2>1 DEF Abstract!LeaseNext
<1>8. CASE LeaseState(old) # "over" /\ LeaseState(new) = "over"
  <2>1. Abstract!Finish(i, new.owner)
    BY <1>5, <1>8 DEF Abstract!Finish
  <2> QED BY <1>3, <2>1 DEF Abstract!LeaseNext
<1>9. CASE LeaseState(old) = "held" /\ LeaseState(new) = "free"
  <2>1. Abstract!Yield(i, new.owner)
    BY <1>5, <1>9 DEF Abstract!Yield
  <2> QED BY <1>3, <2>1 DEF Abstract!LeaseNext
<1>10. CASE LeaseState(old) = "held" /\ LeaseState(new) = "held"
  <2>1. new.owner = old.owner \/ Lapsed(old)
    BY <1>1, <1>10 DEF LeaseState, Lapsed, Effect, Created, Taken, Resumed,
         Noted, Freed, BlockLifted, Ended, HeldBy, Terminal
  <2>2. CASE new.owner = old.owner
    <3>1. Abstract!Renew(i)
      BY <1>5, <1>10, <2>2 DEF Abstract!Renew
    <3> QED BY <3>1 DEF Abstract!LeaseNext
  <2>3. CASE Lapsed(old)
    <3>1. Abstract!TakeOver(i, new.owner)
      BY <1>5, <1>10, <2>3 DEF Abstract!TakeOver, Lapsed
    <3> QED BY <1>3, <3>1 DEF Abstract!LeaseNext
  <2> QED BY <2>1, <2>2, <2>3
<1>11. LeaseState(old) # "over"
  BY <1>1 DEF LeaseState, Effect, Created, Taken, Resumed, Noted, Freed,
       BlockLifted, Ended, HeldBy, Live, Terminal
<1>12. \A row : LeaseState(row) \in {"free", "held", "over"}
  BY DEF LeaseState
<1> QED BY <1>6, <1>7, <1>8, <1>9, <1>10, <1>11, <1>12

LEMMA TickIsLapse ==
  ASSUME TypeOK, Tick
  PROVE  Abstract!LeaseNext
<1> DEFINE held == {i \in Ids : Lapsed(Aged(table[i]))}
<1>1. \A i \in Ids : /\ table'[i] = Aged(table[i])
                     /\ Aged(table[i]).status = table[i].status
                     /\ Aged(table[i]).owner = table[i].owner
                     /\ Lapsed(table[i]) => Lapsed(Aged(table[i]))
  BY AfterTick DEF Tick, TypeOK, Lapsed
<1>2. held \in SUBSET {i \in Ids : LeaseState(table[i]) = "held"}
  <2>1. \A i \in Ids : Lapsed(Aged(table[i])) => table[i].status = "active"
    BY <1>1 DEF Lapsed
  <2>2. \A row : row.status = "active" => LeaseState(row) = "held"
    BY DEF LeaseState, Terminal
  <2>3. \A i \in Ids : Lapsed(Aged(table[i])) => LeaseState(table[i]) = "held"
    BY <2>1, <2>2
  <2> QED BY <2>3
<1>3. \A i \in Ids : Lapsed(table'[i]) <=> i \in held \/ Lapsed(table[i])
  BY <1>1
<1>4. \A i \in Ids : LeaseState(table'[i]) = LeaseState(table[i])
  BY <1>1 DEF LeaseState
<1>5. Abstract!Lapse
  <2>1. [i \in Ids |-> LeaseState(table'[i])] = [i \in Ids |-> LeaseState(table[i])]
    BY <1>4
  <2>2. [i \in Ids |-> table'[i].owner] = [i \in Ids |-> table[i].owner]
    BY <1>1
  <2>3. \A i \in Ids : (table'[i].status = "active" /\ Stale(table'[i], MinStaleAfter))
          = (i \in held \/ (table[i].status = "active" /\ Stale(table[i], MinStaleAfter)))
    BY <1>3 DEF Lapsed
  <2> QED BY <1>2, <2>1, <2>2, <2>3, Zenon DEF Abstract!Lapse
<1> QED BY <1>5 DEF Abstract!LeaseNext

(* Every row of the queue is a lease: see Lease.tla.                        *)
THEOREM QueueImplementsLease == Spec => ImplementsLease
<1>1. Init => Abstract!LeaseInit
  <2> SUFFICES ASSUME Init PROVE Abstract!LeaseInit
    OBVIOUS
  <2>1. \A i \in Ids : /\ table[i] = Absent
                       /\ LeaseState(table[i]) = "free"
                       /\ table[i].owner \in Owners
                       /\ ~(table[i].status = "active" /\ Stale(table[i], MinStaleAfter))
    BY DEF Init, Absent, LeaseState, Owners, Terminal
  <2> QED BY <2>1 DEF Abstract!LeaseInit
<1>2. TypeOK /\ TypeOK' /\ [Next]_vars => [Abstract!LeaseNext]_(Abstract!leaseVars)
  <2>1. ASSUME TypeOK, TypeOK', Next PROVE Abstract!LeaseNext
    BY <2>1, NextIsVerbOrTick, VerbIsLeaseStep, TickIsLapse
  <2>2. ASSUME UNCHANGED vars PROVE UNCHANGED (Abstract!leaseVars)
    BY <2>2 DEF vars, Abstract!leaseVars
  <2> QED BY <2>1, <2>2
<1> QED BY <1>1, <1>2, TypeCorrect, PTL DEF Spec, ImplementsLease, Abstract!LeaseSpec
===============================================================================
