------------------------ MODULE PackagePromotionProofs ------------------------
(***************************************************************************)
(* Promotions of any number of packages by any number of processes: what   *)
(* each lock says of the runs of its package, what is left behind, and     *)
(* under which hypotheses one run alone installs and no tree is lost.      *)
(***************************************************************************)
EXTENDS PackagePromotion, TLAPS

USE RunsAssumption

(* ------------------------------- types ---------------------------------- *)
Tree == [made : BOOLEAN, temp : BOOLEAN, install : BOOLEAN, superseded : Trees]

(* Where a run goes, with or without a result, is a control point.          *)
LEMMA Moves ==
  ASSUME TypeOK, NEW r \in Runs, NEW next \in Pcs, NEW re \in Results,
         Goto(r, next) \/ Leave(r, next, re)
  PROVE  pc' \in [Runs -> Pcs] /\ result' \in [Runs -> Results] /\ torn' \subseteq Packages
<1>1. CASE Goto(r, next)
  BY <1>1 DEF TypeOK, Goto
<1>2. CASE Leave(r, next, re)
  BY <1>2 DEF TypeOK, Leave
<1> QED BY <1>1, <1>2

(* A tree of which one part changes is still a tree.                        *)
LEMMA Parts ==
  ASSUME NEW t \in Tree
  PROVE  /\ [t EXCEPT !.made = TRUE] \in Tree
         /\ [t EXCEPT !.made = TRUE, !.temp = TRUE] \in Tree
         /\ [t EXCEPT !.made = TRUE, !.install = TRUE] \in Tree
         /\ [t EXCEPT !.install = FALSE] \in Tree
  BY DEF Tree

(* What is left of a tree that is removed is one, and was one.              *)
LEMMA Remains ==
  ASSUME TypeOK, NEW q \in Runs
  PROVE  /\ Gone(q) \in Tree
         /\ Gone(q) # NoTree => scratch[q] # NoTree
         /\ scratch[q] = NoTree => Gone(q) = NoTree
<1>1. scratch[q] \in Tree
  BY DEF TypeOK, Tree
<1> QED BY <1>1 DEF Gone, NoTree, Tree, Trees

(* A failure that happens is counted.                                       *)
LEMMA Faults == TypeOK /\ Fault => faults' \in 0 .. MaxFaults
  BY DEF TypeOK, Fault

(* Every step keeps the types.                                              *)
LEMMA TypesNext == TypeOK /\ [Next]_vars => TypeOK'
<1> SUFFICES ASSUME TypeOK, [Next]_vars PROVE TypeOK'
  OBVIOUS
<1> DEFINE Files == /\ lock' \in [Packages -> Runs \cup {NoLock, Unsigned}]
                    /\ holder' \in BOOLEAN
                    /\ dest' \in [Packages -> Trees]
                    /\ lost' \in [Packages -> Trees]
           Scratch == scratch' \in [Runs -> Tree]
           Control == /\ pc' \in [Runs -> Pcs] /\ result' \in [Runs -> Results]
                      /\ torn' \subseteq Packages
<1>1. ASSUME NEW r \in Runs, TakeLock(r) PROVE TypeOK'
  <2>1. Control
    BY <1>1, Moves DEF TakeLock, Pcs, Results
  <2>2. Files
    BY <1>1 DEF TakeLock, TypeOK, files, Trees
  <2>3. Scratch
    BY <1>1 DEF TakeLock, TypeOK, files, Tree, Trees, NoTree
  <2>4. faults' \in 0 .. MaxFaults
    BY <1>1, Faults DEF TakeLock, TypeOK, files, Fault
  <2> QED BY <2>1, <2>2, <2>3, <2>4 DEF TypeOK, Tree
<1>2. ASSUME NEW r \in Runs, Probe(r) PROVE TypeOK'
  <2>1. Control
    BY <1>2, Moves DEF Probe, Pcs, Results
  <2>2. Files
    BY <1>2 DEF Probe, TypeOK, files, Trees
  <2>3. Scratch
    BY <1>2 DEF Probe, TypeOK, files, Tree, Trees, NoTree
  <2>4. faults' \in 0 .. MaxFaults
    BY <1>2, Faults DEF Probe, TypeOK, files, Fault
  <2> QED BY <2>1, <2>2, <2>3, <2>4 DEF TypeOK, Tree
<1>3. ASSUME NEW r \in Runs, Steal(r) PROVE TypeOK'
  <2>1. Control
    BY <1>3, Moves DEF Steal, rmtree, Pcs, Results
  <2>2. Files
    BY <1>3 DEF Steal, rmtree, TypeOK, files, Trees
  <2>3. Scratch
    BY <1>3 DEF Steal, rmtree, TypeOK, files, Tree, Trees, NoTree
  <2>4. faults' \in 0 .. MaxFaults
    BY <1>3, Faults DEF Steal, rmtree, TypeOK, files, Fault
  <2> QED BY <2>1, <2>2, <2>3, <2>4 DEF TypeOK, Tree
<1>4. ASSUME NEW r \in Runs, Sign(r) PROVE TypeOK'
  <2>1. Control
    BY <1>4, Moves DEF Sign, Pcs, Results
  <2>2. Files
    BY <1>4 DEF Sign, TypeOK, files, Trees
  <2>3. Scratch
    BY <1>4 DEF Sign, TypeOK, files, Tree, Trees, NoTree
  <2>4. faults' \in 0 .. MaxFaults
    BY <1>4, Faults DEF Sign, TypeOK, files, Fault
  <2> QED BY <2>1, <2>2, <2>3, <2>4 DEF TypeOK, Tree
<1>5. ASSUME NEW r \in Runs, Abandon(r) PROVE TypeOK'
  <2>1. Control
    BY <1>5, Moves DEF Abandon, rmtree, Pcs, Results
  <2>2. Files
    BY <1>5 DEF Abandon, rmtree, TypeOK, files, Trees
  <2>3. Scratch
    BY <1>5 DEF Abandon, rmtree, TypeOK, files, Tree, Trees, NoTree
  <2>4. faults' \in 0 .. MaxFaults
    BY <1>5, Faults DEF Abandon, rmtree, TypeOK, files, Fault
  <2> QED BY <2>1, <2>2, <2>3, <2>4 DEF TypeOK, Tree
<1>6. ASSUME NEW r \in Runs, Check(r) PROVE TypeOK'
  <2>1. Control
    BY <1>6, Moves DEF Check, Pcs, Results
  <2>2. Files
    BY <1>6 DEF Check, TypeOK, files, Trees
  <2>3. Scratch
    BY <1>6 DEF Check, TypeOK, files, Tree, Trees, NoTree
  <2>4. faults' \in 0 .. MaxFaults
    BY <1>6, Faults DEF Check, TypeOK, files, Fault
  <2> QED BY <2>1, <2>2, <2>3, <2>4 DEF TypeOK, Tree
<1>7. ASSUME NEW r \in Runs, MakeHolder(r) PROVE TypeOK'
  <2>1. Control
    BY <1>7, Moves DEF MakeHolder, Pcs, Results
  <2>2. Files
    BY <1>7 DEF MakeHolder, TypeOK, files, Trees
  <2>3. Scratch
    BY <1>7 DEF MakeHolder, TypeOK, files, Tree, Trees, NoTree
  <2>4. faults' \in 0 .. MaxFaults
    BY <1>7, Faults DEF MakeHolder, TypeOK, files, Fault
  <2> QED BY <2>1, <2>2, <2>3, <2>4 DEF TypeOK, Tree
<1>8. ASSUME NEW r \in Runs, Sweep(r) PROVE TypeOK'
  <2>1. Control
    BY <1>8, Moves DEF Sweep, Pcs, Results
  <2>2. Files
    BY <1>8 DEF Sweep, TypeOK, files, Trees
  <2>3. Scratch
    <3>1. scratch \in [Runs -> Tree]
      BY DEF TypeOK, Tree
    <3> QED BY <1>8, <3>1, Remains DEF Sweep
  <2>4. faults' \in 0 .. MaxFaults
    BY <1>8, Faults DEF Sweep, TypeOK, files, Fault
  <2> QED BY <2>1, <2>2, <2>3, <2>4 DEF TypeOK, Tree
<1>9. ASSUME NEW r \in Runs, MakeScratch(r) PROVE TypeOK'
  <2>1. Control
    BY <1>9, Moves DEF MakeScratch, Pcs, Results
  <2>2. Files
    BY <1>9 DEF MakeScratch, TypeOK, files, Trees
  <2>3. Scratch
    <3>1. scratch \in [Runs -> Tree] /\ scratch[r] \in Tree
      BY DEF TypeOK, Tree
    <3> QED BY <1>9, <3>1, Parts DEF MakeScratch
  <2>4. faults' \in 0 .. MaxFaults
    BY <1>9, Faults DEF MakeScratch, TypeOK, files, Fault
  <2> QED BY <2>1, <2>2, <2>3, <2>4 DEF TypeOK, Tree
<1>10. ASSUME NEW r \in Runs, MakeTemp(r) PROVE TypeOK'
  <2>1. Control
    BY <1>10, Moves DEF MakeTemp, Pcs, Results
  <2>2. Files
    BY <1>10 DEF MakeTemp, TypeOK, files, Trees
  <2>3. Scratch
    <3>1. scratch \in [Runs -> Tree] /\ scratch[r] \in Tree
      BY DEF TypeOK, Tree
    <3> QED BY <1>10, <3>1, Parts DEF MakeTemp
  <2>4. faults' \in 0 .. MaxFaults
    BY <1>10, Faults DEF MakeTemp, TypeOK, files, Fault
  <2> QED BY <2>1, <2>2, <2>3, <2>4 DEF TypeOK, Tree
<1>11. ASSUME NEW r \in Runs, Scrap(r) PROVE TypeOK'
  <2>1. Control
    BY <1>11, Moves DEF Scrap, Pcs, Results
  <2>2. Files
    BY <1>11 DEF Scrap, TypeOK, files, Trees
  <2>3. Scratch
    BY <1>11, Remains DEF Scrap
  <2>4. faults' \in 0 .. MaxFaults
    BY <1>11, Faults DEF Scrap, TypeOK, files, Fault
  <2> QED BY <2>1, <2>2, <2>3, <2>4 DEF TypeOK, Tree
<1>12. ASSUME NEW r \in Runs, Stage(r) PROVE TypeOK'
  <2>1. Control
    BY <1>12, Moves DEF Stage, Pcs, Results
  <2>2. Files
    BY <1>12 DEF Stage, TypeOK, files, Trees
  <2>3. Scratch
    <3>1. scratch \in [Runs -> Tree] /\ scratch[r] \in Tree
      BY DEF TypeOK, Tree
    <3> QED BY <1>12, <3>1, Parts DEF Stage
  <2>4. faults' \in 0 .. MaxFaults
    BY <1>12, Faults DEF Stage, TypeOK, files, Fault
  <2> QED BY <2>1, <2>2, <2>3, <2>4 DEF TypeOK, Tree
<1>13. ASSUME NEW r \in Runs, _gate(r) PROVE TypeOK'
  <2>1. Control
    BY <1>13, Moves DEF _gate, Pcs, Results
  <2>2. Files
    BY <1>13 DEF _gate, TypeOK, files, Trees
  <2>3. Scratch
    BY <1>13 DEF _gate, TypeOK, files, Tree, Trees, NoTree
  <2>4. faults' \in 0 .. MaxFaults
    BY <1>13, Faults DEF _gate, TypeOK, files, Fault
  <2> QED BY <2>1, <2>2, <2>3, <2>4 DEF TypeOK, Tree
<1>14. ASSUME NEW r \in Runs, SetAside(r) PROVE TypeOK'
  <2>1. Control
    BY <1>14, Moves DEF SetAside, Pcs, Results
  <2>2. Files
    BY <1>14 DEF SetAside, TypeOK, files, Trees
  <2>3. Scratch
    BY <1>14 DEF SetAside, TypeOK, files, Tree, Trees, NoTree
  <2>4. faults' \in 0 .. MaxFaults
    BY <1>14, Faults DEF SetAside, TypeOK, files, Fault
  <2> QED BY <2>1, <2>2, <2>3, <2>4 DEF TypeOK, Tree
<1>15. ASSUME NEW r \in Runs, Replace(r) PROVE TypeOK'
  <2>1. Control
    BY <1>15, Moves DEF Replace, Pcs, Results
  <2>2. Files
    BY <1>15 DEF Replace, TypeOK, files, Trees
  <2>3. Scratch
    <3>1. scratch \in [Runs -> Tree] /\ scratch[r] \in Tree
      BY DEF TypeOK, Tree
    <3> QED BY <1>15, <3>1, Parts DEF Replace
  <2>4. faults' \in 0 .. MaxFaults
    BY <1>15, Faults DEF Replace, TypeOK, files, Fault
  <2> QED BY <2>1, <2>2, <2>3, <2>4 DEF TypeOK, Tree
<1>16. ASSUME NEW r \in Runs, Restore(r) PROVE TypeOK'
  <2>1. Control
    BY <1>16, Moves DEF Restore, Pcs, Results
  <2>2. Files
    BY <1>16 DEF Restore, TypeOK, files, Trees
  <2>3. Scratch
    BY <1>16 DEF Restore, TypeOK, files, Tree, Trees, NoTree
  <2>4. faults' \in 0 .. MaxFaults
    BY <1>16, Faults DEF Restore, TypeOK, files, Fault
  <2> QED BY <2>1, <2>2, <2>3, <2>4 DEF TypeOK, Tree
<1>17. ASSUME NEW r \in Runs, Record(r) PROVE TypeOK'
  <2>1. Control
    BY <1>17, Moves DEF Record, Pcs, Results
  <2>2. Files
    BY <1>17 DEF Record, TypeOK, files, Trees
  <2>3. Scratch
    BY <1>17 DEF Record, TypeOK, files, Tree, Trees, NoTree
  <2>4. faults' \in 0 .. MaxFaults
    BY <1>17, Faults DEF Record, TypeOK, files, Fault
  <2> QED BY <2>1, <2>2, <2>3, <2>4 DEF TypeOK, Tree
<1>18. ASSUME NEW r \in Runs, Drop(r) PROVE TypeOK'
  <2>1. Control
    BY <1>18, Moves DEF Drop, Pcs, Results
  <2>2. Files
    BY <1>18 DEF Drop, TypeOK, files, Trees
  <2>3. Scratch
    BY <1>18 DEF Drop, TypeOK, files, Tree, Trees, NoTree
  <2>4. faults' \in 0 .. MaxFaults
    BY <1>18, Faults DEF Drop, TypeOK, files, Fault
  <2> QED BY <2>1, <2>2, <2>3, <2>4 DEF TypeOK, Tree
<1>19. ASSUME NEW r \in Runs, Unlock(r) PROVE TypeOK'
  <2>1. Control
    BY <1>19, Moves DEF Unlock, rmtree, Pcs, Results
  <2>2. Files
    BY <1>19 DEF Unlock, rmtree, TypeOK, files, Trees
  <2>3. Scratch
    BY <1>19 DEF Unlock, rmtree, TypeOK, files, Tree, Trees, NoTree
  <2>4. faults' \in 0 .. MaxFaults
    BY <1>19, Faults DEF Unlock, rmtree, TypeOK, files, Fault
  <2> QED BY <2>1, <2>2, <2>3, <2>4 DEF TypeOK, Tree
<1>20. ASSUME NEW r \in Runs, Crash(r) PROVE TypeOK'
  <2>1. Control
    BY <1>20 DEF Crash, TypeOK, Pcs
  <2>2. Files
    BY <1>20 DEF Crash, TypeOK, files, Trees
  <2>3. Scratch
    BY <1>20 DEF Crash, TypeOK, files, Tree, Trees, NoTree
  <2>4. faults' \in 0 .. MaxFaults
    BY <1>20, Faults DEF Crash, TypeOK, files, Fault
  <2> QED BY <2>1, <2>2, <2>3, <2>4 DEF TypeOK, Tree
<1>21. CASE UNCHANGED vars
  BY <1>21 DEF TypeOK, vars, files
<1> QED
  BY <1>1, <1>2, <1>3, <1>4, <1>5, <1>6, <1>7, <1>8, <1>9, <1>10, <1>11,
     <1>12, <1>13, <1>14, <1>15, <1>16, <1>17, <1>18, <1>19, <1>20, <1>21 DEF Next, Step

(* The state stays within its types, whatever is killed and whatever fails. *)
THEOREM TypeCorrect == Spec => []TypeOK
<1>1. Init => TypeOK
  <2> SUFFICES ASSUME Init PROVE TypeOK
    OBVIOUS
  <2>1. 0 \in 0 .. MaxFaults
    OBVIOUS
  <2> QED BY <2>1 DEF Init, TypeOK, NoTree, Trees, Pcs, Results
<1> QED BY <1>1, TypesNext, PTL DEF Spec

(* ------------------------- what locks stand for ------------------------- *)
(* Where a run's name is in no lock: before it, amid it, or gone.           *)
Away == {"locking", "probing", "stealing", "ended", "crashed"} \cup AmidLock

(* An unsigned lock is somebody's who will sign or remove it, or one a run  *)
(* was killed in the middle of; a signed one belongs to the run it names,   *)
(* which is past it or dead.                                                *)
LocksInv ==
  /\ \A p \in Packages :
       /\ lock[p] = Unsigned =>
            p \in torn \/ \E r \in Runs : PackageOf[r] = p /\ pc[r] \in AmidLock
       /\ lock[p] \in Runs => /\ PackageOf[lock[p]] = p
                              /\ Holding(lock[p]) \/ ~_alive(lock[p])
  /\ \A p \in torn : \E r \in Runs : PackageOf[r] = p /\ pc[r] = "crashed"

(* The ways a removal can go: nothing is there, the owner file goes, the    *)
(* empty directory goes, or it stays because somebody has signed it.        *)
Removes(r, full, empty, next, go, mark) ==
  LET here == lock[PackageOf[r]] IN
  \/ pc[r] = full /\ here = NoLock /\ mark = NoLock /\ go = next
  \/ pc[r] = full /\ here # NoLock /\ mark = Unsigned /\ go = empty
  \/ pc[r] = empty /\ here = Unsigned /\ mark = NoLock /\ go = next
  \/ pc[r] = empty /\ here # Unsigned /\ mark = here /\ go = next

LEMMA Removal ==
  ASSUME NEW r \in Runs, NEW full, NEW empty, NEW next, rmtree(r, full, empty, next)
  PROVE  \E go, mark : /\ Removes(r, full, empty, next, go, mark)
                       /\ pc' = [pc EXCEPT ![r] = go]
                       /\ lock' = [lock EXCEPT ![PackageOf[r]] = mark]
                       /\ torn' = torn
<1>1. CASE pc[r] = full /\ lock[PackageOf[r]] = NoLock
           /\ lock' = [lock EXCEPT ![PackageOf[r]] = NoLock] /\ Goto(r, next)
  BY <1>1 DEF Removes, Goto
<1>2. CASE pc[r] = full /\ lock[PackageOf[r]] # NoLock
           /\ lock' = [lock EXCEPT ![PackageOf[r]] = Unsigned] /\ Goto(r, empty)
  BY <1>2 DEF Removes, Goto
<1>3. CASE pc[r] = empty /\ lock[PackageOf[r]] = Unsigned
           /\ lock' = [lock EXCEPT ![PackageOf[r]] = NoLock] /\ Goto(r, next)
  BY <1>3 DEF Removes, Goto
<1>4. CASE pc[r] = empty /\ lock[PackageOf[r]] # Unsigned
           /\ lock' = [lock EXCEPT ![PackageOf[r]] = lock[PackageOf[r]]] /\ Goto(r, next)
  BY <1>4 DEF Removes, Goto
<1> QED BY <1>1, <1>2, <1>3, <1>4 DEF rmtree

(* A step that touches no lock keeps this, when a run that is amid one or   *)
(* past it stays so.                                                        *)
LEMMA LocksKept ==
  ASSUME TypeOK, LocksInv, NEW r \in Runs, NEW next,
         lock' = lock, torn' = torn, pc' = [pc EXCEPT ![r] = next],
         pc[r] # "crashed",
         pc[r] \in AmidLock => next \in AmidLock,
         pc[r] \notin Away => next \notin Away
  PROVE  LocksInv'
<1>1. \A q \in Runs : pc'[q] = IF q = r THEN next ELSE pc[q]
  BY DEF TypeOK
<1>2. ASSUME NEW p \in Packages, lock[p] = Unsigned
      PROVE  p \in torn \/ \E q \in Runs : PackageOf[q] = p /\ pc'[q] \in AmidLock
  BY <1>1, <1>2 DEF LocksInv
<1>3. ASSUME NEW p \in Packages, lock[p] \in Runs
      PROVE  PackageOf[lock[p]] = p /\ (Holding(lock[p])' \/ ~_alive(lock[p])')
  BY <1>1, <1>3 DEF LocksInv, Holding, _alive, Away
<1>4. \A p \in torn : \E q \in Runs : PackageOf[q] = p /\ pc'[q] = "crashed"
  BY <1>1 DEF LocksInv
<1> QED BY <1>2, <1>3, <1>4 DEF LocksInv, Holding, _alive

(* So does a step that writes one, if it signs it with its own name, empties*)
(* it and is amid it, removes it, or leaves another's name where it is.     *)
LEMMA LocksWritten ==
  ASSUME TypeOK, LocksInv, NEW r \in Runs, NEW next, NEW mark,
         lock' = [lock EXCEPT ![PackageOf[r]] = mark],
         torn' = torn, pc' = [pc EXCEPT ![r] = next],
         pc[r] # "crashed",
         \/ mark = NoLock
         \/ mark = Unsigned /\ next \in AmidLock
         \/ mark = r /\ next = "checking"
         \/ mark = lock[PackageOf[r]] /\ mark # Unsigned /\ pc[r] \in Away
  PROVE  LocksInv'
<1>1. /\ \A q \in Runs : pc'[q] = IF q = r THEN next ELSE pc[q]
      /\ PackageOf[r] \in Packages
      /\ \A p \in Packages : lock'[p] = IF p = PackageOf[r] THEN mark ELSE lock[p]
      /\ mark \in Runs \cup {NoLock, Unsigned}
  BY DEF TypeOK
<1>2. ASSUME NEW p \in Packages, lock'[p] = Unsigned
      PROVE  p \in torn \/ \E q \in Runs : PackageOf[q] = p /\ pc'[q] \in AmidLock
  <2>1. CASE p = PackageOf[r]
    BY <1>1, <1>2, <2>1
  <2>2. CASE p # PackageOf[r]
    BY <1>1, <1>2, <2>2 DEF LocksInv
  <2> QED BY <2>1, <2>2
<1>3. ASSUME NEW p \in Packages, lock'[p] \in Runs
      PROVE  PackageOf[lock'[p]] = p /\ (pc'[lock'[p]] \notin Away \/ pc'[lock'[p]] = "crashed")
  <2>1. CASE lock'[p] = lock[p] /\ lock[p] # r
    BY <1>1, <1>3, <2>1 DEF LocksInv, Holding, _alive, Away
  <2>2. CASE p = PackageOf[r] /\ lock'[p] = r /\ next = "checking"
    BY <1>1, <2>2 DEF Away, AmidLock
  <2>3. CASE lock[p] = r
    <3>1. p = PackageOf[r] /\ pc[r] \notin Away
      BY <2>3 DEF LocksInv, Holding, _alive, Away
    <3> QED BY <1>1, <1>3, <2>2, <3>1
  <2> QED BY <1>1, <1>3, <2>1, <2>2, <2>3
<1>4. \A p \in torn : \E q \in Runs : PackageOf[q] = p /\ pc'[q] = "crashed"
  BY <1>1 DEF LocksInv
<1> QED BY <1>2, <1>3, <1>4 DEF LocksInv, Holding, _alive, Away

(* Every step keeps it.                                                     *)
LEMMA LocksNext == TypeOK /\ LocksInv /\ [Next]_vars => LocksInv'
<1> SUFFICES ASSUME TypeOK, LocksInv, [Next]_vars PROVE LocksInv'
  OBVIOUS
<1>0. pc \in [Runs -> Pcs] /\ lock \in [Packages -> Runs \cup {NoLock, Unsigned}]
  BY DEF TypeOK
<1>1. ASSUME NEW r \in Runs, TakeLock(r) PROVE LocksInv'
  <2>1. CASE lock' = lock
    BY <1>0, <1>1, <2>1, LocksKept DEF TakeLock, Goto, Leave, Away, AmidLock
  <2>2. CASE lock' = [lock EXCEPT ![PackageOf[r]] = Unsigned] /\ Goto(r, "signing")
    BY <1>1, <2>2, LocksWritten DEF TakeLock, Goto, AmidLock
  <2> QED BY <1>1, <2>1, <2>2 DEF TakeLock
<1>2. ASSUME NEW r \in Runs, Probe(r) PROVE LocksInv'
  BY <1>2, LocksKept DEF Probe, Goto, Leave, files, Away, AmidLock
<1>3. ASSUME NEW r \in Runs, Steal(r) PROVE LocksInv'
  <2>1. PICK go, mark : /\ Removes(r, "stealing", "stolen", "locking", go, mark)
                        /\ pc' = [pc EXCEPT ![r] = go]
                        /\ lock' = [lock EXCEPT ![PackageOf[r]] = mark]
                        /\ torn' = torn
    BY <1>3, Removal DEF Steal
  <2> QED BY <2>1, LocksWritten DEF Removes, Away, AmidLock
<1>4. ASSUME NEW r \in Runs, Sign(r) PROVE LocksInv'
  <2>1. CASE lock' = [lock EXCEPT ![PackageOf[r]] = r] /\ Goto(r, "checking")
    BY <1>4, <2>1, LocksWritten DEF Sign, Goto
  <2>2. CASE lock' = lock /\ Leave(r, "abandoning", "locked")
    BY <1>4, <2>2, LocksKept DEF Sign, Leave, Away, AmidLock
  <2> QED BY <1>4, <2>1, <2>2 DEF Sign
<1>5. ASSUME NEW r \in Runs, Abandon(r) PROVE LocksInv'
  <2>1. PICK go, mark : /\ Removes(r, "abandoning", "abandoned", "ended", go, mark)
                        /\ pc' = [pc EXCEPT ![r] = go]
                        /\ lock' = [lock EXCEPT ![PackageOf[r]] = mark]
                        /\ torn' = torn
    BY <1>5, Removal DEF Abandon
  <2> QED BY <2>1, LocksWritten DEF Removes, Away, AmidLock
<1>6. ASSUME NEW r \in Runs, Check(r) PROVE LocksInv'
  BY <1>6, LocksKept DEF Check, Goto, Leave, files, Away, AmidLock
<1>7. ASSUME NEW r \in Runs, MakeHolder(r) PROVE LocksInv'
  BY <1>7, LocksKept DEF MakeHolder, Goto, Leave, files, Away, AmidLock
<1>8. ASSUME NEW r \in Runs, Sweep(r) PROVE LocksInv'
  BY <1>8, LocksKept DEF Sweep, Goto, Leave, files, Away, AmidLock
<1>9. ASSUME NEW r \in Runs, MakeScratch(r) PROVE LocksInv'
  BY <1>9, LocksKept DEF MakeScratch, Goto, Leave, files, Away, AmidLock
<1>10. ASSUME NEW r \in Runs, MakeTemp(r) PROVE LocksInv'
  BY <1>10, LocksKept DEF MakeTemp, Goto, Leave, files, Away, AmidLock
<1>11. ASSUME NEW r \in Runs, Scrap(r) PROVE LocksInv'
  BY <1>11, LocksKept DEF Scrap, Goto, Leave, files, Away, AmidLock
<1>12. ASSUME NEW r \in Runs, Stage(r) PROVE LocksInv'
  BY <1>12, LocksKept DEF Stage, Goto, Leave, files, Away, AmidLock
<1>13. ASSUME NEW r \in Runs, _gate(r) PROVE LocksInv'
  BY <1>13, LocksKept DEF _gate, Goto, Leave, files, Away, AmidLock
<1>14. ASSUME NEW r \in Runs, SetAside(r) PROVE LocksInv'
  BY <1>14, LocksKept DEF SetAside, Goto, Leave, files, Away, AmidLock
<1>15. ASSUME NEW r \in Runs, Replace(r) PROVE LocksInv'
  BY <1>15, LocksKept DEF Replace, Goto, Leave, files, Away, AmidLock
<1>16. ASSUME NEW r \in Runs, Restore(r) PROVE LocksInv'
  BY <1>16, LocksKept DEF Restore, Goto, Leave, files, Away, AmidLock
<1>17. ASSUME NEW r \in Runs, Record(r) PROVE LocksInv'
  BY <1>17, LocksKept DEF Record, Goto, Leave, files, Away, AmidLock
<1>18. ASSUME NEW r \in Runs, Drop(r) PROVE LocksInv'
  BY <1>18, LocksKept DEF Drop, Goto, Leave, files, Away, AmidLock
<1>19. ASSUME NEW r \in Runs, Unlock(r) PROVE LocksInv'
  <2>1. PICK go, mark : /\ Removes(r, "unlocking", "unlocked", "ended", go, mark)
                        /\ pc' = [pc EXCEPT ![r] = go]
                        /\ lock' = [lock EXCEPT ![PackageOf[r]] = mark]
                        /\ torn' = torn
    BY <1>19, Removal DEF Unlock
  <2> QED BY <2>1, LocksWritten DEF Removes, Away, AmidLock
<1>20. ASSUME NEW r \in Runs, Crash(r) PROVE LocksInv'
  <2>1. /\ lock' = lock
        /\ \A q \in Runs : pc'[q] = IF q = r THEN "crashed" ELSE pc[q]
        /\ PackageOf[r] \in Packages
        /\ torn' = IF pc[r] \in AmidLock THEN torn \cup {PackageOf[r]} ELSE torn
    BY <1>0, <1>20 DEF Crash, files
  <2>2. ASSUME NEW p \in Packages, lock[p] = Unsigned
        PROVE  p \in torn' \/ \E q \in Runs : PackageOf[q] = p /\ pc'[q] \in AmidLock
    BY <2>1, <2>2 DEF LocksInv
  <2>3. ASSUME NEW p \in Packages, lock[p] \in Runs
        PROVE  PackageOf[lock[p]] = p /\ (Holding(lock[p])' \/ ~_alive(lock[p])')
    BY <2>1, <2>3 DEF LocksInv, Holding, _alive
  <2>4. \A p \in torn' : \E q \in Runs : PackageOf[q] = p /\ pc'[q] = "crashed"
    BY <2>1 DEF LocksInv
  <2> QED BY <2>1, <2>2, <2>3, <2>4 DEF LocksInv, Holding, _alive
<1>21. CASE UNCHANGED vars
  BY <1>21 DEF LocksInv, Holding, _alive, vars, files
<1> QED
  BY <1>1, <1>2, <1>3, <1>4, <1>5, <1>6, <1>7, <1>8, <1>9, <1>10, <1>11,
     <1>12, <1>13, <1>14, <1>15, <1>16, <1>17, <1>18, <1>19, <1>20, <1>21 DEF Next, Step

(* A lock that nobody can take any more is the work of a run killed amid    *)
(* it, for any packages and runs, wherever runs are killed and whatever     *)
(* fails or is stolen: any other is somebody's who will sign or remove it,  *)
(* or it names a dead owner and can be stolen (promote.py:1014-1070).       *)
THEOREM OnlyKillsAmidALockWedge == Spec => []OnlyTornLocksWedge
<1>1. Init => LocksInv
  BY DEF Init, LocksInv
<1>2. TypeOK /\ LocksInv => OnlyTornLocksWedge
  BY DEF TypeOK, LocksInv, OnlyTornLocksWedge, CanBeTaken
<1> QED BY <1>1, <1>2, LocksNext, TypeCorrect, PTL DEF Spec

(* ---------------------------- what is left ------------------------------ *)
(* Where a run may have a tree in the holder, and where it may keep the     *)
(* holder itself from being removed.                                        *)
Staged == {"staging", "gating", "installing", "replacing", "restoring",
           "recording", "dropping", "crashed"}
Keeping == {"sweeping", "making", "retrying", "scrapping"}

TreesInv ==
  /\ \A r \in Runs : scratch[r] # NoTree => pc[r] \in Staged
  /\ holder => \E r \in Runs : pc[r] \in Staged \cup Keeping

(* A step that adds no tree and no holder keeps this, when the run neither  *)
(* leaves its tree behind nor is the last by whom there is a holder.        *)
LEMMA TreesKept ==
  ASSUME TypeOK, TreesInv, NEW r \in Runs, NEW next,
         pc' = [pc EXCEPT ![r] = next],
         holder' => holder,
         \A q \in Runs : scratch'[q] # NoTree => scratch[q] # NoTree,
         pc[r] \in Staged => next \in Staged,
         pc[r] \in Keeping => next \in Staged \cup Keeping \/ ~holder'
  PROVE  TreesInv'
<1>1. \A q \in Runs : pc'[q] = IF q = r THEN next ELSE pc[q]
  BY DEF TypeOK
<1>2. \A q \in Runs : scratch'[q] # NoTree => pc'[q] \in Staged
  BY <1>1 DEF TreesInv
<1>3. ASSUME holder' PROVE \E q \in Runs : pc'[q] \in Staged \cup Keeping
  <2>1. PICK q \in Runs : pc[q] \in Staged \cup Keeping
    BY <1>3 DEF TreesInv
  <2>2. pc'[q] \in Staged \cup Keeping
    BY <1>1, <1>3, <2>1
  <2> QED BY <2>2
<1> QED BY <1>2, <1>3 DEF TreesInv

(* Every step keeps it.                                                     *)
LEMMA TreesNext == TypeOK /\ TreesInv /\ [Next]_vars => TreesInv'
<1> SUFFICES ASSUME TypeOK, TreesInv, [Next]_vars PROVE TreesInv'
  OBVIOUS
<1>0. /\ pc \in [Runs -> Pcs]
      /\ scratch \in [Runs -> Tree]
  BY DEF TypeOK, Tree
<1>1. ASSUME NEW r \in Runs, TakeLock(r) PROVE TreesInv'
  BY <1>1, TreesKept DEF TakeLock, Goto, Leave, files, Staged, Keeping
<1>2. ASSUME NEW r \in Runs, Probe(r) PROVE TreesInv'
  BY <1>2, TreesKept DEF Probe, Goto, Leave, files, Staged, Keeping
<1>3. ASSUME NEW r \in Runs, Steal(r) PROVE TreesInv'
  BY <1>3, TreesKept DEF Steal, rmtree, Goto, Staged, Keeping
<1>4. ASSUME NEW r \in Runs, Sign(r) PROVE TreesInv'
  BY <1>4, TreesKept DEF Sign, Goto, Leave, files, Staged, Keeping
<1>5. ASSUME NEW r \in Runs, Abandon(r) PROVE TreesInv'
  BY <1>5, TreesKept DEF Abandon, rmtree, Goto, Staged, Keeping
<1>6. ASSUME NEW r \in Runs, Check(r) PROVE TreesInv'
  BY <1>6, TreesKept DEF Check, Goto, Leave, files, Staged, Keeping
<1>7. ASSUME NEW r \in Runs, MakeHolder(r) PROVE TreesInv'
  <2>1. CASE holder' = TRUE /\ Goto(r, "sweeping")
    BY <1>0, <1>7, <2>1 DEF MakeHolder, Goto, TreesInv, Staged, Keeping
  <2>2. CASE Leave(r, "unlocking", "error") /\ UNCHANGED holder
    BY <1>7, <2>2, TreesKept DEF MakeHolder, Leave, Staged, Keeping
  <2> QED BY <1>7, <2>1, <2>2 DEF MakeHolder
<1>8. ASSUME NEW r \in Runs, Sweep(r) PROVE TreesInv'
  <2>1. \A q \in Runs : scratch'[q] # NoTree => scratch[q] # NoTree
    BY <1>0, <1>8, Remains DEF Sweep
  <2> QED BY <1>8, <2>1, TreesKept DEF Sweep, Goto, Staged, Keeping
<1>9. ASSUME NEW r \in Runs, MakeScratch(r) PROVE TreesInv'
  BY <1>0, <1>9 DEF MakeScratch, Goto, TreesInv, Staged, Keeping
<1>10. ASSUME NEW r \in Runs, MakeTemp(r) PROVE TreesInv'
  BY <1>0, <1>10 DEF MakeTemp, Goto, TreesInv, Staged, Keeping
<1>11. ASSUME NEW r \in Runs, Scrap(r) PROVE TreesInv'
  <2>1. \A q \in Runs : scratch'[q] # NoTree => scratch[q] # NoTree
    BY <1>0, <1>11, Remains DEF Scrap
  <2> QED BY <1>11, <2>1, TreesKept DEF Scrap, Leave, Staged, Keeping
<1>12. ASSUME NEW r \in Runs, Stage(r) PROVE TreesInv'
  BY <1>0, <1>12 DEF Stage, Goto, TreesInv, Staged, Keeping
<1>13. ASSUME NEW r \in Runs, _gate(r) PROVE TreesInv'
  BY <1>13, TreesKept DEF _gate, Goto, Leave, files, Staged, Keeping
<1>14. ASSUME NEW r \in Runs, SetAside(r) PROVE TreesInv'
  BY <1>0, <1>14 DEF SetAside, Goto, Leave, TreesInv, Staged, Keeping
<1>15. ASSUME NEW r \in Runs, Replace(r) PROVE TreesInv'
  BY <1>0, <1>15 DEF Replace, Goto, Leave, TreesInv, Staged, Keeping
<1>16. ASSUME NEW r \in Runs, Restore(r) PROVE TreesInv'
  BY <1>0, <1>16 DEF Restore, Goto, Leave, TreesInv, Staged, Keeping
<1>17. ASSUME NEW r \in Runs, Record(r) PROVE TreesInv'
  BY <1>17, TreesKept DEF Record, Goto, Leave, files, Staged, Keeping
<1>18. ASSUME NEW r \in Runs, Drop(r) PROVE TreesInv'
  <2>1. /\ pc' = [pc EXCEPT ![r] = "unlocking"]
        /\ scratch' = [scratch EXCEPT ![r] = NoTree]
        /\ holder' => \E q \in Runs \ {r} : scratch[q].made
    BY <1>18 DEF Drop, Goto
  <2>2. \A q \in Runs \ {r} : scratch[q].made => pc'[q] \in Staged
    BY <1>0, <2>1 DEF TreesInv, NoTree
  <2>3. \A q \in Runs : scratch'[q] # NoTree => pc'[q] \in Staged
    BY <1>0, <2>1 DEF TreesInv
  <2> QED BY <2>1, <2>2, <2>3 DEF TreesInv
<1>19. ASSUME NEW r \in Runs, Unlock(r) PROVE TreesInv'
  BY <1>19, TreesKept DEF Unlock, rmtree, Goto, Staged, Keeping
<1>20. ASSUME NEW r \in Runs, Crash(r) PROVE TreesInv'
  BY <1>20, TreesKept DEF Crash, files, Staged, Keeping
<1>21. CASE UNCHANGED vars
  BY <1>21 DEF TreesInv, vars, files
<1> QED
  BY <1>1, <1>2, <1>3, <1>4, <1>5, <1>6, <1>7, <1>8, <1>9, <1>10, <1>11,
     <1>12, <1>13, <1>14, <1>15, <1>16, <1>17, <1>18, <1>19, <1>20, <1>21 DEF Next, Step

(* When no run was killed the last one leaves no lock, no scratch tree and  *)
(* no holder, for any packages, runs and failures (promote.py:1001).        *)
THEOREM NothingIsLeft == Spec => []NoTraceLeft
<1>1. Init => LocksInv /\ TreesInv
  BY DEF Init, LocksInv, TreesInv
<1>2. TypeOK /\ LocksInv /\ TreesInv => NoTraceLeft
  <2> SUFFICES ASSUME TypeOK, LocksInv, TreesInv, \A r \in Runs : pc[r] = "ended"
               PROVE  /\ \A p \in Packages : lock[p] = NoLock
                      /\ \A r \in Runs : scratch[r] = NoTree
                      /\ ~holder
    BY DEF NoTraceLeft
  <2>1. \A p \in Packages : lock[p] = NoLock
    BY DEF TypeOK, LocksInv, Holding, _alive, AmidLock
  <2>2. (\A r \in Runs : scratch[r] = NoTree) /\ ~holder
    BY DEF TreesInv, Staged, Keeping
  <2> QED BY <2>1, <2>2
<1> QED BY <1>1, <1>2, LocksNext, TreesNext, TypeCorrect, PTL DEF Spec

(* --------------------------- one installer ------------------------------ *)
SamePackage(r, q) == PackageOf[r] = PackageOf[q]

(* Who is past a lock has its name in it, and who is making or removing one *)
(* has emptied it and is alone in that.                                     *)
Touching == {"signing", "abandoning", "abandoned", "unlocked"}

OwnerInv ==
  /\ \A r \in Runs : /\ Holding(r) => lock[PackageOf[r]] = r
                     /\ pc[r] \in Touching => lock[PackageOf[r]] = Unsigned
  /\ \A r, q \in Runs : SamePackage(r, q) /\ r # q =>
       ~(pc[r] \in Touching /\ pc[q] \in Touching)

(* A steal changes no lock that a live run holds, makes or removes.         *)
Unheld(r) == \A q \in Runs : SamePackage(r, q) => ~Holding(q) /\ pc[q] \notin Touching
CleanSteals == \A r \in Runs : Steal(r) => lock' = lock \/ Unheld(r)

(* A step that touches no lock keeps the owners, when a run that holds none *)
(* does not go past one and one that does not touch it does not begin to.   *)
LEMMA OwnersKept ==
  ASSUME TypeOK, OwnerInv, NEW r \in Runs, NEW next,
         lock' = lock, pc' = [pc EXCEPT ![r] = next],
         next \in Touching => pc[r] \in Touching,
         pc[r] \in Away => next \in Away
  PROVE  OwnerInv'
<1>1. \A q \in Runs : pc'[q] = IF q = r THEN next ELSE pc[q]
  BY DEF TypeOK
<1>2. ASSUME NEW q \in Runs
      PROVE  /\ Holding(q)' => lock'[PackageOf[q]] = q
             /\ pc'[q] \in Touching => lock'[PackageOf[q]] = Unsigned
  BY <1>1 DEF OwnerInv, Holding, Away
<1>3. ASSUME NEW q \in Runs, NEW s \in Runs, SamePackage(q, s), q # s
      PROVE  ~(pc'[q] \in Touching /\ pc'[s] \in Touching)
  BY <1>1, <1>3 DEF OwnerInv
<1> QED BY <1>2, <1>3 DEF OwnerInv, SamePackage

(* A step that writes a lock keeps them, when nobody else of the package is *)
(* past it or touches it.                                                   *)
LEMMA OwnersAlone ==
  ASSUME TypeOK, OwnerInv, NEW r \in Runs, NEW next, NEW mark,
         lock' = [lock EXCEPT ![PackageOf[r]] = mark],
         pc' = [pc EXCEPT ![r] = next],
         \A q \in Runs : SamePackage(r, q) /\ r # q => ~Holding(q) /\ pc[q] \notin Touching,
         next \in Touching => mark = Unsigned,
         next \notin Away => mark = r
  PROVE  OwnerInv'
<1>1. /\ \A q \in Runs : pc'[q] = IF q = r THEN next ELSE pc[q]
      /\ \A p \in Packages : lock'[p] = IF p = PackageOf[r] THEN mark ELSE lock[p]
      /\ \A q \in Runs : PackageOf[q] \in Packages
  BY DEF TypeOK
<1>2. ASSUME NEW q \in Runs
      PROVE  /\ Holding(q)' => lock'[PackageOf[q]] = q
             /\ pc'[q] \in Touching => lock'[PackageOf[q]] = Unsigned
  <2>1. CASE q = r
    BY <1>1, <2>1 DEF Holding, Away
  <2>2. CASE q # r
    BY <1>1, <2>2 DEF OwnerInv, Holding, SamePackage
  <2> QED BY <2>1, <2>2
<1>3. ASSUME NEW q \in Runs, NEW s \in Runs, SamePackage(q, s), q # s
      PROVE  ~(pc'[q] \in Touching /\ pc'[s] \in Touching)
  BY <1>1, <1>3 DEF OwnerInv, SamePackage
<1> QED BY <1>2, <1>3 DEF OwnerInv, SamePackage

(* Every step keeps them, but a steal that is not clean.                    *)
LEMMA OwnersNext ==
  TypeOK /\ OwnerInv /\ [Next]_vars /\ [CleanSteals]_vars => OwnerInv'
<1> SUFFICES ASSUME TypeOK, OwnerInv, [Next]_vars, [CleanSteals]_vars PROVE OwnerInv'
  OBVIOUS
<1>0. /\ pc \in [Runs -> Pcs] /\ lock \in [Packages -> Runs \cup {NoLock, Unsigned}]
      /\ \A r \in Runs : PackageOf[r] \in Packages
  BY DEF TypeOK
<1>1. ASSUME NEW r \in Runs, TakeLock(r) PROVE OwnerInv'
  <2>1. CASE lock' = lock
    BY <1>0, <1>1, <2>1, OwnersKept DEF TakeLock, Goto, Leave, Touching, Away
  <2>2. CASE /\ lock[PackageOf[r]] = NoLock
             /\ lock' = [lock EXCEPT ![PackageOf[r]] = Unsigned]
             /\ pc' = [pc EXCEPT ![r] = "signing"]
    <3>1. Unheld(r)
      BY <1>0, <2>2 DEF OwnerInv, SamePackage, Unheld
    <3> QED BY <2>2, <3>1, OwnersAlone DEF Unheld, Away, AmidLock
  <2> QED BY <1>1, <2>1, <2>2 DEF TakeLock, Goto
<1>2. ASSUME NEW r \in Runs, Probe(r) PROVE OwnerInv'
  BY <1>2, OwnersKept DEF Probe, Goto, Leave, files, Touching, Away, AmidLock
<1>3. ASSUME NEW r \in Runs, Steal(r) PROVE OwnerInv'
  <2>1. PICK go, mark : /\ Removes(r, "stealing", "stolen", "locking", go, mark)
                        /\ pc' = [pc EXCEPT ![r] = go]
                        /\ lock' = [lock EXCEPT ![PackageOf[r]] = mark]
    BY <1>3, Removal DEF Steal
  <2>2. CASE lock' = lock
    BY <2>1, <2>2, OwnersKept DEF Removes, Touching, Away, AmidLock
  <2>3. CASE Unheld(r)
    BY <2>1, <2>3, OwnersAlone DEF Removes, Unheld, Touching, Away, AmidLock
  <2> QED BY <1>3, <2>2, <2>3 DEF CleanSteals, vars, files
<1>4. ASSUME NEW r \in Runs, Sign(r) PROVE OwnerInv'
  <2>1. CASE lock' = lock
    BY <1>0, <1>4, <2>1, OwnersKept DEF Sign, Goto, Leave, Touching, Away, AmidLock, OwnerInv
  <2>2. CASE lock' = [lock EXCEPT ![PackageOf[r]] = r] /\ Goto(r, "checking")
    <3>1. \A q \in Runs : SamePackage(r, q) /\ r # q => ~Holding(q) /\ pc[q] \notin Touching
      BY <1>0, <1>4 DEF Sign, OwnerInv, SamePackage, Touching
    <3> QED BY <2>2, <3>1, OwnersAlone DEF Goto, Touching, Away
  <2> QED BY <1>4, <2>1, <2>2 DEF Sign
<1>5. ASSUME NEW r \in Runs, Abandon(r) PROVE OwnerInv'
  <2>1. PICK go, mark : /\ Removes(r, "abandoning", "abandoned", "ended", go, mark)
                        /\ pc' = [pc EXCEPT ![r] = go]
                        /\ lock' = [lock EXCEPT ![PackageOf[r]] = mark]
    BY <1>5, Removal DEF Abandon
  <2>2. \A q \in Runs : SamePackage(r, q) /\ r # q => ~Holding(q) /\ pc[q] \notin Touching
    BY <1>0, <2>1 DEF Removes, OwnerInv, SamePackage, Touching, Holding, AmidLock
  <2> QED BY <2>1, <2>2, OwnersAlone DEF Removes, Touching, Away, AmidLock
<1>6. ASSUME NEW r \in Runs, Check(r) PROVE OwnerInv'
  BY <1>6, OwnersKept DEF Check, Goto, Leave, files, Touching, Away, AmidLock
<1>7. ASSUME NEW r \in Runs, MakeHolder(r) PROVE OwnerInv'
  BY <1>7, OwnersKept DEF MakeHolder, Goto, Leave, files, Touching, Away, AmidLock
<1>8. ASSUME NEW r \in Runs, Sweep(r) PROVE OwnerInv'
  BY <1>8, OwnersKept DEF Sweep, Goto, Leave, files, Touching, Away, AmidLock
<1>9. ASSUME NEW r \in Runs, MakeScratch(r) PROVE OwnerInv'
  BY <1>9, OwnersKept DEF MakeScratch, Goto, Leave, files, Touching, Away, AmidLock
<1>10. ASSUME NEW r \in Runs, MakeTemp(r) PROVE OwnerInv'
  BY <1>10, OwnersKept DEF MakeTemp, Goto, Leave, files, Touching, Away, AmidLock
<1>11. ASSUME NEW r \in Runs, Scrap(r) PROVE OwnerInv'
  BY <1>11, OwnersKept DEF Scrap, Goto, Leave, files, Touching, Away, AmidLock
<1>12. ASSUME NEW r \in Runs, Stage(r) PROVE OwnerInv'
  BY <1>12, OwnersKept DEF Stage, Goto, Leave, files, Touching, Away, AmidLock
<1>13. ASSUME NEW r \in Runs, _gate(r) PROVE OwnerInv'
  BY <1>13, OwnersKept DEF _gate, Goto, Leave, files, Touching, Away, AmidLock
<1>14. ASSUME NEW r \in Runs, SetAside(r) PROVE OwnerInv'
  BY <1>14, OwnersKept DEF SetAside, Goto, Leave, files, Touching, Away, AmidLock
<1>15. ASSUME NEW r \in Runs, Replace(r) PROVE OwnerInv'
  BY <1>15, OwnersKept DEF Replace, Goto, Leave, files, Touching, Away, AmidLock
<1>16. ASSUME NEW r \in Runs, Restore(r) PROVE OwnerInv'
  BY <1>16, OwnersKept DEF Restore, Goto, Leave, files, Touching, Away, AmidLock
<1>17. ASSUME NEW r \in Runs, Record(r) PROVE OwnerInv'
  BY <1>17, OwnersKept DEF Record, Goto, Leave, files, Touching, Away, AmidLock
<1>18. ASSUME NEW r \in Runs, Drop(r) PROVE OwnerInv'
  BY <1>18, OwnersKept DEF Drop, Goto, Leave, files, Touching, Away, AmidLock
<1>19. ASSUME NEW r \in Runs, Unlock(r) PROVE OwnerInv'
  <2>1. PICK go, mark : /\ Removes(r, "unlocking", "unlocked", "ended", go, mark)
                        /\ pc' = [pc EXCEPT ![r] = go]
                        /\ lock' = [lock EXCEPT ![PackageOf[r]] = mark]
    BY <1>19, Removal DEF Unlock
  <2>2. \A q \in Runs : SamePackage(r, q) /\ r # q => ~Holding(q) /\ pc[q] \notin Touching
    BY <1>0, <2>1 DEF Removes, OwnerInv, SamePackage, Touching, Holding, AmidLock
  <2> QED BY <2>1, <2>2, OwnersAlone DEF Removes, Touching, Away, AmidLock
<1>20. ASSUME NEW r \in Runs, Crash(r) PROVE OwnerInv'
  BY <1>20, OwnersKept DEF Crash, files, Touching, Away, AmidLock
<1>21. CASE UNCHANGED vars
  BY <1>21 DEF OwnerInv, Holding, SamePackage, vars, files
<1> QED
  BY <1>1, <1>2, <1>3, <1>4, <1>5, <1>6, <1>7, <1>8, <1>9, <1>10, <1>11,
     <1>12, <1>13, <1>14, <1>15, <1>16, <1>17, <1>18, <1>19, <1>20, <1>21 DEF Next, Step

(* Nothing but a steal of a lock somebody has taken since it was probed     *)
(* lets two promotions of a package past its lock together, for any         *)
(* packages, runs, kills and failures (promote.py:1049, 1309).              *)
THEOREM OnlyStealsOverlap ==
  Spec /\ [][CleanSteals]_vars => []OneInstaller
<1>1. Init => OwnerInv
  BY DEF Init, OwnerInv, Holding, Touching
<1>2. OwnerInv => OneInstaller
  BY DEF OwnerInv, OneInstaller
<1> QED BY <1>1, <1>2, OwnersNext, TypeCorrect, PTL DEF Spec

(* When no such steal can happen: no run is killed while a lock names it,   *)
(* or no package has a third run that could take the lock of a dead one     *)
(* between a probe and its removal.                                         *)
KillsBeforeSigning == CrashPoints \subseteq {"locking", "probing", "stealing"} \cup AmidLock

SafeSteals ==
  \/ KillsBeforeSigning
  \/ \A r, q, s \in Runs :
       SamePackage(r, q) /\ SamePackage(q, s) => r = q \/ q = s \/ r = s

(* Who steals a lock has nobody left who could mind; if no run is killed    *)
(* while a lock names it, no lock names a dead one.                         *)
StealInv ==
  /\ \A r \in Runs : pc[r] \in {"stealing", "stolen"} =>
       \A q \in Runs : SamePackage(r, q) /\ r # q => pc[q] = "crashed"
  /\ KillsBeforeSigning => \A p \in Packages : lock[p] \in Runs => Holding(lock[p])

(* A step keeps this when it begins no steal, and the lock its run is past  *)
(* is signed by it, removed or still its own.                               *)
LEMMA StealsKept ==
  ASSUME TypeOK, LocksInv, StealInv, NEW r \in Runs, NEW next, NEW mark,
         lock' = [lock EXCEPT ![PackageOf[r]] = mark],
         pc' = [pc EXCEPT ![r] = next], pc[r] # "crashed",
         next # "stealing", next = "stolen" => pc[r] = "stealing",
         \/ mark \in {NoLock, Unsigned}
         \/ mark = r /\ next = "checking"
         \/ mark = lock[PackageOf[r]] /\ pc[r] \in Away
         \/ mark = lock[PackageOf[r]] /\ next \notin Away
         \/ mark = lock[PackageOf[r]] /\ pc[r] \in CrashPoints
  PROVE  StealInv'
<1>1. /\ \A q \in Runs : pc'[q] = IF q = r THEN next ELSE pc[q]
      /\ \A p \in Packages : lock'[p] = IF p = PackageOf[r] THEN mark ELSE lock[p]
  BY DEF TypeOK
<1>2. ASSUME NEW q \in Runs, pc'[q] \in {"stealing", "stolen"}
      PROVE  \A s \in Runs : SamePackage(q, s) /\ q # s => pc'[s] = "crashed"
  BY <1>1, <1>2 DEF StealInv
<1>3. ASSUME KillsBeforeSigning, NEW p \in Packages, lock'[p] \in Runs
      PROVE  pc'[lock'[p]] \notin Away
  <2>1. CASE lock'[p] = r /\ p = PackageOf[r] /\ next = "checking"
    BY <1>1, <2>1 DEF Away, AmidLock
  <2>2. CASE lock'[p] = lock[p]
    <3>1. lock[p] \in Runs /\ pc[lock[p]] \notin Away /\ PackageOf[lock[p]] = p
      BY <1>3, <2>2 DEF StealInv, LocksInv, Holding, Away
    <3>2. CASE lock[p] # r
      BY <1>1, <2>2, <3>1, <3>2
    <3>3. CASE lock[p] = r
      BY <1>1, <1>3, <2>1, <2>2, <3>1, <3>3 DEF KillsBeforeSigning, Away
    <3> QED BY <3>2, <3>3
  <2> QED BY <1>1, <1>3, <2>1, <2>2
<1> QED BY <1>2, <1>3 DEF StealInv, SamePackage, Holding, Away

(* Every step keeps it.                                                     *)
LEMMA StealsNext ==
  ASSUME SafeSteals
  PROVE  TypeOK /\ LocksInv /\ StealInv /\ [Next]_vars => StealInv'
<1> SUFFICES ASSUME TypeOK, LocksInv, StealInv, [Next]_vars PROVE StealInv'
  OBVIOUS
<1>0. /\ pc \in [Runs -> Pcs] /\ lock \in [Packages -> Runs \cup {NoLock, Unsigned}]
      /\ \A r \in Runs : lock = [lock EXCEPT ![PackageOf[r]] = lock[PackageOf[r]]]
  BY DEF TypeOK
<1>1. ASSUME NEW r \in Runs, TakeLock(r) PROVE StealInv'
  BY <1>0, <1>1, StealsKept DEF TakeLock, Goto, Leave, Away
<1>2. ASSUME NEW r \in Runs, Probe(r) PROVE StealInv'
  <2>1. CASE Goto(r, "locking") \/ Leave(r, "ended", "locked")
    BY <1>0, <1>2, <2>1, StealsKept DEF Probe, Goto, Leave, files, Away
  <2>2. CASE ~_lock_is_live(PackageOf[r]) /\ Goto(r, "stealing")
    <3>1. PICK q \in Runs : /\ lock[PackageOf[r]] = q
                            /\ pc[q] = "crashed"
                            /\ SamePackage(r, q)
      BY <2>2 DEF _lock_is_live, _alive, LocksInv, SamePackage
    <3>2. ~KillsBeforeSigning
      BY <3>1 DEF StealInv, Holding
    <3>3. \A s \in Runs : SamePackage(r, s) /\ r # s => s = q
      BY <1>2, <3>1, <3>2 DEF SafeSteals, SamePackage, Probe
    <3>4. \A s \in Runs : pc'[s] = IF s = r THEN "stealing" ELSE pc[s]
      BY <1>0, <2>2 DEF Goto
    <3>5. ASSUME NEW s \in Runs, pc'[s] \in {"stealing", "stolen"}
          PROVE  \A u \in Runs : SamePackage(s, u) /\ s # u => pc'[u] = "crashed"
      <4>1. CASE s = r
        BY <3>1, <3>3, <3>4, <4>1
      <4>2. CASE s # r
        BY <1>2, <3>4, <3>5, <4>2 DEF Probe, StealInv
      <4> QED BY <4>1, <4>2
    <3> QED BY <3>2, <3>5 DEF StealInv, SamePackage, KillsBeforeSigning
  <2> QED BY <1>2, <2>1, <2>2 DEF Probe
<1>3. ASSUME NEW r \in Runs, Steal(r) PROVE StealInv'
  <2>1. PICK go, mark : /\ Removes(r, "stealing", "stolen", "locking", go, mark)
                        /\ pc' = [pc EXCEPT ![r] = go]
                        /\ lock' = [lock EXCEPT ![PackageOf[r]] = mark]
    BY <1>3, Removal DEF Steal
  <2> QED BY <2>1, StealsKept DEF Removes, Away, AmidLock
<1>4. ASSUME NEW r \in Runs, Sign(r) PROVE StealInv'
  BY <1>0, <1>4, StealsKept DEF Sign, Goto, Leave, Away, AmidLock
<1>5. ASSUME NEW r \in Runs, Abandon(r) PROVE StealInv'
  <2>1. PICK go, mark : /\ Removes(r, "abandoning", "abandoned", "ended", go, mark)
                        /\ pc' = [pc EXCEPT ![r] = go]
                        /\ lock' = [lock EXCEPT ![PackageOf[r]] = mark]
    BY <1>5, Removal DEF Abandon
  <2> QED BY <2>1, StealsKept DEF Removes, Away, AmidLock
<1>6. ASSUME NEW r \in Runs, Check(r) PROVE StealInv'
  BY <1>0, <1>6, StealsKept DEF Check, Goto, Leave, files, Away, AmidLock
<1>7. ASSUME NEW r \in Runs, MakeHolder(r) PROVE StealInv'
  BY <1>0, <1>7, StealsKept DEF MakeHolder, Goto, Leave, files, Away, AmidLock
<1>8. ASSUME NEW r \in Runs, Sweep(r) PROVE StealInv'
  BY <1>0, <1>8, StealsKept DEF Sweep, Goto, Leave, files, Away, AmidLock
<1>9. ASSUME NEW r \in Runs, MakeScratch(r) PROVE StealInv'
  BY <1>0, <1>9, StealsKept DEF MakeScratch, Goto, Leave, files, Away, AmidLock
<1>10. ASSUME NEW r \in Runs, MakeTemp(r) PROVE StealInv'
  BY <1>0, <1>10, StealsKept DEF MakeTemp, Goto, Leave, files, Away, AmidLock
<1>11. ASSUME NEW r \in Runs, Scrap(r) PROVE StealInv'
  BY <1>0, <1>11, StealsKept DEF Scrap, Goto, Leave, files, Away, AmidLock
<1>12. ASSUME NEW r \in Runs, Stage(r) PROVE StealInv'
  BY <1>0, <1>12, StealsKept DEF Stage, Goto, Leave, files, Away, AmidLock
<1>13. ASSUME NEW r \in Runs, _gate(r) PROVE StealInv'
  BY <1>0, <1>13, StealsKept DEF _gate, Goto, Leave, files, Away, AmidLock
<1>14. ASSUME NEW r \in Runs, SetAside(r) PROVE StealInv'
  BY <1>0, <1>14, StealsKept DEF SetAside, Goto, Leave, files, Away, AmidLock
<1>15. ASSUME NEW r \in Runs, Replace(r) PROVE StealInv'
  BY <1>0, <1>15, StealsKept DEF Replace, Goto, Leave, files, Away, AmidLock
<1>16. ASSUME NEW r \in Runs, Restore(r) PROVE StealInv'
  BY <1>0, <1>16, StealsKept DEF Restore, Goto, Leave, files, Away, AmidLock
<1>17. ASSUME NEW r \in Runs, Record(r) PROVE StealInv'
  BY <1>0, <1>17, StealsKept DEF Record, Goto, Leave, files, Away, AmidLock
<1>18. ASSUME NEW r \in Runs, Drop(r) PROVE StealInv'
  BY <1>0, <1>18, StealsKept DEF Drop, Goto, Leave, files, Away, AmidLock
<1>19. ASSUME NEW r \in Runs, Unlock(r) PROVE StealInv'
  <2>1. PICK go, mark : /\ Removes(r, "unlocking", "unlocked", "ended", go, mark)
                        /\ pc' = [pc EXCEPT ![r] = go]
                        /\ lock' = [lock EXCEPT ![PackageOf[r]] = mark]
    BY <1>19, Removal DEF Unlock
  <2> QED BY <2>1, StealsKept DEF Removes, Away, AmidLock
<1>20. ASSUME NEW r \in Runs, Crash(r) PROVE StealInv'
  <2>1. CASE pc[r] # "crashed"
    BY <1>0, <1>20, <2>1, StealsKept DEF Crash, files
  <2>2. CASE pc[r] = "crashed"
    BY <1>0, <1>20, <2>2 DEF Crash, StealInv, Holding, files
  <2> QED BY <2>1, <2>2
<1>21. CASE UNCHANGED vars
  BY <1>21 DEF StealInv, Holding, SamePackage, vars, files
<1> QED
  BY <1>1, <1>2, <1>3, <1>4, <1>5, <1>6, <1>7, <1>8, <1>9, <1>10, <1>11,
     <1>12, <1>13, <1>14, <1>15, <1>16, <1>17, <1>18, <1>19, <1>20, <1>21 DEF Next, Step

(* Then every steal is clean.                                               *)
LEMMA StealsAreClean ==
  ASSUME SafeSteals
  PROVE  Spec => [][CleanSteals]_vars
<1>1. Init => LocksInv /\ StealInv
  BY DEF Init, LocksInv, StealInv
<1>2. StealInv => CleanSteals
  BY DEF StealInv, CleanSteals, Unheld, Steal, rmtree, Holding, Touching, AmidLock
<1> QED BY <1>1, <1>2, LocksNext, StealsNext, TypeCorrect, PTL DEF Spec

(* Two promotions of one package are never past its lock together, for any  *)
(* packages, runs and failures, if no run is killed while a lock names it   *)
(* or no package has a third run (promote.py:1309).                         *)
THEOREM OneInstallerPerPackage ==
  ASSUME SafeSteals
  PROVE  Spec => []OneInstaller
  BY OnlyStealsOverlap, StealsAreClean, PTL

(* -------------------------- no tree is lost ----------------------------- *)
(* What it takes for a tree to survive, beside clean steals and trees of    *)
(* live runs that are left alone: no run is killed between the two renames  *)
(* of an install, and no more than two steps fail, as many as               *)
(* _restore_superseded has ways out of.                                     *)
CarefulPromotions == CrashPoints \cap {"replacing", "restoring"} = {} /\ MaxFaults <= 2

(* A second rename finds its staged tree and a free place, and fails only   *)
(* for a failure that is counted.                                           *)
InstallInv ==
  \A r \in Runs :
    /\ pc[r] \in {"installing", "replacing"} => scratch[r].install
    /\ pc[r] \in {"replacing", "restoring"} => dest[PackageOf[r]] = "absent"
    /\ pc[r] = "restoring" => faults > 0

(* A step keeps this if it keeps the part of the run that takes it, leaves  *)
(* the trees of others that are alive, and of the installed packages those  *)
(* whose lock the run does not hold.                                        *)
LEMMA InstallKept ==
  ASSUME TypeOK, OwnerInv, InstallInv, NEW r \in Runs, NEW next,
         pc' = [pc EXCEPT ![r] = next],
         TouchesOwnTree,
         dest' # dest => /\ Holding(r)
                         /\ \A p \in Packages : p # PackageOf[r] => dest'[p] = dest[p],
         faults > 0 => faults' > 0,
         next \in {"installing", "replacing"} => scratch'[r].install,
         next \in {"replacing", "restoring"} => dest'[PackageOf[r]] = "absent",
         next = "restoring" => faults' > 0
  PROVE  InstallInv'
<1>1. /\ \A q \in Runs : pc'[q] = IF q = r THEN next ELSE pc[q]
      /\ \A q \in Runs : PackageOf[q] \in Packages
  BY DEF TypeOK
<1>2. ASSUME NEW q \in Runs, q # r
      PROVE  /\ pc'[q] \in {"installing", "replacing"} => scratch'[q].install
             /\ pc'[q] \in {"replacing", "restoring"} => dest'[PackageOf[q]] = "absent"
             /\ pc'[q] = "restoring" => faults' > 0
  <2>1. Holding(q) /\ Holding(r) => PackageOf[q] # PackageOf[r]
    BY <1>2 DEF OwnerInv
  <2>2. pc[q] \in {"replacing", "restoring"} => dest'[PackageOf[q]] = dest[PackageOf[q]]
    BY <1>1, <2>1 DEF Holding, AmidLock
  <2>3. pc[q] # "crashed" => scratch'[q] = scratch[q]
    BY <1>1, <1>2 DEF TouchesOwnTree, _alive
  <2> QED BY <1>1, <1>2, <2>2, <2>3 DEF InstallInv
<1> QED BY <1>1, <1>2 DEF InstallInv

(* Every step keeps it, when it leaves the trees of live runs alone.        *)
LEMMA InstallNext ==
  TypeOK /\ OwnerInv /\ InstallInv /\ [Next]_vars /\ [TouchesOwnTree]_vars => InstallInv'
<1> SUFFICES ASSUME TypeOK, OwnerInv, InstallInv, Next, TouchesOwnTree
             PROVE  InstallInv'
  BY DEF InstallInv, vars, files
<1>0. /\ pc \in [Runs -> Pcs]
      /\ scratch \in [Runs -> Tree]
      /\ dest \in [Packages -> Trees]
      /\ faults \in Nat
  BY DEF TypeOK, Tree
<1>1. ASSUME NEW r \in Runs, TakeLock(r) PROVE InstallInv'
  BY <1>0, <1>1, InstallKept DEF TakeLock, Goto, Leave, Fault
<1>2. ASSUME NEW r \in Runs, Probe(r) PROVE InstallInv'
  BY <1>0, <1>2, InstallKept DEF Probe, Goto, Leave, files
<1>3. ASSUME NEW r \in Runs, Steal(r) PROVE InstallInv'
  BY <1>0, <1>3, InstallKept DEF Steal, rmtree, Goto
<1>4. ASSUME NEW r \in Runs, Sign(r) PROVE InstallInv'
  BY <1>0, <1>4, InstallKept DEF Sign, Goto, Leave, Fault
<1>5. ASSUME NEW r \in Runs, Abandon(r) PROVE InstallInv'
  BY <1>0, <1>5, InstallKept DEF Abandon, rmtree, Goto
<1>6. ASSUME NEW r \in Runs, Check(r) PROVE InstallInv'
  BY <1>0, <1>6, InstallKept DEF Check, Goto, Leave, files
<1>7. ASSUME NEW r \in Runs, MakeHolder(r) PROVE InstallInv'
  BY <1>0, <1>7, InstallKept DEF MakeHolder, Goto, Leave
<1>8. ASSUME NEW r \in Runs, Sweep(r) PROVE InstallInv'
  BY <1>0, <1>8, InstallKept DEF Sweep, Goto
<1>9. ASSUME NEW r \in Runs, MakeScratch(r) PROVE InstallInv'
  BY <1>0, <1>9, InstallKept DEF MakeScratch, Goto, Fault
<1>10. ASSUME NEW r \in Runs, MakeTemp(r) PROVE InstallInv'
  BY <1>0, <1>10, InstallKept DEF MakeTemp, Goto, Fault
<1>11. ASSUME NEW r \in Runs, Scrap(r) PROVE InstallInv'
  BY <1>0, <1>11, InstallKept DEF Scrap, Leave
<1>12. ASSUME NEW r \in Runs, Stage(r) PROVE InstallInv'
  BY <1>0, <1>12, InstallKept DEF Stage, Goto, Tree
<1>13. ASSUME NEW r \in Runs, _gate(r) PROVE InstallInv'
  BY <1>0, <1>13, InstallKept DEF _gate, Goto, Leave, files
<1>14. ASSUME NEW r \in Runs, SetAside(r) PROVE InstallInv'
  <2>1. Holding(r) /\ scratch[r].install
    BY <1>14 DEF SetAside, Holding, InstallInv, AmidLock
  <2>2. /\ \A p \in Packages : p # PackageOf[r] => dest'[p] = dest[p]
        /\ faults > 0 => faults' > 0
    BY <1>0, <1>14 DEF SetAside, Fault
  <2>3. CASE Goto(r, "replacing")
    <3>1. dest'[PackageOf[r]] = "absent"
      BY <1>0, <1>14, <2>3 DEF SetAside, Goto, Leave
    <3>2. scratch'[r].install
      BY <1>0, <1>14, <2>1 DEF SetAside, Tree
    <3> QED BY <2>1, <2>2, <2>3, <3>1, <3>2, InstallKept DEF Goto
  <2>4. CASE Leave(r, "dropping", "error")
    BY <2>1, <2>2, <2>4, InstallKept DEF Leave
  <2> QED BY <1>14, <2>3, <2>4 DEF SetAside
<1>15. ASSUME NEW r \in Runs, Replace(r) PROVE InstallInv'
  <2>1. /\ scratch[r].install /\ dest[PackageOf[r]] = "absent"
        /\ Holding(r)
    BY <1>15 DEF Replace, InstallInv, Holding, AmidLock
  <2>2. /\ \A p \in Packages : p # PackageOf[r] => dest'[p] = dest[p]
        /\ faults > 0 => faults' > 0
    BY <1>0, <1>15 DEF Replace, Fault
  <2>3. CASE Leave(r, "recording", "promoted")
    BY <2>1, <2>2, <2>3, InstallKept DEF Leave
  <2>4. CASE Fault /\ Leave(r, "restoring", "error") /\ UNCHANGED <<dest, scratch>>
    <3>1. faults' > 0 /\ dest'[PackageOf[r]] = "absent"
      BY <1>0, <2>1, <2>4 DEF Fault
    <3> QED BY <2>1, <2>2, <2>4, <3>1, InstallKept DEF Leave
  <2> QED BY <1>15, <2>1, <2>3, <2>4 DEF Replace
<1>16. ASSUME NEW r \in Runs, Restore(r) PROVE InstallInv'
  <2>1. /\ \A p \in Packages : p # PackageOf[r] => dest'[p] = dest[p]
        /\ faults > 0 => faults' > 0
    BY <1>0, <1>16 DEF Restore, Fault
  <2> QED BY <1>16, <2>1, InstallKept DEF Restore, Goto, Holding, AmidLock
<1>17. ASSUME NEW r \in Runs, Record(r) PROVE InstallInv'
  BY <1>0, <1>17, InstallKept DEF Record, Goto, files
<1>18. ASSUME NEW r \in Runs, Drop(r) PROVE InstallInv'
  BY <1>0, <1>18, InstallKept DEF Drop, Goto
<1>19. ASSUME NEW r \in Runs, Unlock(r) PROVE InstallInv'
  BY <1>0, <1>19, InstallKept DEF Unlock, rmtree, Goto
<1>20. ASSUME NEW r \in Runs, Crash(r) PROVE InstallInv'
  BY <1>0, <1>20, InstallKept DEF Crash, files
<1> QED
  BY <1>1, <1>2, <1>3, <1>4, <1>5, <1>6, <1>7, <1>8, <1>9, <1>10, <1>11,
     <1>12, <1>13, <1>14, <1>15, <1>16, <1>17, <1>18, <1>19, <1>20 DEF Next, Step

(* A step that moves no tree, and no run out of an install, loses none.     *)
LEMMA TreesStay ==
  ASSUME TypeOK, TreeSurvives, NEW r \in Runs, NEW next,
         dest' = dest, lost' = lost, pc' = [pc EXCEPT ![r] = next],
         pc[r] \notin {"replacing", "restoring"},
         TouchesOwnTree
  PROVE  TreeSurvives'
<1>1. \A q \in Runs : pc'[q] = IF q = r THEN next ELSE pc[q]
  BY DEF TypeOK
<1>2. \A q \in Runs : pc[q] \in {"replacing", "restoring"} => scratch'[q] = scratch[q]
  BY <1>1 DEF TouchesOwnTree, _alive
<1> QED BY <1>1, <1>2 DEF TreeSurvives

(* Every step leaves each package its tree.                                 *)
LEMMA SurvivalNext ==
  ASSUME CarefulPromotions
  PROVE  TypeOK /\ InstallInv /\ TreeSurvives /\ [Next]_vars /\ [TouchesOwnTree]_vars => TreeSurvives'
<1> SUFFICES ASSUME TypeOK, InstallInv, TreeSurvives, Next, TouchesOwnTree
             PROVE  TreeSurvives'
  BY DEF TreeSurvives, vars, files
<1>0. /\ pc \in [Runs -> Pcs]
      /\ scratch \in [Runs -> Tree]
      /\ dest \in [Packages -> Trees]
      /\ lost \in [Packages -> Trees]
  BY DEF TypeOK, Tree
<1>1. ASSUME NEW r \in Runs, TakeLock(r) PROVE TreeSurvives'
  BY <1>1, TreesStay DEF TakeLock, Goto, Leave, files
<1>2. ASSUME NEW r \in Runs, Probe(r) PROVE TreeSurvives'
  BY <1>2, TreesStay DEF Probe, Goto, Leave, files
<1>3. ASSUME NEW r \in Runs, Steal(r) PROVE TreeSurvives'
  BY <1>3, TreesStay DEF Steal, rmtree, Goto
<1>4. ASSUME NEW r \in Runs, Sign(r) PROVE TreeSurvives'
  BY <1>4, TreesStay DEF Sign, Goto, Leave, files
<1>5. ASSUME NEW r \in Runs, Abandon(r) PROVE TreeSurvives'
  BY <1>5, TreesStay DEF Abandon, rmtree, Goto
<1>6. ASSUME NEW r \in Runs, Check(r) PROVE TreeSurvives'
  BY <1>6, TreesStay DEF Check, Goto, Leave, files
<1>7. ASSUME NEW r \in Runs, MakeHolder(r) PROVE TreeSurvives'
  BY <1>7, TreesStay DEF MakeHolder, Goto, Leave, files
<1>8. ASSUME NEW r \in Runs, Sweep(r) PROVE TreeSurvives'
  BY <1>8, TreesStay DEF Sweep, Goto
<1>9. ASSUME NEW r \in Runs, MakeScratch(r) PROVE TreeSurvives'
  BY <1>9, <1>0, TreesStay DEF MakeScratch, Goto, Leave, files
<1>10. ASSUME NEW r \in Runs, MakeTemp(r) PROVE TreeSurvives'
  BY <1>10, <1>0, TreesStay DEF MakeTemp, Goto, Leave, files
<1>11. ASSUME NEW r \in Runs, Scrap(r) PROVE TreeSurvives'
  BY <1>11, TreesStay DEF Scrap, Leave
<1>12. ASSUME NEW r \in Runs, Stage(r) PROVE TreeSurvives'
  BY <1>12, <1>0, TreesStay DEF Stage, Goto, Leave, files
<1>13. ASSUME NEW r \in Runs, _gate(r) PROVE TreeSurvives'
  BY <1>13, TreesStay DEF _gate, Goto, Leave, files
<1>14. ASSUME NEW r \in Runs, SetAside(r) PROVE TreeSurvives'
  <2> DEFINE p == PackageOf[r]
  <2>1. CASE /\ dest[p] # "absent"
             /\ scratch' = [scratch EXCEPT ![r].superseded = dest[p]]
             /\ dest' = [dest EXCEPT ![p] = "absent"]
             /\ Goto(r, "replacing")
    <3>1. pc'[r] = "replacing" /\ scratch'[r].superseded # "absent"
      BY <1>0, <2>1 DEF Goto, Tree
    <3>2. \A q \in Packages \ {p} : dest'[q] = dest[q]
      BY <1>0, <2>1
    <3>3. /\ lost' = lost
          /\ \A q \in Runs \ {r} : pc'[q] = pc[q] /\ scratch'[q] = scratch[q]
          /\ pc[r] = "installing"
      BY <1>0, <1>14, <2>1 DEF SetAside, Goto
    <3> QED BY <3>1, <3>2, <3>3 DEF TreeSurvives
  <2>2. CASE UNCHANGED <<dest, scratch>>
    BY <1>14, <2>2, TreesStay DEF SetAside, Goto, Leave
  <2> QED BY <1>14, <2>1, <2>2 DEF SetAside
<1>15. ASSUME NEW r \in Runs, Replace(r) PROVE TreeSurvives'
  <2>1. CASE dest' = [dest EXCEPT ![PackageOf[r]] = "new"]
    <3>1. /\ dest'[PackageOf[r]] # "absent"
          /\ \A q \in Packages \ {PackageOf[r]} : dest'[q] = dest[q]
      BY <1>0, <2>1
    <3>2. /\ lost' = lost
          /\ \A q \in Runs \ {r} : pc'[q] = pc[q] /\ scratch'[q] = scratch[q]
      BY <1>0, <1>15 DEF Replace, Leave
    <3> QED BY <3>1, <3>2 DEF TreeSurvives
  <2>2. CASE Leave(r, "restoring", "error") /\ UNCHANGED <<dest, scratch>>
    <3>1. lost' = lost /\ \A q \in Runs : pc[q] \in {"replacing", "restoring"}
                                            => pc'[q] \in {"replacing", "restoring"}
      BY <1>0, <1>15, <2>2 DEF Replace, Leave
    <3> QED BY <2>2, <3>1 DEF TreeSurvives
  <2> QED BY <1>15, <2>1, <2>2 DEF Replace
<1>16. ASSUME NEW r \in Runs, Restore(r) PROVE TreeSurvives'
  <2> DEFINE p    == PackageOf[r]
             tree == scratch[r].superseded
  <2>1. /\ dest[p] = "absent"
        /\ faults \in Nat /\ faults > 0
        /\ MaxFaults <= 2
    BY <1>16 DEF Restore, InstallInv, TypeOK, CarefulPromotions
  <2>2. /\ \A q \in Runs \ {r} : pc'[q] = pc[q] /\ scratch'[q] = scratch[q]
        /\ \A q \in Packages \ {p} : dest'[q] = dest[q] /\ lost'[q] = lost[q]
    BY <1>0, <1>16 DEF Restore, Goto
  <2>3. CASE tree = "absent" /\ UNCHANGED <<dest, lost, scratch>>
    BY <2>2, <2>3 DEF TreeSurvives
  <2>4. CASE dest' = [dest EXCEPT ![p] = tree] /\ tree # "absent"
    <3>1. dest'[p] # "absent"
      BY <1>0, <2>4
    <3> QED BY <2>2, <3>1 DEF TreeSurvives
  <2>5. CASE lost' = [lost EXCEPT ![p] = tree] /\ tree # "absent"
    <3>1. lost'[p] # "absent"
      BY <1>0, <2>5
    <3> QED BY <2>2, <3>1 DEF TreeSurvives
  <2>6. ~(/\ faults' = faults + (IF dest[p] = "absent" THEN 2 ELSE 1)
          /\ faults' <= MaxFaults)
    BY <2>1
  <2> QED BY <1>16, <2>3, <2>4, <2>5, <2>6 DEF Restore
<1>17. ASSUME NEW r \in Runs, Record(r) PROVE TreeSurvives'
  BY <1>17, TreesStay DEF Record, Goto, Leave, files
<1>18. ASSUME NEW r \in Runs, Drop(r) PROVE TreeSurvives'
  BY <1>18, <1>0, TreesStay DEF Drop, Goto, Leave, files
<1>19. ASSUME NEW r \in Runs, Unlock(r) PROVE TreeSurvives'
  BY <1>19, TreesStay DEF Unlock, rmtree, Goto
<1>20. ASSUME NEW r \in Runs, Crash(r) PROVE TreeSurvives'
  BY <1>20, TreesStay DEF Crash, files, CarefulPromotions
<1> QED
  BY <1>1, <1>2, <1>3, <1>4, <1>5, <1>6, <1>7, <1>8, <1>9, <1>10, <1>11,
     <1>12, <1>13, <1>14, <1>15, <1>16, <1>17, <1>18, <1>19, <1>20 DEF Next, Step

(* A package that had a tree has one, in its place, set aside by an install *)
(* or saved by a failed one, for any number of packages and careful runs    *)
(* of them, as long as no lock is stolen that somebody has taken and no     *)
(* live run's tree is swept or removed with the holder: nothing else loses  *)
(* a tree (promote.py:960, 966, 1049, 1181).                                *)
THEOREM TreesSurviveIfLeftAlone ==
  ASSUME CarefulPromotions
  PROVE  Spec /\ [][CleanSteals]_vars /\ LiveTreesAreLeftAlone => []TreeSurvives
<1>1. Init => OwnerInv /\ InstallInv /\ TreeSurvives
  BY DEF Init, OwnerInv, Holding, Touching, InstallInv, TreeSurvives
<1> QED
  BY <1>1, OwnersNext, InstallNext, SurvivalNext, TypeCorrect, PTL
     DEF Spec, LiveTreesAreLeftAlone

(* When all runs are of one package only one at a time has a tree, so none  *)
(* can remove another's, mkdtemp or not.                                    *)
AllOfOnePackage == \A r, q \in Runs : SamePackage(r, q)

LEMMA LiveTreesKept ==
  ASSUME AllOfOnePackage
  PROVE  TypeOK /\ OwnerInv /\ TreesInv /\ [Next]_vars => [TouchesOwnTree]_vars
<1> SUFFICES ASSUME TypeOK, OwnerInv, TreesInv, Next,
                    NEW q \in Runs, _alive(q), pc'[q] = pc[q]
             PROVE  scratch'[q] = scratch[q]
  BY DEF TouchesOwnTree
<1>0. pc \in [Runs -> Pcs] /\ scratch \in [Runs -> Tree]
  BY DEF TypeOK, Tree
<1>1. PICK r \in Runs : Step(r) \/ Crash(r)
  BY DEF Next
<1>2. CASE \/ TakeLock(r) \/ Probe(r) \/ Steal(r) \/ Sign(r) \/ Abandon(r) \/ Check(r)
           \/ MakeHolder(r) \/ _gate(r) \/ Record(r) \/ Unlock(r) \/ Crash(r)
  BY <1>2 DEF TakeLock, Probe, Steal, Sign, Abandon, Check, MakeHolder, _gate, Record,
              Unlock, Crash, rmtree, files
<1>3. CASE \/ MakeScratch(r) \/ MakeTemp(r) \/ Stage(r) \/ SetAside(r) \/ Replace(r)
           \/ Restore(r) \/ Drop(r)
  <2>1. pc'[r] # pc[r]
    BY <1>0, <1>3 DEF MakeScratch, MakeTemp, Stage, SetAside, Replace, Restore, Drop,
                      Goto, Leave
  <2>2. \A s \in Runs \ {r} : scratch'[s] = scratch[s]
    BY <1>0, <1>3 DEF MakeScratch, MakeTemp, Stage, SetAside, Replace, Restore, Drop
  <2> QED BY <2>1, <2>2
<1>4. CASE Sweep(r) \/ Scrap(r)
  <2>1. Holding(r) /\ q # r
    BY <1>0, <1>4 DEF Sweep, Scrap, Goto, Leave, Holding, AmidLock
  <2>2. scratch[q] = NoTree
    BY <2>1 DEF OwnerInv, TreesInv, Holding, AmidLock, Staged, AllOfOnePackage,
                SamePackage, _alive
  <2> QED BY <1>4, <2>2, Remains DEF Sweep, Scrap
<1> QED BY <1>1, <1>2, <1>3, <1>4 DEF Step

(* So no tree is lost then, if no steal can be unclean (promote.py:1181).   *)
THEOREM TreesSurvive ==
  ASSUME CarefulPromotions, AllOfOnePackage, SafeSteals
  PROVE  Spec => []TreeSurvives
<1>1. Init => OwnerInv /\ TreesInv
  BY DEF Init, OwnerInv, Holding, Touching, TreesInv
<1>2. Spec => LiveTreesAreLeftAlone
  BY <1>1, OwnersNext, TreesNext, LiveTreesKept, StealsAreClean, TypeCorrect, PTL
     DEF Spec, LiveTreesAreLeftAlone
<1> QED BY <1>2, TreesSurviveIfLeftAlone, StealsAreClean, PTL
===============================================================================
