---------------------------- MODULE PackagePromotion ----------------------------
(***************************************************************************)
(* promote.py:_promote_package: each run takes its package's lock, gates   *)
(* the staged tree in a scratch directory and renames it into src/, beside *)
(* runs in other processes that share the lock, the destination and the    *)
(* holder of all scratch directories. A process may be killed.             *)
(***************************************************************************)
EXTENDS Integers, FiniteSets

CONSTANTS
  Runs,          \* processes, each promoting one package
  Packages,
  PackageOf,     \* [Runs -> Packages]
  Present,       \* the packages that src/ holds at the start
  Rebuilds,      \* the runs started with rebuild
  CrashPoints,   \* the pcs at which a process may be killed
  MaxFaults,     \* renames and writes that may fail, all in all
  NoLock,        \* there is no lock directory
  Unsigned       \* there is one, without its owner file

ASSUME RunsAssumption ==
  /\ PackageOf \in [Runs -> Packages]
  /\ Present \subseteq Packages /\ Rebuilds \subseteq Runs
  /\ MaxFaults \in Nat
  /\ NoLock \notin Runs /\ Unsigned \notin Runs /\ NoLock # Unsigned

VARIABLES
  lock,      \* [Packages -> NoLock, Unsigned or the run whose pid it holds]
  holder,    \* is there a .promote-tmp directory?
  scratch,   \* [Runs -> the run's tree in it]
  dest,      \* [Packages -> the tree at src/reconstruction/<package>]
  lost,      \* [Packages -> the tree under .promote-lost]
  pc, result, faults,
  torn       \* history: the packages of which a run was killed amid its lock

files == <<lock, holder, scratch, dest, lost>>
vars  == <<files, pc, result, faults, torn>>

Trees  == {"absent", "old", "new"}  \* "new" is what staging would install
NoTree == [made |-> FALSE, temp |-> FALSE, install |-> FALSE, superseded |-> "absent"]
Pcs == {"locking", "probing", "stealing", "stolen", "signing", "abandoning",
        "abandoned", "checking", "holding", "sweeping", "making", "retrying",
        "scrapping", "staging", "gating", "installing", "replacing",
        "restoring", "recording", "dropping", "unlocking", "unlocked",
        "ended", "crashed"}

(* Where a lock directory has no owner file because of the run: it has made *)
(* it and not signed it yet, or has emptied it and not removed it yet.      *)
AmidLock == {"signing", "stolen", "abandoning", "abandoned", "unlocked"}
Results == {"none", "locked", "refused", "already", "promoted", "error"}

Init ==
  /\ lock = [p \in Packages |-> NoLock]
  /\ holder = FALSE
  /\ scratch = [r \in Runs |-> NoTree]
  /\ dest = [p \in Packages |-> IF p \in Present THEN "old" ELSE "absent"]
  /\ lost = [p \in Packages |-> "absent"]
  /\ pc = [r \in Runs |-> "locking"]
  /\ result = [r \in Runs |-> "none"]
  /\ faults = 0
  /\ torn = {}

_alive(r) == pc[r] # "crashed"

Goto(r, next) == pc' = [pc EXCEPT ![r] = next] /\ UNCHANGED <<result, torn>>
Leave(r, next, re) ==
  /\ pc' = [pc EXCEPT ![r] = next]
  /\ result' = [result EXCEPT ![r] = re]
  /\ UNCHANGED torn
Fault == faults < MaxFaults /\ faults' = faults + 1

(* shutil.rmtree of a lock directory, whosever it is by now: the owner file *)
(* is unlinked, then the directory removed, if nobody has signed it since.  *)
(* A directory that is gone already ends it; its errors are ignored.        *)
rmtree(r, full, empty, next) ==
  LET p == PackageOf[r] IN
  /\ \/ /\ pc[r] = full
        /\ lock' = [lock EXCEPT ![p] = IF @ = NoLock THEN NoLock ELSE Unsigned]
        /\ Goto(r, IF lock[p] = NoLock THEN next ELSE empty)
     \/ /\ pc[r] = empty
        /\ lock' = [lock EXCEPT ![p] = IF @ = Unsigned THEN NoLock ELSE @]
        /\ Goto(r, next)
  /\ UNCHANGED <<holder, scratch, dest, lost, faults>>

(* mkdir of the lock directory succeeds in one run only.                    *)
TakeLock(r) ==
  LET p == PackageOf[r] IN
  /\ pc[r] = "locking"
  /\ \/ /\ lock[p] = NoLock
        /\ lock' = [lock EXCEPT ![p] = Unsigned]
        /\ Goto(r, "signing")
        /\ UNCHANGED faults
     \/ lock[p] # NoLock /\ Goto(r, "probing") /\ UNCHANGED <<lock, faults>>
     \/ Fault /\ Leave(r, "ended", "locked") /\ UNCHANGED lock
  /\ UNCHANGED <<holder, scratch, dest, lost>>

(* Mutant: a lock whose owner cannot be read is taken for a dead one.       *)
unsigned_is_dead(p) == lock[p] \in Runs /\ _alive(lock[p])

(* A lock that has no owner yet, or is gone again, counts as live.          *)
_lock_is_live(p) == lock[p] \in Runs => _alive(lock[p])

Probe(r) ==
  /\ pc[r] = "probing"
  /\ \/ ~_lock_is_live(PackageOf[r]) /\ Goto(r, "stealing")
     \/ _lock_is_live(PackageOf[r]) /\ (Goto(r, "locking") \/ Leave(r, "ended", "locked"))
  /\ UNCHANGED <<files, faults>>

(* The directory is removed, whosever it has become since it was probed.    *)
Steal(r) == rmtree(r, "stealing", "stolen", "locking")

(* The owner file is written, wherever the directory now comes from; if it  *)
(* cannot be, the directory is removed and the run refused.                 *)
Sign(r) ==
  LET p == PackageOf[r] IN
  /\ pc[r] = "signing"
  /\ \/ /\ lock[p] # NoLock
        /\ lock' = [lock EXCEPT ![p] = r]
        /\ Goto(r, "checking")
        /\ UNCHANGED faults
     \/ /\ IF lock[p] = NoLock THEN UNCHANGED faults ELSE Fault
        /\ Leave(r, "abandoning", "locked")
        /\ UNCHANGED lock
  /\ UNCHANGED <<holder, scratch, dest, lost>>

Abandon(r) == rmtree(r, "abandoning", "abandoned", "ended")

(* The installed tree may be the staged one, or the inputs may have moved.  *)
Check(r) ==
  /\ pc[r] = "checking"
  /\ \/ dest[PackageOf[r]] = "new" /\ r \notin Rebuilds /\ Leave(r, "unlocking", "already")
     \/ /\ dest[PackageOf[r]] # "new" \/ r \in Rebuilds
        /\ Goto(r, "holding") \/ Leave(r, "unlocking", "refused")
  /\ UNCHANGED <<files, faults>>

(* mkdir may fail, as when the holder goes while it is looked at.           *)
MakeHolder(r) ==
  /\ pc[r] = "holding"
  /\ \/ holder' = TRUE /\ Goto(r, "sweeping")
     \/ Leave(r, "unlocking", "error") /\ UNCHANGED holder
  /\ UNCHANGED <<lock, scratch, dest, lost, faults>>

(* What is left of a run's tree when another run removes it: where it was.  *)
Gone(q) == [NoTree EXCEPT !.temp = scratch[q].temp]

(* Trees go whose name ends in no pid of a live process, those of mkdtemp   *)
(* included; a holder that is gone fails the run.                           *)
Sweep(r) ==
  /\ pc[r] = "sweeping"
  /\ \/ /\ holder
        /\ scratch' = [q \in Runs |-> IF _alive(q) /\ ~scratch[q].temp
                                      THEN scratch[q] ELSE Gone(q)]
        /\ Goto(r, "making")
     \/ ~holder /\ Goto(r, "scrapping") /\ UNCHANGED scratch
  /\ UNCHANGED <<lock, holder, dest, lost, faults>>

(* mkdir under a name that ends in the run's pid.                           *)
MakeScratch(r) ==
  /\ pc[r] = "making"
  /\ \/ /\ holder
        /\ scratch' = [scratch EXCEPT ![r].made = TRUE]
        /\ Goto(r, "staging")
        /\ UNCHANGED faults
     \/ /\ IF holder THEN Fault ELSE UNCHANGED faults
        /\ Goto(r, "retrying")
        /\ UNCHANGED scratch
  /\ UNCHANGED <<lock, holder, dest, lost>>

(* If that fails: mkdtemp, under a name that ends in none.                  *)
MakeTemp(r) ==
  /\ pc[r] = "retrying"
  /\ \/ /\ holder
        /\ scratch' = [scratch EXCEPT ![r].made = TRUE, ![r].temp = TRUE]
        /\ Goto(r, "staging")
        /\ UNCHANGED faults
     \/ /\ IF holder THEN Fault ELSE UNCHANGED faults
        /\ Goto(r, "scrapping")
        /\ UNCHANGED scratch
  /\ UNCHANGED <<lock, holder, dest, lost>>

(* The run that could not make its tree removes the holder with all trees.  *)
Scrap(r) ==
  /\ pc[r] = "scrapping"
  /\ holder' = FALSE
  /\ scratch' = [q \in Runs |-> Gone(q)]
  /\ Leave(r, "unlocking", "error")
  /\ UNCHANGED <<lock, dest, lost, faults>>

(* _stage_tree makes the directories it needs, its parents included.        *)
Stage(r) ==
  /\ pc[r] = "staging"
  /\ holder' = TRUE
  /\ scratch' = [scratch EXCEPT ![r].made = TRUE, ![r].install = TRUE]
  /\ Goto(r, "gating")
  /\ UNCHANGED <<lock, dest, lost, faults>>

_gate(r) ==
  /\ pc[r] = "gating"
  /\ \/ scratch[r].install /\ (Goto(r, "installing") \/ Leave(r, "dropping", "refused"))
     \/ Leave(r, "dropping", "error")
  /\ UNCHANGED <<files, faults>>

(* _install, first rename: the previous tree moves into the scratch tree.   *)
SetAside(r) ==
  LET p == PackageOf[r] IN
  /\ pc[r] = "installing"
  /\ \/ dest[p] = "absent" /\ Goto(r, "replacing") /\ UNCHANGED <<dest, scratch, faults>>
     \/ /\ dest[p] # "absent" /\ scratch[r].made
        /\ scratch' = [scratch EXCEPT ![r].superseded = dest[p]]
        /\ dest' = [dest EXCEPT ![p] = "absent"]
        /\ Goto(r, "replacing")
        /\ UNCHANGED faults
     \/ /\ dest[p] # "absent"
        /\ IF scratch[r].made THEN Fault ELSE UNCHANGED faults
        /\ Leave(r, "dropping", "error")
        /\ UNCHANGED <<dest, scratch>>
  /\ UNCHANGED <<lock, holder, lost>>

(* _install, second rename: it needs the staged tree and a free place.      *)
Replace(r) ==
  LET p        == PackageOf[r]
      possible == scratch[r].install /\ dest[p] = "absent"
  IN
  /\ pc[r] = "replacing"
  /\ \/ /\ possible
        /\ dest' = [dest EXCEPT ![p] = "new"]
        /\ scratch' = [scratch EXCEPT ![r].install = FALSE]
        /\ Leave(r, "recording", "promoted")
        /\ UNCHANGED faults
     \/ /\ IF possible THEN Fault ELSE UNCHANGED faults
        /\ Leave(r, "restoring", "error")
        /\ UNCHANGED <<dest, scratch>>
  /\ UNCHANGED <<lock, holder, lost>>

(* Mutant: a failed install leaves the previous tree to the cleanup.        *)
NoRestore(r) ==
  /\ pc[r] = "restoring"
  /\ Goto(r, "dropping")
  /\ UNCHANGED <<files, faults>>

(* _restore_superseded: back to its place, or to .promote-lost, or nowhere. *)
Restore(r) ==
  LET p    == PackageOf[r]
      tree == scratch[r].superseded
      kept == [scratch EXCEPT ![r].superseded = "absent"]
  IN
  /\ pc[r] = "restoring"
  /\ \/ tree = "absent" /\ UNCHANGED <<dest, lost, scratch, faults>>
     \/ /\ tree # "absent" /\ dest[p] = "absent"
        /\ dest' = [dest EXCEPT ![p] = tree]
        /\ scratch' = kept
        /\ UNCHANGED <<lost, faults>>
     \/ /\ tree # "absent"
        /\ IF dest[p] = "absent" THEN Fault ELSE UNCHANGED faults
        /\ lost' = [lost EXCEPT ![p] = tree]
        /\ scratch' = kept
        /\ UNCHANGED dest
     \/ /\ tree # "absent"
        /\ faults' = faults + (IF dest[p] = "absent" THEN 2 ELSE 1)
        /\ faults' <= MaxFaults
        /\ UNCHANGED <<dest, lost, scratch>>
  /\ Goto(r, "dropping")
  /\ UNCHANGED <<lock, holder>>

(* A record that cannot be written is a warning: the install stands.        *)
Record(r) ==
  /\ pc[r] = "recording"
  /\ Goto(r, "dropping")
  /\ UNCHANGED <<files, faults>>

(* Mutant: the holder stays when it is empty.                               *)
DropTreeOnly(r) ==
  /\ pc[r] = "dropping"
  /\ scratch' = [scratch EXCEPT ![r] = NoTree]
  /\ Goto(r, "unlocking")
  /\ UNCHANGED <<lock, holder, dest, lost, faults>>

(* _drop_scratch: the run's tree, then the holder if no tree is in it.      *)
Drop(r) ==
  /\ pc[r] = "dropping"
  /\ scratch' = [scratch EXCEPT ![r] = NoTree]
  /\ holder' = (holder /\ \E q \in Runs \ {r} : scratch[q].made)
  /\ Goto(r, "unlocking")
  /\ UNCHANGED <<lock, dest, lost, faults>>

(* Mutants: the lock of a run that was refused is left behind; only the     *)
(* owner file is removed.                                                   *)
UnlockPromoted(r) ==
  IF result[r] = "refused"
  THEN pc[r] = "unlocking" /\ Goto(r, "ended") /\ UNCHANGED <<files, faults>>
  ELSE rmtree(r, "unlocking", "unlocked", "ended")

UnlockOwnerOnly(r) ==
  /\ pc[r] = "unlocking"
  /\ lock' = [lock EXCEPT ![PackageOf[r]] = Unsigned]
  /\ Goto(r, "ended")
  /\ UNCHANGED <<holder, scratch, dest, lost, faults>>

Unlock(r) == rmtree(r, "unlocking", "unlocked", "ended")

Crash(r) ==
  /\ pc[r] \in CrashPoints
  /\ pc' = [pc EXCEPT ![r] = "crashed"]
  /\ torn' = IF pc[r] \in AmidLock THEN torn \cup {PackageOf[r]} ELSE torn
  /\ UNCHANGED <<files, result, faults>>

Step(r) ==
  \/ TakeLock(r) \/ Probe(r) \/ Steal(r) \/ Sign(r) \/ Abandon(r) \/ Check(r)
  \/ MakeHolder(r) \/ Sweep(r) \/ MakeScratch(r) \/ MakeTemp(r) \/ Scrap(r) \/ Stage(r)
  \/ _gate(r) \/ SetAside(r) \/ Replace(r) \/ Restore(r) \/ Record(r)
  \/ Drop(r) \/ Unlock(r)

Next == \E r \in Runs : Step(r) \/ Crash(r)

(* A process that is not killed goes on: no step waits for more than time.  *)
Spec == Init /\ [][Next]_vars /\ \A r \in Runs : WF_vars(Step(r))

TypeOK ==
  /\ lock \in [Packages -> Runs \cup {NoLock, Unsigned}]
  /\ holder \in BOOLEAN
  /\ scratch \in [Runs -> [made : BOOLEAN, temp : BOOLEAN, install : BOOLEAN,
                        superseded : Trees]]
  /\ dest \in [Packages -> Trees]
  /\ lost \in [Packages -> Trees]
  /\ pc \in [Runs -> Pcs]
  /\ result \in [Runs -> Results]
  /\ faults \in 0 .. MaxFaults
  /\ torn \subseteq Packages

Holding(r) ==
  pc[r] \notin {"locking", "probing", "stealing", "ended", "crashed"} \cup AmidLock

(* Two promotions of one package are never past its lock together           *)
(* (promote.py:1309).                                                      *)
OneInstaller ==
  \A r, q \in Runs : r # q /\ PackageOf[r] = PackageOf[q]
                     => ~(Holding(r) /\ Holding(q))

(* Outside the two renames of an install, a package that had a tree has one,*)
(* in its place or where a failed install saved it (promote.py:1181).       *)
TreeSurvives ==
  \A p \in Present :
    \/ dest[p] # "absent" \/ lost[p] # "absent"
    \/ \E r \in Runs : /\ PackageOf[r] = p
                      /\ pc[r] \in {"replacing", "restoring"}
                      /\ scratch[r].superseded # "absent"

(* When no run was killed, the last one leaves no lock, no scratch tree and *)
(* no holder under src/ (promote.py:1001).                                 *)
NoTraceLeft ==
  (\A r \in Runs : pc[r] = "ended") =>
    /\ \A p \in Packages : lock[p] = NoLock
    /\ \A r \in Runs : scratch[r] = NoTree
    /\ ~holder

(* A package can be promoted again: its lock is one somebody will sign or   *)
(* remove, or one that names a dead owner and can be stolen.                *)
CanBeTaken(p) ==
  \/ lock[p] = NoLock
  \/ lock[p] = Unsigned /\ \E r \in Runs : PackageOf[r] = p /\ pc[r] \in AmidLock
  \/ lock[p] \in Runs /\ (Holding(lock[p]) \/ ~_alive(lock[p]))

(* A lock that nobody can take any more is the work of a run killed amid    *)
(* its lock, between mkdir and the owner file or amid a removal: no other   *)
(* kill, failure or steal wedges a package (promote.py:1014-1070).          *)
OnlyTornLocksWedge == \A p \in Packages \ torn : CanBeTaken(p)

(* Every promotion ends: it waits for its lock no longer than it takes the  *)
(* others to finish, or gives up.                                          *)
EveryRunEnds == \A r \in Runs : <>(pc[r] \in {"ended", "crashed"})

(***************************************************************************)
(* What the code's own documents say of it, and it does not do.            *)
(***************************************************************************)
(* "A killed run cannot wedge a package" (promote.py:1035): every lock can  *)
(* be taken again, whichever run was killed.                                *)
NoWedge == \A p \in Packages : CanBeTaken(p)

(* "A live run's tree is never touched, so two concurrent promotions cannot *)
(* delete each other's work" (promote.py:985): only its own steps change a  *)
(* live run's scratch tree.                                                 *)
TouchesOwnTree ==
  \A q \in Runs : _alive(q) /\ pc'[q] = pc[q] => scratch'[q] = scratch[q]

LiveTreesAreLeftAlone == [][TouchesOwnTree]_vars
=============================================================================
