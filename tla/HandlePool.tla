------------------------------- MODULE HandlePool -------------------------------
(***************************************************************************)
(* What an object pool promises its users: it hands out an index nobody    *)
(* holds, takes back an index somebody holds, is emptied as a whole, and   *)
(* knows how many are out.                                                 *)
(***************************************************************************)
EXTENDS Integers

VARIABLES size,  \* the objects there are
          held,  \* the indices handed out
          count  \* how many those are

Init == size = 0 /\ held = {} /\ count = 0

Empty   == size' \in Nat /\ held' = {} /\ count' = 0
Take(i) == i \notin held /\ held' = held \cup {i} /\ count' = count + 1
Give(i) == i \in held /\ held' = held \ {i} /\ count' = count - 1

Next ==
  \/ Empty
  \/ /\ \E i \in 0 .. size - 1 : Take(i) \/ Give(i)
     /\ UNCHANGED size

Spec == Init /\ [][Next]_<<size, held, count>>
=============================================================================
