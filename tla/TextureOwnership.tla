---------------------------- MODULE TextureOwnership ----------------------------
(***************************************************************************)
(* What the texture handles promise the stages: a handle has one owner at  *)
(* most, is given out only while it has none, and comes back with all the  *)
(* others of its owner, when a preload fails or the stage is shut down.    *)
(***************************************************************************)
CONSTANTS Stages, Nobody

VARIABLE owner   \* of each handle

Init == \A h \in DOMAIN owner : owner[h] = Nobody

Take(s, h) == owner[h] = Nobody /\ owner' = [owner EXCEPT ![h] = s]

GiveBack(s) ==
  owner' = [h \in DOMAIN owner |-> IF owner[h] = s THEN Nobody ELSE owner[h]]

Next == \E s \in Stages : GiveBack(s) \/ \E h \in DOMAIN owner : Take(s, h)

Spec == Init /\ [][Next]_owner
=============================================================================
