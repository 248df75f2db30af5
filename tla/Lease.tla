-------------------------------- MODULE Lease --------------------------------
(***************************************************************************)
(* What the investigations queue promises, without its columns: every item *)
(* of work is free, held by one party, or over; a holder is replaced only  *)
(* once its lease has lapsed; and what is over stays over.                 *)
(***************************************************************************)
CONSTANTS
  Ids,       \* the items of work
  Holders    \* whoever may hold one

VARIABLES
  state,     \* "free", "held" or "over"
  holder,    \* meaningful while held
  lapsed     \* may the present lease be taken over?

leaseVars == <<state, holder, lapsed>>

LeaseInit ==
  /\ state \in [Ids -> {"free", "held", "over"}]
  /\ holder \in [Ids -> Holders]
  /\ lapsed = [i \in Ids |-> FALSE]

SetItem(i, s, h, l) ==
  /\ state'  = [state  EXCEPT ![i] = s]
  /\ holder' = [holder EXCEPT ![i] = h]
  /\ lapsed' = [lapsed EXCEPT ![i] = l]

Grant(i, h)    == state[i] = "free" /\ SetItem(i, "held", h, FALSE)
TakeOver(i, h) == state[i] = "held" /\ lapsed[i] /\ SetItem(i, "held", h, FALSE)
Renew(i)       == state[i] = "held" /\ SetItem(i, "held", holder[i], FALSE)
Yield(i, h)    == state[i] = "held" /\ SetItem(i, "free", h, FALSE)
Rename(i, h)   == state[i] = "free" /\ SetItem(i, "free", h, FALSE)
Finish(i, h)   == state[i] # "over" /\ SetItem(i, "over", h, FALSE)

(* Time passes for any set of the leases at once.                          *)
Lapse ==
  /\ \E held \in SUBSET {i \in Ids : state[i] = "held"} :
       lapsed' = [i \in Ids |-> i \in held \/ lapsed[i]]
  /\ UNCHANGED <<state, holder>>

LeaseNext ==
  \/ \E i \in Ids, h \in Holders :
       Grant(i, h) \/ TakeOver(i, h) \/ Yield(i, h) \/ Rename(i, h) \/ Finish(i, h)
  \/ \E i \in Ids : Renew(i)
  \/ Lapse

LeaseSpec == LeaseInit /\ [][LeaseNext]_leaseVars
===============================================================================
