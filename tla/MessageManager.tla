----------------------------- MODULE MessageManager -----------------------------
(***************************************************************************)
(* MessageManager.cpp: registrations, immediate sends and a queue of posts *)
(* that process() dispatches. It runs in one thread, but a callback may    *)
(* call any operation again, process() and dispose() included: the stack   *)
(* of unfinished calls is part of the state. A handler differs from a      *)
(* listener in its signature only, so both are registrations here.         *)
(***************************************************************************)
EXTENDS Integers, Sequences, FiniteSets

CONSTANTS
  Messages,
  Priorities,
  OrderKeys,
  MaxRegistrations,  \* registrations ever made since a dispose
  MaxPosts,          \* posts ever made
  MaxSequence,       \* sequence numbers used since a dispose
  MaxDepth           \* frames on the stack

ASSUME BoundsAssumption ==
  /\ Priorities \subseteq Int /\ OrderKeys \subseteq Int
  /\ {MaxRegistrations, MaxPosts, MaxSequence, MaxDepth} \subseteq Nat

VARIABLES
  mRegistrations,     \* records of the registrations
  mQueue,             \* records of the posts that wait
  mNextRegistration,
  mNextSequence,
  stack,              \* the unfinished calls, the innermost first
  fate                \* history: what became of each post, in posting order

vars == <<mRegistrations, mQueue, mNextRegistration, mNextSequence, stack, fate>>

Init ==
  /\ mRegistrations = {}
  /\ mQueue = {}
  /\ mNextRegistration = 1
  /\ mNextSequence = 1
  /\ stack = <<>>
  /\ fate = <<>>

(* A frame: a process() with its batch, a dispatch with the registrations   *)
(* still to be called, or a callback that is running.                       *)
Processing(drain, batch) == [kind |-> IF drain THEN "drain" ELSE "batch",
                             batch |-> batch, targets |-> {}]
Dispatching(targets)     == [kind |-> "dispatch", batch |-> {}, targets |-> targets]
Callback                 == [kind |-> "callback", batch |-> {}, targets |-> {}]

Top            == Head(stack)
Push(frame)    == stack' = <<frame>> \o stack
Swap(frame, s) == <<frame>> \o Tail(s)
Room(n)        == Len(stack) + n <= MaxDepth

(* Operations are called from outside or from the callback that is running. *)
CanCall == stack # <<>> => Top.kind = "callback"

Matching(m) == {g \in mRegistrations : g.message = m}

registerListener(m, p) ==
  /\ CanCall /\ mNextRegistration <= MaxRegistrations /\ mNextSequence <= MaxSequence
  /\ mRegistrations' = mRegistrations \cup
       {[id |-> mNextRegistration, message |-> m, priority |-> p,
         sequence |-> mNextSequence]}
  /\ mNextRegistration' = mNextRegistration + 1
  /\ mNextSequence' = mNextSequence + 1
  /\ UNCHANGED <<mQueue, stack, fate>>

unregister(g) ==
  /\ CanCall
  /\ mRegistrations' = mRegistrations \ {g}
  /\ UNCHANGED <<mQueue, mNextRegistration, mNextSequence, stack, fate>>

(* An immediate message goes to a copy of the registrations it is for.      *)
send(targets) ==
  /\ CanCall /\ Room(2) /\ targets # {}
  /\ Push(Dispatching(targets))
  /\ UNCHANGED <<mRegistrations, mQueue, mNextRegistration, mNextSequence, fate>>

(* A post keeps a copy of the registration it is for; to is empty for a     *)
(* broadcast, which is resolved only when it is dispatched.                 *)
enqueue(m, key, to) ==
  /\ CanCall /\ Len(fate) < MaxPosts /\ mNextSequence <= MaxSequence
  /\ mQueue' = mQueue \cup
       {[message |-> m, orderKey |-> key, sequence |-> mNextSequence, to |-> to,
         number |-> Len(fate) + 1]}
  /\ mNextSequence' = mNextSequence + 1
  /\ fate' = Append(fate, "waiting")
  /\ UNCHANGED <<mRegistrations, mNextRegistration, stack>>

(* postFunction's handler, which is no registration.                        *)
Function(m) == [id |-> 0, message |-> m, priority |-> 0, sequence |-> 0]

post(m, key) ==
  \/ enqueue(m, key, {})
  \/ enqueue(m, key, {Function(m)})
  \/ \E g \in Matching(m) : enqueue(m, key, {g})

(* A post for a registration of another message uses up a sequence number.  *)
postRejected(g, m) ==
  /\ CanCall /\ g.message # m /\ mNextSequence <= MaxSequence
  /\ mNextSequence' = mNextSequence + 1
  /\ UNCHANGED <<mRegistrations, mQueue, mNextRegistration, stack, fate>>

(* Mutant: the batch is copied and the queue keeps it.                      *)
processCopy(drain) ==
  /\ CanCall /\ Room(3)
  /\ Push(Processing(drain, IF drain THEN {} ELSE mQueue))
  /\ UNCHANGED <<mRegistrations, mQueue, mNextRegistration, mNextSequence, fate>>

process(drain) ==
  /\ CanCall /\ Room(3)
  /\ Push(Processing(drain, IF drain THEN {} ELSE mQueue))
  /\ mQueue' = IF drain THEN mQueue ELSE {}
  /\ UNCHANGED <<mRegistrations, mNextRegistration, mNextSequence, fate>>

(* Mutant: deliveries are ordered by their key alone.                       *)
queueLessKey(d, e) == d.orderKey < e.orderKey

queueLess(d, e) ==
  \/ d.orderKey < e.orderKey
  \/ d.orderKey = e.orderKey /\ d.sequence < e.sequence

First(deliveries) == {d \in deliveries : \A e \in deliveries : ~queueLess(e, d)}

(* What a process() that is about to go on still has to dispatch.           *)
Waiting == IF Top.kind = "drain" THEN mQueue ELSE Top.batch

(* process() takes the next delivery and dispatches it.                     *)
dispatchQueued(d) ==
  /\ stack # <<>> /\ Top.kind \in {"drain", "batch"}
  /\ d \in First(Waiting)
  /\ mQueue' = IF Top.kind = "drain" THEN mQueue \ {d} ELSE mQueue
  /\ stack' = <<Dispatching(IF d.to # {} THEN d.to ELSE Matching(d.message))>>
              \o Swap([Top EXCEPT !.batch = @ \ {d}], stack)
  /\ fate' = [fate EXCEPT ![d.number] = "dispatched"]
  /\ UNCHANGED <<mRegistrations, mNextRegistration, mNextSequence>>

(* The highest priority first, and among equals the newest.                 *)
Before(g, h) ==
  \/ g.priority > h.priority
  \/ g.priority = h.priority /\ g.sequence > h.sequence

dispatchRegistration(g) ==
  /\ stack # <<>> /\ g \in Top.targets
  /\ \A h \in Top.targets \ {g} : Before(g, h)
  /\ stack' = <<Callback>> \o Swap([Top EXCEPT !.targets = @ \ {g}], stack)
  /\ UNCHANGED <<mRegistrations, mQueue, mNextRegistration, mNextSequence, fate>>

(* A callback ends, or a call has nothing left to do.                       *)
Return ==
  /\ stack # <<>>
  /\ \/ Top.kind = "callback"
     \/ Top.kind = "dispatch" /\ Top.targets = {}
     \/ Top.kind \in {"drain", "batch"} /\ Waiting = {}
  /\ stack' = Tail(stack)
  /\ UNCHANGED <<mRegistrations, mQueue, mNextRegistration, mNextSequence, fate>>

Cleared(q) == [n \in DOMAIN fate |->
                 IF \E d \in q : d.number = n THEN "cleared" ELSE fate[n]]

clearQueue ==
  /\ CanCall
  /\ mQueue' = {}
  /\ fate' = Cleared(mQueue)
  /\ UNCHANGED <<mRegistrations, mNextRegistration, mNextSequence, stack>>

(* Mutant: the registrations outlive the numbers that name them.            *)
disposeKeepsListeners ==
  /\ CanCall
  /\ mQueue' = {} /\ mNextRegistration' = 1 /\ mNextSequence' = 1
  /\ fate' = Cleared(mQueue)
  /\ UNCHANGED <<mRegistrations, stack>>

dispose ==
  /\ CanCall
  /\ mQueue' = {} /\ mRegistrations' = {}
  /\ mNextRegistration' = 1 /\ mNextSequence' = 1
  /\ fate' = Cleared(mQueue)
  /\ UNCHANGED stack

Next ==
  \/ \E m \in Messages, p \in Priorities : registerListener(m, p)
  \/ \E g \in mRegistrations : unregister(g)
  \/ \E m \in Messages : send(Matching(m))
  \/ \E g \in mRegistrations : send({g})
  \/ \E m \in Messages, key \in OrderKeys : post(m, key)
  \/ \E g \in mRegistrations, m \in Messages : postRejected(g, m)
  \/ \E drain \in BOOLEAN : process(drain)
  \/ stack # <<>> /\ \E d \in Waiting : dispatchQueued(d)
  \/ stack # <<>> /\ \E g \in Top.targets : dispatchRegistration(g)
  \/ Return
  \/ clearQueue
  \/ dispose

Spec == Init /\ [][Next]_vars

(* A waiting post has a sequence number that was given out since dispose()  *)
(* last began again with 1, and the rest is within its bounds              *)
(* (MessageManager.cpp:280).                                               *)
TypeOK ==
  /\ mNextRegistration \in 1 .. MaxRegistrations + 1
  /\ mNextSequence \in 1 .. MaxSequence + 1
  /\ mRegistrations \subseteq [id : 1 .. MaxRegistrations, message : Messages,
                               priority : Priorities, sequence : 1 .. MaxSequence]
  /\ fate \in Seq({"waiting", "dispatched", "cleared"})
  /\ \A d \in mQueue : /\ d.message \in Messages /\ d.orderKey \in OrderKeys
                       /\ d.sequence \in 1 .. mNextSequence - 1
                       /\ d.number \in DOMAIN fate
  /\ Len(stack) <= MaxDepth

InBatch(n, k) == \E d \in stack[k].batch : d.number = n

(* A post that waits is in one place, the queue or one batch of one call,   *)
(* and a post that was dispatched or cleared is in none: whatever callbacks *)
(* do, none is dispatched twice and none is lost (MessageManager.cpp:255, 268).  *)
EveryPostHasOneFate ==
  \A n \in DOMAIN fate :
    LET places == Cardinality({k \in DOMAIN stack : InBatch(n, k)})
                  + Cardinality({d \in mQueue : d.number = n})
    IN  places = IF fate[n] = "waiting" THEN 1 ELSE 0

(* Among posts with one key a later one is dispatched first only by a       *)
(* process() nested in the batch that holds the earlier one                 *)
(* (MessageManager.cpp:83, 256, 266).                                          *)
FifoPerKey ==
  [][\A d \in mQueue \cup UNION {stack[k].batch : k \in DOMAIN stack} :
       fate[d.number] = "waiting" /\ fate'[d.number] = "dispatched" =>
         /\ \A e \in mQueue : e.orderKey = d.orderKey => e.number >= d.number
         /\ \A e \in stack[1].batch : e.orderKey = d.orderKey => e.number >= d.number]_vars

(* Two registrations never share an id, so an unregister removes the one it *)
(* names (MessageManager.cpp:8, 280).                                      *)
IdsAreUnique ==
  \A g, h \in mRegistrations : g.id = h.id => g = h
=============================================================================
