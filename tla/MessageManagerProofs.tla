------------------------- MODULE MessageManagerProofs -------------------------
(***************************************************************************)
(* MessageManager for any messages, keys, priorities and bounds: however   *)
(* callbacks nest their calls, a post is in one place until it is          *)
(* dispatched or cleared, the posts of a place are in order, and ids are   *)
(* unique.                                                                 *)
(***************************************************************************)
EXTENDS MessageManager, FiniteSetTheorems, SequenceTheorems, TLAPS

USE BoundsAssumption

Fates    == {"waiting", "dispatched", "cleared"}
Target   == [id : Nat, message : Messages, priority : Int, sequence : Nat]
Delivery == [message : Messages, orderKey : OrderKeys, sequence : Nat,
             to : SUBSET Target, number : Nat]
Frame    == [kind : {"drain", "batch", "dispatch", "callback"},
             batch : SUBSET Delivery, targets : SUBSET Target]

(* ------------------------------ the stack ------------------------------- *)
(* A frame has what its kind uses, and the room below the bound that its    *)
(* own calls will need.                                                     *)
FrameOK(frame, depth) ==
  /\ frame.kind # "batch" => frame.batch = {}
  /\ frame.kind # "dispatch" => frame.targets = {}
  /\ frame.kind \in {"drain", "batch"} => depth <= MaxDepth - 2
  /\ frame.kind = "dispatch" => depth <= MaxDepth - 1
  /\ depth <= MaxDepth

GoodStack(s) ==
  /\ s \in Seq(Frame)
  /\ \A k \in 1 .. Len(s) : FrameOK(s[k], Len(s) + 1 - k)

(* The places a post may wait in: 0 is the queue, h the batch of the call   *)
(* at depth h, the outermost being at 1.                                    *)
Places(q, s) ==
  [h \in 0 .. Len(s) |-> IF h = 0 THEN q ELSE s[Len(s) + 1 - h].batch]

Above(frame, s) == <<frame>> \o s

(* What pushing a frame leaves.                                             *)
LEMMA Pushed ==
  ASSUME NEW s, GoodStack(s), NEW f \in Frame, FrameOK(f, Len(s) + 1), NEW q
  PROVE  /\ GoodStack(Above(f, s))
         /\ Len(Above(f, s)) = Len(s) + 1
         /\ Places(q, Above(f, s)) =
              [h \in 0 .. Len(s) + 1 |-> IF h = Len(s) + 1 THEN f.batch ELSE Places(q, s)[h]]
<1> DEFINE t == Above(f, s)
           n == Len(s)
<1>1. s \in Seq(Frame) /\ n \in Nat
  BY DEF GoodStack
<1>2. /\ t \in Seq(Frame) /\ Len(t) = n + 1 /\ t[1] = f
      /\ \A k \in 2 .. n + 1 : t[k] = s[k - 1]
  BY <1>1 DEF Above
<1> HIDE DEF t
<1>3. ASSUME NEW k \in 1 .. n + 1 PROVE FrameOK(t[k], n + 2 - k)
  <2>1. CASE k = 1
    BY <1>1, <1>2, <2>1
  <2>2. CASE k # 1
    <3>1. k - 1 \in 1 .. n /\ t[k] = s[k - 1] /\ n + 1 - (k - 1) = n + 2 - k
      BY <1>1, <1>2, <2>2
    <3> QED BY <3>1 DEF GoodStack
  <2> QED BY <2>1, <2>2
<1>4. GoodStack(t)
  BY <1>1, <1>2, <1>3 DEF GoodStack
<1>5. ASSUME NEW h \in 0 .. n + 1
      PROVE  (IF h = 0 THEN q ELSE t[n + 2 - h].batch)
               = IF h = n + 1 THEN f.batch ELSE Places(q, s)[h]
  <2>1. CASE h = 0
    BY <1>1, <2>1 DEF Places
  <2>2. CASE h = n + 1
    BY <1>1, <1>2, <2>2
  <2>3. CASE h \in 1 .. n
    <3>1. n + 2 - h \in 2 .. n + 1 /\ (n + 2 - h) - 1 = n + 1 - h /\ h \in 0 .. n /\ h # n + 1 /\ h # 0
      BY <1>1, <2>3
    <3>2. t[n + 2 - h] = s[n + 1 - h]
      BY <1>2, <3>1
    <3> QED BY <3>1, <3>2 DEF Places
  <2> QED BY <1>1, <2>1, <2>2, <2>3
<1>6. Places(q, t) = [h \in 0 .. n + 1 |-> IF h = n + 1 THEN f.batch ELSE Places(q, s)[h]]
  <2>1. Places(q, t) = [h \in 0 .. n + 1 |-> IF h = 0 THEN q ELSE t[n + 2 - h].batch]
    BY <1>1, <1>2 DEF Places
  <2> QED BY <1>5, <2>1
<1> QED BY <1>2, <1>4, <1>6 DEF t

(* What replacing the innermost frame leaves.                               *)
LEMMA Swapped ==
  ASSUME NEW s, GoodStack(s), s # <<>>, NEW f \in Frame, FrameOK(f, Len(s)), NEW q
  PROVE  /\ GoodStack(Swap(f, s))
         /\ Len(Swap(f, s)) = Len(s)
         /\ Places(q, Swap(f, s)) = [Places(q, s) EXCEPT ![Len(s)] = f.batch]
<1> DEFINE t == Swap(f, s)
           n == Len(s)
<1>1. s \in Seq(Frame) /\ n \in Nat \ {0}
  BY DEF GoodStack
<1>2. /\ Tail(s) \in Seq(Frame) /\ Len(Tail(s)) = n - 1
      /\ \A k \in 1 .. n - 1 : Tail(s)[k] = s[k + 1]
  BY <1>1
<1>3. /\ t \in Seq(Frame) /\ Len(t) = n /\ t[1] = f
      /\ \A k \in 2 .. n : t[k] = s[k]
  BY <1>1, <1>2 DEF Swap
<1> HIDE DEF t
<1>4. ASSUME NEW k \in 1 .. n PROVE FrameOK(t[k], n + 1 - k)
  <2>1. CASE k = 1
    BY <1>1, <1>3, <2>1
  <2>2. CASE k # 1
    BY <1>1, <1>3, <2>2 DEF GoodStack
  <2> QED BY <2>1, <2>2
<1>5. GoodStack(t)
  BY <1>1, <1>3, <1>4 DEF GoodStack
<1>6. ASSUME NEW h \in 0 .. n
      PROVE  Places(q, t)[h] = IF h = n THEN f.batch ELSE Places(q, s)[h]
  <2>1. CASE h = 0 \/ h = n
    BY <1>1, <1>3, <2>1 DEF Places
  <2>2. CASE h \in 1 .. n - 1
    BY <1>1, <1>3, <2>2 DEF Places
  <2> QED BY <1>1, <2>1, <2>2
<1>7. Places(q, t) = [Places(q, s) EXCEPT ![n] = f.batch]
  BY <1>1, <1>3, <1>6 DEF Places
<1> QED BY <1>3, <1>5, <1>7 DEF t

(* What a return leaves.                                                    *)
LEMMA Popped ==
  ASSUME NEW s, GoodStack(s), s # <<>>, NEW q
  PROVE  /\ GoodStack(Tail(s))
         /\ Len(Tail(s)) = Len(s) - 1
         /\ Places(q, Tail(s)) = [h \in 0 .. Len(s) - 1 |-> Places(q, s)[h]]
<1> DEFINE t == Tail(s)
           n == Len(s)
<1>1. s \in Seq(Frame) /\ n \in Nat \ {0}
  BY DEF GoodStack
<1>2. /\ t \in Seq(Frame) /\ Len(t) = n - 1
      /\ \A k \in 1 .. n - 1 : t[k] = s[k + 1]
  BY <1>1
<1> HIDE DEF t
<1>3. ASSUME NEW k \in 1 .. n - 1 PROVE FrameOK(t[k], n - k)
  <2>1. k + 1 \in 1 .. n /\ t[k] = s[k + 1] /\ n + 1 - (k + 1) = n - k
    BY <1>1, <1>2
  <2> QED BY <2>1 DEF GoodStack
<1>4. GoodStack(t)
  BY <1>1, <1>2, <1>3 DEF GoodStack
<1>5. ASSUME NEW h \in 0 .. n - 1
      PROVE  Places(q, t)[h] = Places(q, s)[h]
  <2>1. CASE h = 0
    BY <1>1, <1>2, <2>1 DEF Places
  <2>2. CASE h # 0
    <3>1. n - h \in 1 .. n - 1 /\ (n - h) + 1 = n + 1 - h /\ h \in 0 .. n
      BY <1>1, <2>2
    <3>2. t[n - h] = s[n + 1 - h]
      BY <1>2, <3>1
    <3> QED BY <1>1, <1>2, <2>2, <3>1, <3>2 DEF Places
  <2> QED BY <2>1, <2>2
<1>6. Places(q, t) = [h \in 0 .. n - 1 |-> Places(q, s)[h]]
  BY <1>1, <1>2, <1>5 DEF Places
<1> QED BY <1>2, <1>4, <1>6 DEF t

(* ------------------------------ the posts ------------------------------- *)
(* What waits is in a place, and in one place only.                         *)
Fated(B, f) ==
  /\ \A h \in DOMAIN B : \A d \in B[h] : d.number \in DOMAIN f /\ f[d.number] = "waiting"
  /\ \A n \in DOMAIN f : f[n] = "waiting" =>
       \E h \in DOMAIN B : \E d \in B[h] : d.number = n
  /\ \A h, i \in DOMAIN B : \A d \in B[h], e \in B[i] :
       d.number = e.number => h = i /\ d = e

(* The posts of one place have sequence numbers in posting order, and those *)
(* in the queue were posted after those in every batch.                     *)
InOrder(B) ==
  /\ \A h \in DOMAIN B : \A d, e \in B[h] : d.number < e.number => d.sequence < e.sequence
  /\ \A h \in DOMAIN B \ {0} : \A d \in B[h], e \in B[0] : d.number < e.number

Posts(B, f) == Fated(B, f) /\ InOrder(B)

(* A call begins whose batch is empty.                                      *)
LEMMA PostsAtCall ==
  ASSUME NEW n \in Nat, NEW B \in [0 .. n -> SUBSET Delivery],
         NEW f \in Seq(Fates), Posts(B, f)
  PROVE  Posts([h \in 0 .. n + 1 |-> IF h = n + 1 THEN {} ELSE B[h]], f)
<1> DEFINE C == [h \in 0 .. n + 1 |-> IF h = n + 1 THEN {} ELSE B[h]]
<1>1. /\ DOMAIN C = 0 .. n + 1 /\ C[n + 1] = {} /\ DOMAIN B = 0 .. n
      /\ n + 1 \in 0 .. n + 1
      /\ \A h \in 0 .. n : C[h] = B[h] /\ h \in 0 .. n + 1
      /\ \A h \in 0 .. n + 1 : h = n + 1 \/ h \in 0 .. n
      /\ 0 \in 0 .. n
  OBVIOUS
<1> HIDE DEF C
<1>2. Fated(C, f)
  <2>1. \A h \in DOMAIN C : \A d \in C[h] : h \in DOMAIN B /\ d \in B[h]
    BY <1>1
  <2>2. \A h \in DOMAIN B : \A d \in B[h] : h \in DOMAIN C /\ d \in C[h]
    BY <1>1
  <2> QED BY <2>1, <2>2 DEF Posts, Fated
<1>3. InOrder(C)
  BY <1>1 DEF Posts, InOrder
<1> QED BY <1>2, <1>3 DEF Posts, C

(* A call ends whose batch is empty.                                        *)
LEMMA PostsAtReturn ==
  ASSUME NEW n \in Nat \ {0}, NEW B \in [0 .. n -> SUBSET Delivery],
         NEW f \in Seq(Fates), Posts(B, f), B[n] = {}
  PROVE  Posts([h \in 0 .. n - 1 |-> B[h]], f)
<1> DEFINE C == [h \in 0 .. n - 1 |-> B[h]]
<1>1. /\ DOMAIN C = 0 .. n - 1 /\ DOMAIN B = 0 .. n
      /\ \A h \in 0 .. n - 1 : C[h] = B[h] /\ h \in 0 .. n
      /\ \A h \in 0 .. n : h = n \/ h \in 0 .. n - 1
      /\ 0 \in 0 .. n - 1
  OBVIOUS
<1> HIDE DEF C
<1>2. Fated(C, f)
  <2>1. \A h \in DOMAIN C : \A d \in C[h] : h \in DOMAIN B /\ d \in B[h]
    BY <1>1
  <2>2. \A h \in DOMAIN B : \A d \in B[h] : h \in DOMAIN C /\ d \in C[h]
    BY <1>1
  <2> QED BY <2>1, <2>2 DEF Posts, Fated
<1>3. InOrder(C)
  BY <1>1 DEF Posts, InOrder
<1> QED BY <1>2, <1>3 DEF Posts, C

(* A call begins that takes the queue for its batch.                        *)
LEMMA PostsAtProcess ==
  ASSUME NEW n \in Nat, NEW B \in [0 .. n -> SUBSET Delivery],
         NEW f \in Seq(Fates), Posts(B, f)
  PROVE  Posts([h \in 0 .. n + 1 |-> IF h = n + 1 THEN B[0] ELSE IF h = 0 THEN {} ELSE B[h]], f)
<1> DEFINE C == [h \in 0 .. n + 1 |-> IF h = n + 1 THEN B[0] ELSE IF h = 0 THEN {} ELSE B[h]]
<1>1. /\ DOMAIN C = 0 .. n + 1 /\ C[n + 1] = B[0] /\ C[0] = {} /\ DOMAIN B = 0 .. n
      /\ \A h \in 0 .. n : h # 0 => C[h] = B[h] /\ h \in 0 .. n + 1
      /\ \A h \in 0 .. n + 1 : h = n + 1 \/ h = 0 \/ h \in 0 .. n
      /\ 0 \in 0 .. n /\ n + 1 \in 0 .. n + 1
      /\ n + 1 \notin 0 .. n
  OBVIOUS
<1> HIDE DEF C
<1>2. Fated(C, f)
  <2>1. \A h \in DOMAIN C : \A d \in C[h] : d.number \in DOMAIN f /\ f[d.number] = "waiting"
    BY <1>1 DEF Posts, Fated
  <2>2. \A m \in DOMAIN f : f[m] = "waiting" =>
          \E h \in DOMAIN C : \E d \in C[h] : d.number = m
    BY <1>1 DEF Posts, Fated
  <2>3. \A h, i \in DOMAIN C : \A d \in C[h], e \in C[i] :
          d.number = e.number => h = i /\ d = e
    <3> TAKE h, i \in DOMAIN C
    <3> TAKE d \in C[h], e \in C[i]
    <3> HAVE d.number = e.number
    <3> DEFINE From(j) == IF j = n + 1 THEN 0 ELSE j
    <3>1. /\ From(h) \in DOMAIN B /\ d \in B[From(h)]
          /\ From(i) \in DOMAIN B /\ e \in B[From(i)]
      BY <1>1
    <3>2. From(h) = From(i) /\ d = e
      BY <3>1 DEF Posts, Fated
    <3>3. h # 0 /\ i # 0
      BY <1>1
    <3> QED BY <1>1, <3>2, <3>3
  <2> QED BY <2>1, <2>2, <2>3 DEF Fated
<1>3. InOrder(C)
  BY <1>1 DEF Posts, InOrder
<1> QED BY <1>2, <1>3 DEF Posts, C

(* A post is taken from its place and dispatched.                           *)
LEMMA PostsAtDispatch ==
  ASSUME NEW n \in Nat, NEW B \in [0 .. n -> SUBSET Delivery],
         NEW f \in Seq(Fates), Posts(B, f),
         NEW i \in 0 .. n, NEW d \in B[i]
  PROVE  Posts([B EXCEPT ![i] = @ \ {d}], [f EXCEPT ![d.number] = "dispatched"])
<1> DEFINE C == [B EXCEPT ![i] = @ \ {d}]
           g == [f EXCEPT ![d.number] = "dispatched"]
<1>1. /\ DOMAIN C = 0 .. n /\ DOMAIN B = 0 .. n
      /\ \A h \in 0 .. n : \A e : e \in C[h] <=> e \in B[h] /\ ~(h = i /\ e = d)
      /\ 0 \in 0 .. n
  OBVIOUS
<1>2. /\ DOMAIN g = DOMAIN f
      /\ \A m \in DOMAIN f : g[m] = IF m = d.number THEN "dispatched" ELSE f[m]
  OBVIOUS
<1>3. d.number \in DOMAIN f /\ f[d.number] = "waiting"
  BY <1>1 DEF Posts, Fated
<1> HIDE DEF C, g
<1>4. Fated(C, g)
  <2>1. \A h \in DOMAIN C : \A e \in C[h] : e.number \in DOMAIN g /\ g[e.number] = "waiting"
    <3> TAKE h \in DOMAIN C
    <3> TAKE e \in C[h]
    <3>1. e \in B[h] /\ ~(h = i /\ e = d) /\ h \in DOMAIN B /\ i \in DOMAIN B
      BY <1>1
    <3>2. e.number \in DOMAIN f /\ f[e.number] = "waiting" /\ e.number # d.number
      BY <3>1 DEF Posts, Fated
    <3> QED BY <1>2, <3>2
  <2>2. \A m \in DOMAIN g : g[m] = "waiting" =>
          \E h \in DOMAIN C : \E e \in C[h] : e.number = m
    <3> TAKE m \in DOMAIN g
    <3> HAVE g[m] = "waiting"
    <3>1. m \in DOMAIN f /\ f[m] = "waiting" /\ m # d.number
      BY <1>2
    <3>2. PICK h \in DOMAIN B : \E e \in B[h] : e.number = m
      BY <3>1 DEF Posts, Fated
    <3>3. PICK e \in B[h] : e.number = m
      BY <3>2
    <3>4. e \in C[h] /\ h \in DOMAIN C
      BY <1>1, <3>1, <3>3
    <3> QED BY <3>3, <3>4
  <2>3. \A h, j \in DOMAIN C : \A e \in C[h], u \in C[j] :
          e.number = u.number => h = j /\ e = u
    BY <1>1 DEF Posts, Fated
  <2> QED BY <2>1, <2>2, <2>3 DEF Fated
<1>5. InOrder(C)
  BY <1>1 DEF Posts, InOrder
<1> QED BY <1>4, <1>5 DEF Posts, C, g

(* A new post joins the queue, with a number and a sequence number beyond   *)
(* all others there.                                                        *)
LEMMA PostsAtPost ==
  ASSUME NEW n \in Nat, NEW B \in [0 .. n -> SUBSET Delivery],
         NEW f \in Seq(Fates), Posts(B, f),
         NEW d \in Delivery, d.number = Len(f) + 1,
         \A e \in B[0] : e.sequence < d.sequence
  PROVE  Posts([B EXCEPT ![0] = @ \cup {d}], Append(f, "waiting"))
<1> DEFINE C == [B EXCEPT ![0] = @ \cup {d}]
           g == Append(f, "waiting")
<1>1. /\ DOMAIN C = 0 .. n /\ DOMAIN B = 0 .. n /\ 0 \in 0 .. n
      /\ C[0] = B[0] \cup {d}
      /\ \A h \in 0 .. n \ {0} : C[h] = B[h]
  OBVIOUS
<1>2. /\ Len(f) \in Nat /\ DOMAIN f = 1 .. Len(f) /\ DOMAIN g = 1 .. Len(f) + 1
      /\ g[Len(f) + 1] = "waiting"
      /\ \A m \in DOMAIN f : g[m] = f[m]
  OBVIOUS
<1>3. \A h \in 0 .. n : \A e \in B[h] :
        /\ e.number \in 1 .. Len(f) /\ f[e.number] = "waiting"
        /\ e.number < d.number /\ d.number < e.number => FALSE
  BY <1>1, <1>2 DEF Posts, Fated
<1> HIDE DEF C, g
<1>4. Fated(C, g)
  <2>1. \A h \in DOMAIN C : \A e \in C[h] : e.number \in DOMAIN g /\ g[e.number] = "waiting"
    BY <1>1, <1>2, <1>3
  <2>2. \A m \in DOMAIN g : g[m] = "waiting" =>
          \E h \in DOMAIN C : \E e \in C[h] : e.number = m
    <3> TAKE m \in DOMAIN g
    <3> HAVE g[m] = "waiting"
    <3>1. CASE m = Len(f) + 1
      BY <1>1, <3>1
    <3>2. CASE m \in DOMAIN f
      <4>1. \E h \in DOMAIN B : \E e \in B[h] : e.number = m
        BY <1>2, <3>2 DEF Posts, Fated
      <4> QED BY <1>1, <4>1
    <3> QED BY <1>2, <3>1, <3>2
  <2>3. \A h, j \in DOMAIN C : \A e \in C[h], u \in C[j] :
          e.number = u.number => h = j /\ e = u
    <3> TAKE h, j \in DOMAIN C
    <3> TAKE e \in C[h], u \in C[j]
    <3> HAVE e.number = u.number
    <3>0. \A i \in 0 .. n : \A x \in C[i] : x \in B[i] \/ (i = 0 /\ x = d)
      BY <1>1
    <3>1. e \in B[h] \/ (h = 0 /\ e = d)
      BY <1>1, <3>0
    <3>2. u \in B[j] \/ (j = 0 /\ u = d)
      BY <1>1, <3>0
    <3>3. d.number \notin 1 .. Len(f)
      BY <1>2
    <3> QED BY <1>1, <1>3, <3>1, <3>2, <3>3 DEF Posts, Fated
  <2> QED BY <2>1, <2>2, <2>3 DEF Fated
<1>5. InOrder(C)
  <2>1. \A h \in DOMAIN C : \A e, u \in C[h] : e.number < u.number => e.sequence < u.sequence
    <3> TAKE h \in DOMAIN C
    <3> TAKE e, u \in C[h]
    <3> HAVE e.number < u.number
    <3>1. CASE e \in B[h] /\ u \in B[h]
      BY <1>1, <3>1 DEF Posts, InOrder
    <3>2. CASE h = 0 /\ e \in B[0] /\ u = d
      BY <3>2
    <3>3. ~(h = 0 /\ e = d)
      BY <1>1, <1>2, <1>3
    <3> QED BY <1>1, <3>1, <3>2, <3>3
  <2>2. \A h \in DOMAIN C \ {0} : \A e \in C[h], u \in C[0] : e.number < u.number
    BY <1>1, <1>2, <1>3 DEF Posts, InOrder
  <2> QED BY <2>1, <2>2 DEF InOrder
<1> QED BY <1>4, <1>5 DEF Posts, C, g

(* The queue is cleared.                                                    *)
LEMMA PostsAtClear ==
  ASSUME NEW n \in Nat, NEW B \in [0 .. n -> SUBSET Delivery],
         NEW f \in Seq(Fates), Posts(B, f)
  PROVE  Posts([B EXCEPT ![0] = {}],
               [m \in DOMAIN f |-> IF \E d \in B[0] : d.number = m THEN "cleared" ELSE f[m]])
<1> DEFINE C == [B EXCEPT ![0] = {}]
           g == [m \in DOMAIN f |-> IF \E d \in B[0] : d.number = m THEN "cleared" ELSE f[m]]
<1>1. /\ DOMAIN C = 0 .. n /\ DOMAIN B = 0 .. n /\ 0 \in 0 .. n
      /\ C[0] = {}
      /\ \A h \in 0 .. n \ {0} : C[h] = B[h]
  OBVIOUS
<1>2. /\ DOMAIN g = DOMAIN f
      /\ \A m \in DOMAIN f : g[m] = IF \E d \in B[0] : d.number = m THEN "cleared" ELSE f[m]
  OBVIOUS
<1> HIDE DEF C, g
<1>3. Fated(C, g)
  <2>1. \A h \in DOMAIN C : \A e \in C[h] : e.number \in DOMAIN g /\ g[e.number] = "waiting"
    <3> TAKE h \in DOMAIN C
    <3> TAKE e \in C[h]
    <3>1. h \in DOMAIN B /\ h # 0 /\ e \in B[h]
      BY <1>1
    <3>2. e.number \in DOMAIN f /\ f[e.number] = "waiting"
      BY <3>1 DEF Posts, Fated
    <3>3. ~\E d \in B[0] : d.number = e.number
      BY <1>1, <3>1 DEF Posts, Fated
    <3> QED BY <1>2, <3>2, <3>3
  <2>2. \A m \in DOMAIN g : g[m] = "waiting" =>
          \E h \in DOMAIN C : \E d \in C[h] : d.number = m
    <3> TAKE m \in DOMAIN g
    <3> HAVE g[m] = "waiting"
    <3>1. m \in DOMAIN f /\ f[m] = "waiting" /\ ~\E d \in B[0] : d.number = m
      BY <1>2
    <3>2. PICK h \in DOMAIN B : \E d \in B[h] : d.number = m
      BY <3>1 DEF Posts, Fated
    <3> QED BY <1>1, <3>1, <3>2
  <2>3. \A h, j \in DOMAIN C : \A e \in C[h], u \in C[j] :
          e.number = u.number => h = j /\ e = u
    BY <1>1 DEF Posts, Fated
  <2> QED BY <2>1, <2>2, <2>3 DEF Fated
<1>4. InOrder(C)
  BY <1>1 DEF Posts, InOrder
<1> QED BY <1>3, <1>4 DEF Posts, C, g

(* --------------------------- what calls leave --------------------------- *)
TypeInv == TypeOK /\ mQueue \subseteq Delivery /\ GoodStack(stack)

Placed == Places(mQueue, stack)

(* Registrations are targets, and so are all those of one message.          *)
LEMMA RegistrationsAreTargets ==
  ASSUME TypeOK
  PROVE  mRegistrations \subseteq Target /\ \A m : Matching(m) \subseteq Target
<1>1. ASSUME NEW g \in mRegistrations PROVE g \in Target
  <2>1. g \in [id : 1 .. MaxRegistrations, message : Messages,
               priority : Priorities, sequence : 1 .. MaxSequence]
    BY DEF TypeOK
  <2>2. g.id \in 1 .. MaxRegistrations /\ g.priority \in Priorities /\ g.sequence \in 1 .. MaxSequence
    BY <2>1
  <2>3. g.id \in Nat /\ g.sequence \in Nat
    BY <2>2
  <2>4. g.priority \in Int
    BY <2>2
  <2> QED BY <2>1, <2>3, <2>4 DEF Target
<1> QED BY <1>1 DEF Matching

(* Each place holds deliveries.                                             *)
LEMMA PlacesHoldDeliveries ==
  ASSUME NEW s, GoodStack(s), NEW q \in SUBSET Delivery
  PROVE  Places(q, s) \in [0 .. Len(s) -> SUBSET Delivery]
<1>1. s \in Seq(Frame) /\ Len(s) \in Nat
  BY DEF GoodStack
<1>2. ASSUME NEW h \in 0 .. Len(s), h # 0 PROVE s[Len(s) + 1 - h].batch \in SUBSET Delivery
  <2>1. Len(s) + 1 - h \in 1 .. Len(s)
    BY <1>1, <1>2
  <2>2. s[Len(s) + 1 - h] \in Frame
    BY <1>1, <2>1
  <2> QED BY <2>2 DEF Frame
<1> QED BY <1>1, <1>2 DEF Places

(* The innermost frame.                                                     *)
LEMMA TopFrame ==
  ASSUME NEW q, TypeInv, stack # <<>>
  PROVE  /\ Top \in Frame /\ Top = stack[1]
         /\ FrameOK(Top, Len(stack))
         /\ Len(stack) \in Nat \ {0}
         /\ Places(q, stack)[Len(stack)] = Top.batch
<1>1. stack \in Seq(Frame) /\ Len(stack) \in Nat \ {0} /\ Top = stack[1] /\ Top \in Frame
  BY DEF TypeInv, GoodStack, Top
<1>2. FrameOK(stack[1], Len(stack) + 1 - 1)
  BY <1>1 DEF TypeInv, GoodStack
<1>3. Places(q, stack)[Len(stack)] = Top.batch
  BY <1>1 DEF Places
<1> QED BY <1>1, <1>2, <1>3

(* A send pushes a dispatch, ...                                            *)
LEMMA StackAtSend ==
  ASSUME TypeInv, NEW targets \in SUBSET Target, send(targets)
  PROVE  /\ GoodStack(stack')
         /\ Placed' = [h \in 0 .. Len(stack) + 1 |-> IF h = Len(stack) + 1 THEN {} ELSE Placed[h]]
<1> DEFINE f == Dispatching(targets)
<1>1. /\ f \in Frame /\ f.batch = {} /\ f.kind = "dispatch"
  BY DEF Dispatching, Frame
<1>2. Len(stack) \in Nat /\ Len(stack) + 2 <= MaxDepth
  BY DEF send, Room, TypeInv, GoodStack
<1>3. FrameOK(f, Len(stack) + 1)
  BY <1>1, <1>2 DEF FrameOK
<1>4. stack' = Above(f, stack) /\ mQueue' = mQueue
  BY DEF send, Push, Above
<1> HIDE DEF f
<1> QED BY <1>1, <1>3, <1>4, Pushed DEF TypeInv, Placed

(* ... a process() a frame with the batch it took, ...                      *)
LEMMA StackAtProcess ==
  ASSUME TypeInv, NEW drain \in BOOLEAN, process(drain)
  PROVE  /\ GoodStack(stack')
         /\ drain => Placed' =
              [h \in 0 .. Len(stack) + 1 |-> IF h = Len(stack) + 1 THEN {} ELSE Placed[h]]
         /\ ~drain => Placed' =
              [h \in 0 .. Len(stack) + 1 |-> IF h = Len(stack) + 1 THEN Placed[0]
                                            ELSE IF h = 0 THEN {} ELSE Placed[h]]
<1> DEFINE f == Processing(drain, IF drain THEN {} ELSE mQueue)
<1>1. /\ f \in Frame /\ f.batch = (IF drain THEN {} ELSE mQueue)
      /\ f.kind \in {"drain", "batch"} /\ f.targets = {}
      /\ f.kind = "drain" => f.batch = {}
  BY DEF Processing, Frame, TypeInv
<1>2. Len(stack) \in Nat /\ Len(stack) + 3 <= MaxDepth
  BY DEF process, Room, TypeInv, GoodStack
<1>3. FrameOK(f, Len(stack) + 1)
  BY <1>1, <1>2 DEF FrameOK
<1>4. stack' = Above(f, stack) /\ mQueue' = IF drain THEN mQueue ELSE {}
  BY DEF process, Push, Above
<1> HIDE DEF f
<1>5. /\ GoodStack(stack')
      /\ \A q : Places(q, stack') =
           [h \in 0 .. Len(stack) + 1 |-> IF h = Len(stack) + 1 THEN f.batch ELSE Places(q, stack)[h]]
  BY <1>1, <1>3, <1>4, Pushed DEF TypeInv
<1>6. /\ Placed[0] = mQueue
      /\ \A h \in 0 .. Len(stack) : Placed[h] = IF h = 0 THEN mQueue
                                                ELSE stack[Len(stack) + 1 - h].batch
      /\ \A h \in 0 .. Len(stack) : Places({}, stack)[h] = IF h = 0 THEN {}
                                                ELSE stack[Len(stack) + 1 - h].batch
      /\ \A h \in 0 .. Len(stack) + 1 : h = Len(stack) + 1 \/ h \in 0 .. Len(stack)
      /\ 0 # Len(stack) + 1
  BY <1>2 DEF Placed, Places
<1>7. ASSUME drain
      PROVE  Placed' = [h \in 0 .. Len(stack) + 1 |-> IF h = Len(stack) + 1 THEN {} ELSE Placed[h]]
  BY <1>1, <1>4, <1>5, <1>7 DEF Placed
<1>8. ASSUME ~drain
      PROVE  Placed' = [h \in 0 .. Len(stack) + 1 |-> IF h = Len(stack) + 1 THEN Placed[0]
                                                     ELSE IF h = 0 THEN {} ELSE Placed[h]]
  <2>1. Placed' = Places({}, stack')
    BY <1>4, <1>8 DEF Placed
  <2>2. Placed' = [h \in 0 .. Len(stack) + 1 |->
                     IF h = Len(stack) + 1 THEN mQueue ELSE Places({}, stack)[h]]
    BY <1>1, <1>5, <1>8, <2>1
  <2>3. \A h \in 0 .. Len(stack) + 1 :
          (IF h = Len(stack) + 1 THEN mQueue ELSE Places({}, stack)[h])
            = IF h = Len(stack) + 1 THEN Placed[0] ELSE IF h = 0 THEN {} ELSE Placed[h]
    BY <1>6
  <2> QED BY ONLY <2>2, <2>3
<1> QED BY <1>5, <1>7, <1>8

(* ... a delivery that is taken a dispatch above the process() it leaves,   *)
(* which had taken it from the queue or has it in its batch, ...            *)
LEMMA StackAtDelivery ==
  ASSUME TypeInv, NEW d \in Waiting, dispatchQueued(d)
  PROVE  LET i == IF Top.kind = "drain" THEN 0 ELSE Len(stack)
             B == [Placed EXCEPT ![i] = @ \ {d}]
         IN  /\ GoodStack(stack')
             /\ i \in 0 .. Len(stack) /\ Placed[i] = Waiting
             /\ Placed' = [h \in 0 .. Len(stack) + 1 |-> IF h = Len(stack) + 1 THEN {} ELSE B[h]]
<1> DEFINE top == [Top EXCEPT !.batch = @ \ {d}]
           i   == IF Top.kind = "drain" THEN 0 ELSE Len(stack)
           B   == [Placed EXCEPT ![i] = @ \ {d}]
           to  == IF d.to # {} THEN d.to ELSE Matching(d.message)
           f   == Dispatching(to)
           u   == Swap(top, stack)
<1>1. /\ stack # <<>> /\ Top.kind \in {"drain", "batch"}
      /\ mQueue' = IF Top.kind = "drain" THEN mQueue \ {d} ELSE mQueue
      /\ stack' = Above(f, u)
  BY DEF dispatchQueued, Above
<1>2. /\ Top \in Frame /\ FrameOK(Top, Len(stack)) /\ Len(stack) \in Nat \ {0}
      /\ \A q : Places(q, stack)[Len(stack)] = Top.batch
  BY <1>1, TopFrame
<1>3. /\ top \in Frame /\ top.kind = Top.kind /\ top.targets = Top.targets
      /\ top.batch = Top.batch \ {d}
  BY <1>2 DEF Frame
<1>4. FrameOK(top, Len(stack))
  BY <1>2, <1>3 DEF FrameOK
<1>5. Waiting \subseteq Delivery
  BY <1>2 DEF Waiting, TypeInv, Frame
<1>6. to \in SUBSET Target
  BY <1>5, RegistrationsAreTargets DEF Delivery, TypeInv
<1>7. /\ f \in Frame /\ f.batch = {} /\ f.kind = "dispatch"
  BY <1>6 DEF Dispatching, Frame
<1> HIDE DEF top, f, to, u
<1>8. FrameOK(f, Len(stack) + 1)
  BY <1>1, <1>2, <1>7 DEF FrameOK
<1>9. /\ GoodStack(u) /\ Len(u) = Len(stack)
      /\ \A q : Places(q, u) = [Places(q, stack) EXCEPT ![Len(stack)] = top.batch]
  BY <1>1, <1>3, <1>4, Swapped DEF TypeInv, u
<1>10. /\ GoodStack(stack')
       /\ \A q : Places(q, stack') =
            [h \in 0 .. Len(stack) + 1 |-> IF h = Len(stack) + 1 THEN {} ELSE Places(q, u)[h]]
  BY <1>1, <1>7, <1>8, <1>9, Pushed
<1>11. i \in 0 .. Len(stack) /\ Placed[i] = Waiting
  <2>1. CASE Top.kind = "drain"
    BY <1>2, <2>1 DEF Placed, Places, Waiting
  <2>2. CASE Top.kind # "drain"
    BY <1>2, <2>2 DEF Placed, Waiting
  <2> QED BY <2>1, <2>2
<1>12. ASSUME NEW h \in 0 .. Len(stack) PROVE Places(mQueue', u)[h] = B[h]
  <2>1. \A q : /\ DOMAIN Places(q, stack) = 0 .. Len(stack)
               /\ Places(q, stack)[h] = IF h = 0 THEN q ELSE stack[Len(stack) + 1 - h].batch
    BY DEF Places
  <2>2. Places(mQueue', u)[h] = IF h = Len(stack) THEN Top.batch \ {d} ELSE Places(mQueue', stack)[h]
    BY <1>2, <1>3, <1>9, <2>1
  <2>3. B[h] = IF h = i THEN Placed[h] \ {d} ELSE Placed[h]
    BY <1>11, <2>1 DEF Placed
  <2>4. CASE Top.kind = "drain"
    <3>1. Top.batch = {} /\ i = 0 /\ mQueue' = mQueue \ {d}
      BY <1>1, <1>2, <2>4 DEF FrameOK
    <3>2. CASE h = Len(stack)
      BY <1>2, <2>1, <2>2, <2>3, <3>1, <3>2 DEF Placed
    <3>3. CASE h # Len(stack)
      BY <1>2, <2>1, <2>2, <2>3, <3>1, <3>3 DEF Placed
    <3> QED BY <3>2, <3>3
  <2>5. CASE Top.kind # "drain"
    <3>1. i = Len(stack) /\ mQueue' = mQueue
      BY <1>1, <2>5
    <3> QED BY <1>2, <2>1, <2>2, <2>3, <3>1 DEF Placed
  <2> QED BY <2>4, <2>5
<1>13. \A h \in 0 .. Len(stack) + 1 : h = Len(stack) + 1 \/ h \in 0 .. Len(stack)
  BY <1>2
<1> HIDE DEF i, B
<1>14. Placed' = [h \in 0 .. Len(stack) + 1 |-> IF h = Len(stack) + 1 THEN {} ELSE B[h]]
  BY <1>10, <1>12, <1>13 DEF Placed
<1> QED BY <1>10, <1>11, <1>14 DEF i, B

(* ... a registration that is called a callback above its dispatch, ...     *)
LEMMA StackAtCallback ==
  ASSUME TypeInv, NEW g, dispatchRegistration(g)
  PROVE  /\ GoodStack(stack')
         /\ Placed' = [h \in 0 .. Len(stack) + 1 |-> IF h = Len(stack) + 1 THEN {} ELSE Placed[h]]
<1> DEFINE top == [Top EXCEPT !.targets = @ \ {g}]
           u   == Swap(top, stack)
<1>1. /\ stack # <<>> /\ g \in Top.targets /\ mQueue' = mQueue
      /\ stack' = Above(Callback, u)
  BY DEF dispatchRegistration, Above
<1>2. /\ Top \in Frame /\ FrameOK(Top, Len(stack)) /\ Len(stack) \in Nat \ {0}
      /\ Placed[Len(stack)] = Top.batch
  BY <1>1, TopFrame DEF Placed
<1>3. /\ top \in Frame /\ top.kind = Top.kind /\ top.batch = Top.batch
  BY <1>2 DEF Frame
<1>4. Top.kind = "dispatch"
  BY <1>1, <1>2 DEF FrameOK
<1>5. FrameOK(top, Len(stack))
  BY <1>2, <1>3, <1>4 DEF FrameOK
<1>6. /\ Callback \in Frame /\ Callback.batch = {} /\ Callback.kind = "callback"
      /\ Callback.targets = {}
  BY DEF Callback, Frame
<1>7. FrameOK(Callback, Len(stack) + 1)
  BY <1>2, <1>4, <1>6 DEF FrameOK
<1> HIDE DEF top, u
<1>8. /\ GoodStack(u) /\ Len(u) = Len(stack)
      /\ Places(mQueue, u) = [Placed EXCEPT ![Len(stack)] = top.batch]
  BY <1>1, <1>3, <1>5, Swapped DEF TypeInv, u, Placed
<1>9. Places(mQueue, u) = Placed
  <2>1. DOMAIN Placed = 0 .. Len(stack) /\ Placed = [h \in DOMAIN Placed |-> Placed[h]]
    BY DEF Placed, Places
  <2>2. [Placed EXCEPT ![Len(stack)] = top.batch] = [h \in DOMAIN Placed |-> Placed[h]]
    BY <1>2, <1>3
  <2> QED BY <1>8, <2>1, <2>2
<1> QED BY <1>1, <1>6, <1>7, <1>8, <1>9, Pushed DEF Placed

(* ... and a return pops a frame whose batch is empty.                      *)
LEMMA StackAtReturn ==
  ASSUME TypeInv, Return
  PROVE  /\ GoodStack(stack')
         /\ Len(stack) \in Nat \ {0} /\ Placed[Len(stack)] = {}
         /\ Placed' = [h \in 0 .. Len(stack) - 1 |-> Placed[h]]
<1>1. stack # <<>> /\ stack' = Tail(stack) /\ mQueue' = mQueue
  BY DEF Return
<1>2. /\ Top \in Frame /\ FrameOK(Top, Len(stack)) /\ Len(stack) \in Nat \ {0}
      /\ Placed[Len(stack)] = Top.batch
  BY <1>1, TopFrame DEF Placed
<1>3. Top.batch = {}
  BY <1>2 DEF Return, Waiting, FrameOK
<1> QED BY <1>1, <1>2, <1>3, Popped DEF TypeInv, Placed

(* ------------------------------- types ---------------------------------- *)
(* A good stack is within the bound.                                        *)
LEMMA DepthIsBounded ==
  ASSUME NEW s, GoodStack(s)
  PROVE  Len(s) <= MaxDepth
<1>1. s \in Seq(Frame) /\ Len(s) \in Nat
  BY DEF GoodStack
<1>2. CASE Len(s) = 0
  BY <1>1, <1>2
<1>3. CASE Len(s) # 0
  <2>1. FrameOK(s[1], Len(s) + 1 - 1) /\ Len(s) + 1 - 1 = Len(s)
    BY <1>1, <1>3 DEF GoodStack
  <2> QED BY <2>1 DEF FrameOK
<1> QED BY <1>2, <1>3

(* A step that only moves or drops what there is keeps the types.           *)
LEMMA TypesKept ==
  ASSUME TypeInv, GoodStack(stack'), mQueue' \subseteq mQueue,
         fate' \in Seq(Fates), DOMAIN fate' = DOMAIN fate,
         UNCHANGED <<mRegistrations, mNextRegistration, mNextSequence>>
  PROVE  TypeInv'
<1>1. Len(stack') <= MaxDepth
  BY DepthIsBounded
<1>2. \A d \in mQueue' : /\ d.message \in Messages /\ d.orderKey \in OrderKeys
                         /\ d.sequence \in 1 .. mNextSequence' - 1
                         /\ d.number \in DOMAIN fate'
  BY DEF TypeInv, TypeOK
<1>3. fate' \in Seq({"waiting", "dispatched", "cleared"})
  BY DEF Fates
<1> QED BY <1>1, <1>2, <1>3 DEF TypeInv, TypeOK

(* A post is an enqueue of one record, for some targets.                    *)
LEMMA PostIsEnqueue ==
  ASSUME TypeOK, NEW m \in Messages, NEW key \in OrderKeys, post(m, key)
  PROVE  \E to \in SUBSET Target : enqueue(m, key, to)
<1>1. Function(m) \in Target
  BY DEF Function, Target
<1>2. Matching(m) \subseteq Target
  BY RegistrationsAreTargets
<1>3. {} \in SUBSET Target /\ {Function(m)} \in SUBSET Target
  BY <1>1
<1>4. \A g \in Matching(m) : {g} \in SUBSET Target
  BY <1>2
<1> QED BY <1>3, <1>4 DEF post

(* Marking posts as cleared keeps the history's type.                       *)
LEMMA ClearedHistory ==
  ASSUME TypeInv, NEW q
  PROVE  Cleared(q) \in Seq(Fates) /\ DOMAIN Cleared(q) = DOMAIN fate
<1>1. fate \in Seq(Fates) /\ DOMAIN fate = 1 .. Len(fate) /\ Len(fate) \in Nat
  BY DEF TypeInv, TypeOK, Fates
<1>2. \A n \in 1 .. Len(fate) :
        (IF \E d \in q : d.number = n THEN "cleared" ELSE fate[n]) \in Fates
  BY <1>1 DEF Fates
<1>3. Cleared(q) = [n \in 1 .. Len(fate) |->
                      IF \E d \in q : d.number = n THEN "cleared" ELSE fate[n]]
  BY <1>1 DEF Cleared
<1> QED BY <1>1, <1>2, <1>3

(* Every call keeps the types.                                              *)
LEMMA TypesNext == TypeInv /\ [Next]_vars => TypeInv'
<1> SUFFICES ASSUME TypeInv, [Next]_vars PROVE TypeInv'
  OBVIOUS
<1> DEFINE Registration == [id : 1 .. MaxRegistrations, message : Messages,
                            priority : Priorities, sequence : 1 .. MaxSequence]
<1>0. /\ mNextRegistration \in 1 .. MaxRegistrations + 1
      /\ mNextSequence \in 1 .. MaxSequence + 1
      /\ mRegistrations \subseteq Registration
      /\ fate \in Seq(Fates) /\ Len(fate) \in Nat /\ DOMAIN fate = 1 .. Len(fate)
      /\ \A d \in mQueue : /\ d.message \in Messages /\ d.orderKey \in OrderKeys
                           /\ d.sequence \in 1 .. mNextSequence - 1
                           /\ d.number \in DOMAIN fate
      /\ Len(stack) <= MaxDepth
      /\ mQueue \subseteq Delivery /\ GoodStack(stack)
      /\ MaxRegistrations \in Nat /\ MaxSequence \in Nat
  BY DEF TypeInv, TypeOK, Fates
<1>1. ASSUME NEW m \in Messages, NEW p \in Priorities, registerListener(m, p)
      PROVE  TypeInv'
  <2>1. /\ mNextRegistration' = mNextRegistration + 1
        /\ mNextRegistration <= MaxRegistrations
        /\ mNextSequence' = mNextSequence + 1
        /\ mNextSequence <= MaxSequence
        /\ UNCHANGED <<mQueue, stack, fate>>
    BY <1>1 DEF registerListener
  <2>2. mNextRegistration \in 1 .. MaxRegistrations /\ mNextSequence \in 1 .. MaxSequence
    BY <1>0, <2>1
  <2>3. mRegistrations' \subseteq Registration
    BY <1>0, <1>1, <2>2 DEF registerListener
  <2>4. /\ mNextRegistration' \in 1 .. MaxRegistrations + 1
        /\ mNextSequence' \in 1 .. MaxSequence + 1
    BY <1>0, <2>1, <2>2
  <2>5. \A d \in mQueue : d.sequence \in 1 .. mNextSequence' - 1
    BY <1>0, <2>1
  <2> QED BY <1>0, <2>1, <2>3, <2>4, <2>5 DEF TypeInv, TypeOK, Fates
<1>2. ASSUME NEW g \in mRegistrations, unregister(g) PROVE TypeInv'
  BY <1>0, <1>2 DEF unregister, TypeInv, TypeOK, Fates
<1>3. ASSUME NEW targets \in SUBSET Target, send(targets) PROVE TypeInv'
  BY <1>0, <1>3, TypesKept, StackAtSend DEF send
<1>4. ASSUME NEW m \in Messages, NEW key \in OrderKeys, NEW to \in SUBSET Target,
             enqueue(m, key, to)
      PROVE  TypeInv'
  <2> DEFINE d == [message |-> m, orderKey |-> key, sequence |-> mNextSequence, to |-> to,
                   number |-> Len(fate) + 1]
  <2>1. /\ mQueue' = mQueue \cup {d} /\ fate' = Append(fate, "waiting")
        /\ mNextSequence' = mNextSequence + 1 /\ mNextSequence <= MaxSequence
        /\ UNCHANGED <<mRegistrations, mNextRegistration, stack>>
    BY <1>4 DEF enqueue
  <2>2. d \in Delivery
    BY <1>0 DEF Delivery
  <2>3. /\ d.message \in Messages /\ d.orderKey \in OrderKeys
        /\ d.sequence = mNextSequence /\ d.number = Len(fate) + 1
    OBVIOUS
  <2>4. "waiting" \in Fates
    BY DEF Fates
  <2>5. /\ fate' \in Seq(Fates) /\ DOMAIN fate' = 1 .. Len(fate) + 1
    BY <1>0, <2>1, <2>4
  <2> HIDE DEF d
  <2>6. \A e \in mQueue' : /\ e.message \in Messages /\ e.orderKey \in OrderKeys
                           /\ e.sequence \in 1 .. mNextSequence' - 1
                           /\ e.number \in DOMAIN fate'
    <3>1. \A e \in mQueue : /\ e.message \in Messages /\ e.orderKey \in OrderKeys
                            /\ e.sequence \in 1 .. mNextSequence' - 1
                            /\ e.number \in DOMAIN fate'
      BY <1>0, <2>1, <2>5
    <3>2. /\ d.sequence \in 1 .. mNextSequence' - 1
          /\ d.number \in DOMAIN fate'
      BY <1>0, <2>1, <2>3, <2>5
    <3> QED BY <2>1, <2>3, <3>1, <3>2
  <2>7. mNextSequence' \in 1 .. MaxSequence + 1
    BY <1>0, <2>1
  <2> QED BY <1>0, <2>1, <2>2, <2>5, <2>6, <2>7 DEF TypeInv, TypeOK, Fates
<1>5. ASSUME NEW g \in mRegistrations, NEW m \in Messages, postRejected(g, m)
      PROVE  TypeInv'
  <2>1. /\ mNextSequence' = mNextSequence + 1 /\ mNextSequence <= MaxSequence
        /\ UNCHANGED <<mRegistrations, mQueue, mNextRegistration, stack, fate>>
    BY <1>5 DEF postRejected
  <2>2. mNextSequence' \in 1 .. MaxSequence + 1
    BY <1>0, <2>1
  <2>3. \A d \in mQueue : d.sequence \in 1 .. mNextSequence' - 1
    BY <1>0, <2>1
  <2> QED BY <1>0, <2>1, <2>2, <2>3 DEF TypeInv, TypeOK, Fates
<1>6. ASSUME NEW drain \in BOOLEAN, process(drain) PROVE TypeInv'
  BY <1>0, <1>6, TypesKept, StackAtProcess DEF process
<1>7. ASSUME NEW d \in Waiting, dispatchQueued(d) PROVE TypeInv'
  <2>1. fate' \in Seq(Fates) /\ DOMAIN fate' = DOMAIN fate
    <3>1. fate' = [n \in 1 .. Len(fate) |-> IF n = d.number THEN "dispatched" ELSE fate[n]]
      BY <1>0, <1>7 DEF dispatchQueued
    <3>2. \A n \in 1 .. Len(fate) :
            (IF n = d.number THEN "dispatched" ELSE fate[n]) \in Fates
      BY <1>0 DEF Fates
    <3> QED BY <1>0, <3>1, <3>2
  <2>2. GoodStack(stack')
    BY <1>7, StackAtDelivery
  <2> QED BY <1>7, <2>1, <2>2, TypesKept DEF dispatchQueued
<1>8. ASSUME NEW g \in Top.targets, dispatchRegistration(g) PROVE TypeInv'
  BY <1>0, <1>8, TypesKept, StackAtCallback DEF dispatchRegistration
<1>9. CASE Return
  BY <1>0, <1>9, TypesKept, StackAtReturn DEF Return
<1>10. CASE clearQueue
  BY <1>0, <1>10, TypesKept, ClearedHistory DEF clearQueue
<1>11. CASE dispose
  <2>1. /\ mQueue' = {} /\ mRegistrations' = {} /\ mNextRegistration' = 1 /\ mNextSequence' = 1
        /\ fate' \in Seq(Fates) /\ stack' = stack
    BY <1>11, ClearedHistory DEF dispose
  <2> QED BY <1>0, <2>1 DEF TypeInv, TypeOK, Fates
<1>12. CASE UNCHANGED vars
  BY <1>12 DEF vars, TypeInv, TypeOK
<1>13. /\ \A m \in Messages : send(Matching(m)) => TypeInv'
       /\ \A g \in mRegistrations : send({g}) => TypeInv'
       /\ \A m \in Messages, key \in OrderKeys : post(m, key) => TypeInv'
  <2>1. /\ \A m \in Messages : Matching(m) \in SUBSET Target
        /\ \A g \in mRegistrations : {g} \in SUBSET Target
        /\ TypeOK
    BY RegistrationsAreTargets DEF TypeInv
  <2> QED BY <1>3, <1>4, <2>1, PostIsEnqueue
<1> QED BY <1>1, <1>2, <1>5, <1>6, <1>7, <1>8, <1>9, <1>10, <1>11, <1>12, <1>13 DEF Next

(* Every reachable state is well typed.                                     *)
LEMMA TypesAlways == Spec => []TypeInv
<1>1. Init => TypeInv
  <2> SUFFICES ASSUME Init PROVE TypeInv
    OBVIOUS
  <2>1. stack = <<>> /\ fate = <<>> /\ mQueue = {} /\ mRegistrations = {}
    BY DEF Init
  <2>2. <<>> \in Seq(Frame) /\ <<>> \in Seq(Fates) /\ Len(<<>>) = 0
    OBVIOUS
  <2>3. GoodStack(stack)
    BY <2>1, <2>2 DEF GoodStack
  <2>4. 1 \in 1 .. MaxRegistrations + 1 /\ 1 \in 1 .. MaxSequence + 1 /\ 0 <= MaxDepth
    OBVIOUS
  <2> QED BY <2>1, <2>2, <2>3, <2>4 DEF Init, TypeInv, TypeOK, Fates
<1> QED BY <1>1, TypesNext, PTL DEF Spec

(* The state stays within its types and its bounds, the stack included, and *)
(* a waiting post has a number that was given out (MessageManager.cpp:280). *)
THEOREM TypeCorrect == Spec => []TypeOK
<1>1. TypeInv => TypeOK
  BY DEF TypeInv
<1> QED BY <1>1, TypesAlways, PTL

(* -------------------------------- ids ----------------------------------- *)
(* Ids given out since the last dispose() are below the next one.           *)
IdsInv ==
  /\ \A g \in mRegistrations : g.id < mNextRegistration
  /\ IdsAreUnique

(* Every call keeps this.                                                   *)
LEMMA IdsNext == TypeInv /\ IdsInv /\ [Next]_vars => IdsInv'
<1> SUFFICES ASSUME TypeInv, IdsInv, [Next]_vars PROVE IdsInv'
  OBVIOUS
<1>0. /\ mNextRegistration \in Nat
      /\ \A g \in mRegistrations : g.id \in Nat
  BY DEF TypeInv, TypeOK
<1>1. ASSUME NEW m \in Messages, NEW p \in Priorities, registerListener(m, p)
      PROVE  IdsInv'
  <2>1. PICK new : new.id = mNextRegistration /\ mRegistrations' = mRegistrations \cup {new}
    BY <1>1 DEF registerListener
  <2>2. mNextRegistration' = mNextRegistration + 1
    BY <1>1 DEF registerListener
  <2>3. \A g \in mRegistrations : g.id < mNextRegistration /\ g.id # new.id
    BY <1>0, <2>1 DEF IdsInv
  <2>4. \A g \in mRegistrations' : g.id < mNextRegistration'
    BY <1>0, <2>1, <2>2, <2>3
  <2>5. IdsAreUnique'
    BY <2>1, <2>3 DEF IdsInv, IdsAreUnique
  <2> QED BY <2>4, <2>5 DEF IdsInv
<1>2. CASE mRegistrations' \subseteq mRegistrations /\ mNextRegistration' = mNextRegistration
  BY <1>2 DEF IdsInv, IdsAreUnique
<1>3. CASE dispose
  BY <1>3 DEF dispose, IdsInv, IdsAreUnique
<1>4. \/ UNCHANGED vars
      \/ \E m \in Messages, p \in Priorities : registerListener(m, p)
      \/ mRegistrations' \subseteq mRegistrations /\ mNextRegistration' = mNextRegistration
      \/ dispose
  BY DEF Next, unregister, send, post, enqueue, postRejected, process, dispatchQueued,
         dispatchRegistration, Return, clearQueue
<1>5. UNCHANGED vars => mRegistrations' = mRegistrations /\ mNextRegistration' = mNextRegistration
  BY DEF vars
<1> QED BY <1>1, <1>2, <1>3, <1>4, <1>5

(* Two registrations never share an id, for any number of messages,         *)
(* registrations and nested calls: an unregister removes the one it names   *)
(* (MessageManager.cpp:8, 280).                                             *)
THEOREM IdsNameOneRegistration == Spec => []IdsAreUnique
<1>1. Init => IdsInv
  BY DEF Init, IdsInv, IdsAreUnique
<1>2. IdsInv => IdsAreUnique
  BY DEF IdsInv
<1> QED BY <1>1, <1>2, IdsNext, TypesAlways, PTL DEF Spec

(* ------------------------------- fates ---------------------------------- *)
PostsInv == Posts(Placed, fate)

(* Every call leaves each waiting post in one place, in order.              *)
LEMMA PostsNext == TypeInv /\ PostsInv /\ [Next]_vars => PostsInv'
<1> SUFFICES ASSUME TypeInv, PostsInv, [Next]_vars PROVE PostsInv'
  OBVIOUS
<1> DEFINE n == Len(stack)
<1>0. /\ n \in Nat /\ fate \in Seq(Fates)
      /\ Placed \in [0 .. n -> SUBSET Delivery] /\ Placed[0] = mQueue
      /\ Posts(Placed, fate)
  <2>1. stack \in Seq(Frame) /\ GoodStack(stack) /\ mQueue \in SUBSET Delivery
    BY DEF TypeInv, GoodStack
  <2>2. Placed \in [0 .. n -> SUBSET Delivery]
    BY <2>1, PlacesHoldDeliveries DEF Placed
  <2> QED BY <2>1, <2>2 DEF TypeInv, TypeOK, Fates, PostsInv, Placed, Places
<1> HIDE DEF n
<1>1. CASE UNCHANGED <<mQueue, stack, fate>>
  <2>1. Placed' = Placed
    BY <1>1 DEF Placed, Places
  <2> QED BY <1>1, <2>1 DEF PostsInv
<1>2. CASE /\ Placed' = [h \in 0 .. n + 1 |-> IF h = n + 1 THEN {} ELSE Placed[h]]
           /\ fate' = fate
  BY <1>0, <1>2, PostsAtCall DEF PostsInv
<1>3. ASSUME NEW m \in Messages, NEW key \in OrderKeys, NEW to \in SUBSET Target,
             enqueue(m, key, to)
      PROVE  PostsInv'
  <2> DEFINE d == [message |-> m, orderKey |-> key, sequence |-> mNextSequence, to |-> to,
                   number |-> Len(fate) + 1]
  <2>1. /\ mQueue' = mQueue \cup {d} /\ fate' = Append(fate, "waiting") /\ stack' = stack
    BY <1>3 DEF enqueue
  <2>2. mNextSequence \in Nat /\ Len(fate) \in Nat
    BY <1>0 DEF TypeInv, TypeOK
  <2>3. d \in Delivery /\ d.number = Len(fate) + 1 /\ d.sequence = mNextSequence
    BY <2>2 DEF Delivery
  <2> HIDE DEF d
  <2>4. \A e \in Placed[0] : e.sequence < d.sequence
    BY <1>0, <2>2, <2>3 DEF TypeInv, TypeOK
  <2>5. Placed' = [Placed EXCEPT ![0] = @ \cup {d}]
    <3>1. Placed' = [h \in 0 .. n |-> IF h = 0 THEN mQueue \cup {d} ELSE Placed[h]]
      BY <2>1 DEF Placed, Places, n
    <3> QED BY <1>0, <3>1
  <2> QED BY <1>0, <2>1, <2>3, <2>4, <2>5, PostsAtPost DEF PostsInv
<1>4. ASSUME NEW drain \in BOOLEAN, process(drain) PROVE PostsInv'
  <2>1. fate' = fate
    BY <1>4 DEF process
  <2>2. CASE drain
    BY <1>2, <1>4, <2>1, <2>2, StackAtProcess DEF n
  <2>3. CASE ~drain
    <3>1. Placed' = [h \in 0 .. n + 1 |-> IF h = n + 1 THEN Placed[0]
                                         ELSE IF h = 0 THEN {} ELSE Placed[h]]
      BY <1>4, <2>3, StackAtProcess DEF n
    <3> QED BY <1>0, <2>1, <3>1, PostsAtProcess DEF PostsInv
  <2> QED BY <2>2, <2>3
<1>5. ASSUME NEW d \in Waiting, dispatchQueued(d) PROVE PostsInv'
  <2> DEFINE i == IF Top.kind = "drain" THEN 0 ELSE n
             B == [Placed EXCEPT ![i] = @ \ {d}]
             g == [fate EXCEPT ![d.number] = "dispatched"]
  <2>1. /\ i \in 0 .. n /\ d \in Placed[i]
        /\ Placed' = [h \in 0 .. n + 1 |-> IF h = n + 1 THEN {} ELSE B[h]]
        /\ fate' = g
    BY <1>5, StackAtDelivery DEF dispatchQueued, n
  <2> HIDE DEF i
  <2>2. Posts(B, g)
    BY <1>0, <2>1, PostsAtDispatch
  <2>3. B \in [0 .. n -> SUBSET Delivery]
    BY <1>0, <2>1
  <2>4. g \in Seq(Fates)
    <3>1. fate' \in Seq(Fates)
      BY <1>5, TypesNext DEF TypeInv, TypeOK, Fates, Next, dispatchQueued
    <3> QED BY <2>1, <3>1
  <2> HIDE DEF B, g
  <2> QED BY <1>0, <2>1, <2>2, <2>3, <2>4, PostsAtCall DEF PostsInv
<1>6. CASE Return
  <2>1. /\ n \in Nat \ {0} /\ Placed[n] = {} /\ fate' = fate
        /\ Placed' = [h \in 0 .. n - 1 |-> Placed[h]]
    BY <1>6, StackAtReturn DEF Return, n
  <2> QED BY <1>0, <2>1, PostsAtReturn DEF PostsInv
<1>7. CASE mQueue' = {} /\ stack' = stack /\ fate' = Cleared(mQueue)
  <2>1. Placed' = [Placed EXCEPT ![0] = {}]
    <3>1. Placed' = [h \in 0 .. n |-> IF h = 0 THEN {} ELSE Placed[h]]
      BY <1>7 DEF Placed, Places, n
    <3> QED BY <1>0, <3>1
  <2>2. fate' = [m \in DOMAIN fate |-> IF \E d \in Placed[0] : d.number = m
                                       THEN "cleared" ELSE fate[m]]
    BY <1>0, <1>7 DEF Cleared
  <2> QED BY <1>0, <2>1, <2>2, PostsAtClear DEF PostsInv
<1>8. ASSUME NEW targets \in SUBSET Target, send(targets) PROVE PostsInv'
  <2>1. fate' = fate
    BY <1>8 DEF send
  <2> QED BY <1>2, <1>8, <2>1, StackAtSend DEF n
<1>9. ASSUME NEW g, dispatchRegistration(g) PROVE PostsInv'
  <2>1. fate' = fate
    BY <1>9 DEF dispatchRegistration
  <2> QED BY <1>2, <1>9, <2>1, StackAtCallback DEF n
<1>10. /\ \A m \in Messages : send(Matching(m)) => PostsInv'
       /\ \A g \in mRegistrations : send({g}) => PostsInv'
       /\ \A m \in Messages, key \in OrderKeys : post(m, key) => PostsInv'
  <2>1. /\ \A m \in Messages : Matching(m) \in SUBSET Target
        /\ \A g \in mRegistrations : {g} \in SUBSET Target
        /\ TypeOK
    BY RegistrationsAreTargets DEF TypeInv
  <2> QED BY <1>3, <1>8, <2>1, PostIsEnqueue
<1>11. ASSUME \/ \E m \in Messages, p \in Priorities : registerListener(m, p)
              \/ \E g \in mRegistrations : unregister(g)
              \/ \E g \in mRegistrations, m \in Messages : postRejected(g, m)
              \/ UNCHANGED vars
       PROVE  PostsInv'
  BY <1>1, <1>11 DEF registerListener, unregister, postRejected, vars
<1>12. ASSUME clearQueue \/ dispose PROVE PostsInv'
  BY <1>7, <1>12 DEF clearQueue, dispose
<1> QED BY <1>4, <1>5, <1>6, <1>9, <1>10, <1>11, <1>12 DEF Next

(* Each waiting post is in one place in order, in every reachable state.    *)
LEMMA PostsAlways == Spec => []PostsInv
<1>1. Init => PostsInv
  <2> SUFFICES ASSUME Init PROVE PostsInv
    OBVIOUS
  <2>1. stack = <<>> /\ fate = <<>> /\ mQueue = {} /\ Len(<<>>) = 0 /\ DOMAIN fate = {}
    BY DEF Init
  <2>2. DOMAIN Placed = {0} /\ Placed[0] = {}
    BY <2>1 DEF Placed, Places
  <2> QED BY <2>1, <2>2 DEF PostsInv, Posts, Fated, InOrder
<1> QED BY <1>1, PostsNext, TypesAlways, PTL DEF Spec

(* What is in the queue or a batch is in the place of that depth.           *)
LEMMA PlaceOf ==
  ASSUME TypeInv
  PROVE  /\ Len(stack) \in Nat /\ DOMAIN stack = 1 .. Len(stack)
         /\ DOMAIN Placed = 0 .. Len(stack) /\ Placed[0] = mQueue
         /\ \A k \in DOMAIN stack : /\ Len(stack) + 1 - k \in 1 .. Len(stack)
                                    /\ Placed[Len(stack) + 1 - k] = stack[k].batch
<1>1. stack \in Seq(Frame) /\ Len(stack) \in Nat /\ DOMAIN stack = 1 .. Len(stack)
  BY DEF TypeInv, GoodStack
<1>2. DOMAIN Placed = 0 .. Len(stack) /\ Placed[0] = mQueue
  BY <1>1 DEF Placed, Places
<1>3. ASSUME NEW k \in DOMAIN stack
      PROVE  /\ Len(stack) + 1 - k \in 1 .. Len(stack)
             /\ Placed[Len(stack) + 1 - k] = stack[k].batch
  <2>1. /\ Len(stack) + 1 - k \in 1 .. Len(stack)
        /\ Len(stack) + 1 - (Len(stack) + 1 - k) = k
    BY <1>1
  <2> QED BY <1>1, <2>1 DEF Placed, Places
<1> QED BY <1>1, <1>2, <1>3

(* A post is in one place while it waits, the queue or one batch of one     *)
(* call, and in none after it was dispatched or cleared: for any nesting of *)
(* callbacks none is dispatched twice and none is lost                      *)
(* (MessageManager.cpp:255, 268).                                           *)
THEOREM PostsHaveOneFate == Spec => []EveryPostHasOneFate
<1>1. TypeInv /\ PostsInv => EveryPostHasOneFate
  <2> SUFFICES ASSUME TypeInv, PostsInv, NEW n \in DOMAIN fate
               PROVE  Cardinality({k \in DOMAIN stack : InBatch(n, k)})
                        + Cardinality({d \in mQueue : d.number = n})
                      = IF fate[n] = "waiting" THEN 1 ELSE 0
    BY DEF EveryPostHasOneFate
  <2> DEFINE K == {k \in DOMAIN stack : InBatch(n, k)}
             Q == {d \in mQueue : d.number = n}
  <2> SUFFICES Cardinality(K) + Cardinality(Q) = IF fate[n] = "waiting" THEN 1 ELSE 0
    OBVIOUS
  <2>1. /\ Fated(Placed, fate)
        /\ Len(stack) \in Nat /\ DOMAIN stack = 1 .. Len(stack)
        /\ DOMAIN Placed = 0 .. Len(stack) /\ Placed[0] = mQueue
        /\ \A k \in DOMAIN stack : /\ Len(stack) + 1 - k \in 1 .. Len(stack)
                                   /\ Placed[Len(stack) + 1 - k] = stack[k].batch
    BY PlaceOf DEF PostsInv, Posts
  <2>2. \A k \in K : \E d \in Placed[Len(stack) + 1 - k] : d.number = n
    BY <2>1 DEF InBatch
  <2>3. /\ \A S : S = {} => Cardinality(S) = 0
        /\ \A S, x : S = {x} => Cardinality(S) = 1
    BY FS_EmptySet, FS_Singleton
  <2>4. CASE fate[n] # "waiting"
    <3>1. K = {} /\ Q = {}
      BY <2>1, <2>2, <2>4 DEF Fated
    <3> HIDE DEF K, Q
    <3> QED BY <2>3, <2>4, <3>1
  <2>5. CASE fate[n] = "waiting"
    <3>1. PICK h \in 0 .. Len(stack) : \E d \in Placed[h] : d.number = n
      BY <2>1, <2>5 DEF Fated
    <3>2. PICK d \in Placed[h] : d.number = n
      BY <3>1
    <3>3. CASE h = 0
      <4>1. Q = {d}
        BY <2>1, <3>2, <3>3 DEF Fated
      <4>2. K = {}
        BY <2>1, <2>2, <3>2, <3>3 DEF Fated
      <4> HIDE DEF K, Q
      <4>3. Cardinality(K) = 0
        BY <2>3, <4>2
      <4>4. Cardinality(Q) = 1
        BY <2>3, <4>1
      <4> QED BY <2>5, <4>3, <4>4
    <3>4. CASE h # 0
      <4> DEFINE k == Len(stack) + 1 - h
      <4>1. k \in DOMAIN stack /\ Len(stack) + 1 - k = h
        BY <2>1, <3>1, <3>4
      <4>2. k \in K
        BY <2>1, <3>2, <4>1 DEF InBatch
      <4>3. ASSUME NEW j \in K PROVE Len(stack) + 1 - j = h
        <5>1. Len(stack) + 1 - j \in DOMAIN Placed /\ h \in DOMAIN Placed
          BY <2>1, <3>1
        <5>2. PICK e \in Placed[Len(stack) + 1 - j] : e.number = d.number
          BY <2>2, <3>2
        <5> QED BY <2>1, <3>2, <5>1, <5>2 DEF Fated
      <4>4. \A j \in K : j = k
        BY <2>1, <4>1, <4>3
      <4>5. K = {k}
        BY <4>2, <4>4
      <4>6. Q = {}
        BY <2>1, <3>1, <3>2, <3>4 DEF Fated
      <4> HIDE DEF k, K, Q
      <4>7. Cardinality(K) = 1
        BY <2>3, <4>5
      <4>8. Cardinality(Q) = 0
        BY <2>3, <4>6
      <4> QED BY <2>5, <4>7, <4>8
    <3> QED BY <3>3, <3>4
  <2> QED BY <2>4, <2>5
<1> QED BY <1>1, TypesAlways, PostsAlways, PTL

(* ---------------------------- first in, first out ----------------------- *)
(* A post becomes dispatched only when it is the first of what the          *)
(* innermost process() has waiting.                                         *)
LEMMA OnlyTheFirstIsDispatched ==
  ASSUME TypeInv, PostsInv, [Next]_vars,
         NEW h \in DOMAIN Placed, NEW d \in Placed[h],
         fate[d.number] = "waiting", fate'[d.number] = "dispatched"
  PROVE  stack # <<>> /\ Top.kind \in {"drain", "batch"} /\ d \in First(Waiting)
<1>1. d.number \in DOMAIN fate /\ fate \in Seq(Fates)
  BY DEF PostsInv, Posts, Fated, TypeInv, TypeOK, Fates
<1>2. ASSUME fate' = fate PROVE FALSE
  BY <1>2
<1>3. ASSUME NEW q, fate' = Cleared(q) PROVE FALSE
  BY <1>1, <1>3 DEF Cleared
<1>4. ASSUME fate' = Append(fate, "waiting") PROVE FALSE
  BY <1>1, <1>4
<1>5. PICK e \in Waiting : dispatchQueued(e)
  <2>1. \A m \in Messages, key \in OrderKeys : post(m, key) => fate' = Append(fate, "waiting")
    BY DEF post, enqueue
  <2> QED
    BY <1>2, <1>3, <1>4, <2>1 DEF Next, vars, registerListener, unregister, send, postRejected,
       process, dispatchRegistration, Return, clearQueue, dispose
<1>6. /\ stack # <<>> /\ Top.kind \in {"drain", "batch"}
      /\ e \in First(Waiting)
      /\ fate' = [fate EXCEPT ![e.number] = "dispatched"]
  BY <1>5 DEF dispatchQueued
<1>7. d.number = e.number
  BY <1>1, <1>6
<1>8. \E i \in DOMAIN Placed : e \in Placed[i]
  BY <1>5, StackAtDelivery, PlaceOf
<1>9. d = e
  BY <1>7, <1>8 DEF PostsInv, Posts, Fated
<1> QED BY <1>6, <1>9

(* Among posts with one key a later one is dispatched first only by a       *)
(* process() nested in the batch that holds the earlier one, for any keys   *)
(* and any nesting (MessageManager.cpp:83, 256, 266).                       *)
THEOREM PostsAreFifoPerKey == Spec => FifoPerKey
<1> DEFINE Step ==
      \A d \in mQueue \cup UNION {stack[k].batch : k \in DOMAIN stack} :
        fate[d.number] = "waiting" /\ fate'[d.number] = "dispatched" =>
          /\ \A e \in mQueue : e.orderKey = d.orderKey => e.number >= d.number
          /\ \A e \in stack[1].batch : e.orderKey = d.orderKey => e.number >= d.number
<1>1. TypeInv /\ PostsInv /\ [Next]_vars => Step
  <2> SUFFICES ASSUME TypeInv, PostsInv, [Next]_vars,
                      NEW d \in mQueue \cup UNION {stack[k].batch : k \in DOMAIN stack},
                      fate[d.number] = "waiting", fate'[d.number] = "dispatched"
               PROVE  /\ \A e \in mQueue : e.orderKey = d.orderKey => e.number >= d.number
                      /\ \A e \in stack[1].batch : e.orderKey = d.orderKey => e.number >= d.number
    OBVIOUS
  <2>1. /\ Len(stack) \in Nat /\ DOMAIN stack = 1 .. Len(stack)
        /\ DOMAIN Placed = 0 .. Len(stack) /\ Placed[0] = mQueue
        /\ \A k \in DOMAIN stack : /\ Len(stack) + 1 - k \in 1 .. Len(stack)
                                   /\ Placed[Len(stack) + 1 - k] = stack[k].batch
    BY PlaceOf
  <2>2. \E h \in DOMAIN Placed : d \in Placed[h]
    BY <2>1
  <2>3. stack # <<>> /\ Top.kind \in {"drain", "batch"} /\ d \in First(Waiting)
    BY <2>2, OnlyTheFirstIsDispatched
  <2>4. /\ FrameOK(Top, Len(stack)) /\ Top = stack[1] /\ Len(stack) \in Nat \ {0}
        /\ Placed[Len(stack)] = Top.batch
    BY <2>3, TopFrame DEF Placed
  <2>5. \A h \in DOMAIN Placed : \A e \in Placed[h] : e.number \in Int /\ e.sequence \in Int
                                                     /\ e.orderKey \in Int
    <3>1. Placed \in [0 .. Len(stack) -> SUBSET Delivery]
      BY PlacesHoldDeliveries DEF TypeInv, Placed
    <3>2. \A h \in DOMAIN Placed : \A e \in Placed[h] : e \in Delivery
      BY <3>1
    <3>3. \A e \in Delivery : e.number \in Nat /\ e.sequence \in Nat /\ e.orderKey \in OrderKeys
      BY DEF Delivery
    <3>4. OrderKeys \subseteq Int
      OBVIOUS
    <3> HIDE DEF Placed
    <3> TAKE h \in DOMAIN Placed
    <3> TAKE e \in Placed[h]
    <3>5. e.number \in Nat /\ e.sequence \in Nat /\ e.orderKey \in OrderKeys
      BY <3>2, <3>3
    <3>6. e.number \in Int /\ e.sequence \in Int
      BY <3>5
    <3>7. e.orderKey \in Int
      BY <3>4, <3>5, Zenon
    <3> QED BY <3>6, <3>7
  <2>6. InOrder(Placed)
    BY DEF PostsInv, Posts
  <2>7. ASSUME NEW h \in DOMAIN Placed, Placed[h] = Waiting
        PROVE  \A e \in Placed[h] : e.orderKey = d.orderKey => e.number >= d.number
    <3> TAKE e \in Placed[h]
    <3> HAVE e.orderKey = d.orderKey
    <3>1. d \in Placed[h] /\ ~queueLess(e, d)
      BY <2>3, <2>7 DEF First
    <3>2. ~(e.sequence < d.sequence)
      BY <3>1 DEF queueLess
    <3>3. e.number < d.number => e.sequence < d.sequence
      BY <2>6, <3>1 DEF InOrder
    <3> QED BY <2>5, <3>1, <3>2, <3>3
  <2>8. CASE Top.kind = "drain"
    <3>1. Placed[0] = Waiting /\ stack[1].batch = {} /\ 0 \in DOMAIN Placed
      BY <2>1, <2>4, <2>8 DEF Waiting, FrameOK
    <3> QED BY <2>1, <2>7, <3>1
  <2>9. CASE Top.kind = "batch"
    <3>1. /\ Placed[Len(stack)] = Waiting /\ stack[1].batch = Waiting
          /\ Len(stack) \in DOMAIN Placed \ {0}
      BY <2>1, <2>4, <2>9 DEF Waiting
    <3>2. d \in Placed[Len(stack)]
      BY <2>3, <3>1 DEF First
    <3>3. \A e \in mQueue : d.number < e.number
      BY <2>1, <2>6, <3>1, <3>2 DEF InOrder
    <3>4. \A e \in mQueue : e.number >= d.number
      BY <2>1, <2>5, <3>1, <3>2, <3>3
    <3> QED BY <2>7, <3>1, <3>4
  <2> QED BY <2>3, <2>8, <2>9
<1> QED BY <1>1, TypesAlways, PostsAlways, PTL DEF Spec, FifoPerKey
===============================================================================
