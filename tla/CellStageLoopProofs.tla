--------------------------- MODULE CellStageLoopProofs ---------------------------
(***************************************************************************)
(* The two loops, for any scene, any number of images and frames, and a    *)
(* window of any sizes: LoopInv says who owns the meshes and the fences    *)
(* at every point of a loop; the rest rests on it.                         *)
(***************************************************************************)
EXTENDS CellStageLoop, SequenceTheorems, WellFoundedInduction, TLAPS

(* --------------------------- the slot tables ----------------------------- *)
(* A set of naturals has a least member.                                    *)
LEMMA LeastNatural ==
  ASSUME NEW S \in SUBSET Nat, S # {}
  PROVE  \E i \in S : \A j \in S : i <= j
<1>1. IsWellFoundedOn(OpToRel(<, Nat), Nat)
  BY NatLessThanWellFounded
<1>2. PICK i \in S : \A j \in S : ~(<<j, i>> \in OpToRel(<, Nat))
  BY <1>1, WFMin
<1>3. \A j \in S : ~(j < i)
  BY <1>2 DEF OpToRel
<1>4. \A j \in S : i <= j
  <2> TAKE j \in S
  <2>1. i \in Nat /\ j \in Nat /\ ~(j < i)
    BY <1>2, <1>3
  <2> QED BY <2>1
<1> QED BY <1>2, <1>4

(* The slot given out is free.                                              *)
LEMMA SlotForIsFree ==
  ASSUME NEW S, NEW s \in Seq(S)
  PROVE  /\ SlotFor(s) \in 1 .. Len(s) + 1
         /\ SlotFor(s) \in DOMAIN s => s[SlotFor(s)] = Dead
         /\ SlotFor(s) > Len(s) => SlotFor(s) = Len(s) + 1
<1>1. Len(s) \in Nat /\ DOMAIN s = 1 .. Len(s)
  OBVIOUS
<1>2. Free(s) \in SUBSET Nat /\ Len(s) + 1 \in Free(s)
  BY <1>1 DEF Free
<1>3. \E i \in Free(s) : \A j \in Free(s) : i <= j
  BY <1>2, LeastNatural
<1>4. SlotFor(s) \in Free(s)
  BY <1>3 DEF SlotFor
<1> QED BY <1>1, <1>4 DEF Free

(* What a creation leaves: its own entry is the new one, all others stay.   *)
LEMMA StoredShape ==
  ASSUME NEW S, NEW s \in Seq(S), NEW x \in S
  PROVE  /\ Stored(s, x) \in Seq(S)
         /\ DOMAIN Stored(s, x) = DOMAIN s \cup {SlotFor(s)}
         /\ \A i \in DOMAIN s \cup {SlotFor(s)} :
              Stored(s, x)[i] = IF i = SlotFor(s) THEN x ELSE s[i]
<1> DEFINE slot == SlotFor(s)
           n    == IF slot > Len(s) THEN slot ELSE Len(s)
<1>1. /\ Len(s) \in Nat /\ DOMAIN s = 1 .. Len(s)
      /\ slot \in 1 .. Len(s) + 1
      /\ slot > Len(s) => slot = Len(s) + 1
  BY SlotForIsFree
<1>2. n \in Nat /\ 1 .. n = DOMAIN s \cup {slot}
  BY <1>1
<1>3. Stored(s, x) = [i \in 1 .. n |-> IF i = slot THEN x ELSE s[i]]
  BY DEF Stored
<1>4. \A i \in 1 .. n : (IF i = slot THEN x ELSE s[i]) \in S
  BY <1>1, <1>2
<1> HIDE DEF n, slot
<1>5. Stored(s, x) \in Seq(S)
  BY <1>2, <1>3, <1>4
<1>6. /\ DOMAIN Stored(s, x) = DOMAIN s \cup {slot}
      /\ \A i \in DOMAIN s \cup {slot} : Stored(s, x)[i] = IF i = slot THEN x ELSE s[i]
  BY <1>2, <1>3
<1> QED BY <1>5, <1>6 DEF slot

(* A creation adds the slot it fills at most;                               *)
LEMMA StoredDomain ==
  ASSUME NEW S, NEW s \in Seq(S), NEW x \in S
  PROVE  DOMAIN Stored(s, x) = DOMAIN s \cup {SlotFor(s)}
  BY StoredShape

(* it fills that slot,                                                      *)
LEMMA StoredEntry ==
  ASSUME NEW S, NEW s \in Seq(S), NEW x \in S
  PROVE  Stored(s, x)[SlotFor(s)] = x
  BY StoredShape

(* it leaves the others as they were,                                       *)
LEMMA StoredOthers ==
  ASSUME NEW S, NEW s \in Seq(S), NEW x \in S, NEW i \in DOMAIN s, i # SlotFor(s)
  PROVE  Stored(s, x)[i] = s[i]
<1>1. \A j \in DOMAIN s \cup {SlotFor(s)} :
        Stored(s, x)[j] = IF j = SlotFor(s) THEN x ELSE s[j]
  BY StoredShape
<1> QED BY <1>1

(* and it takes a slot nobody had.                                          *)
LEMMA StoredTaken ==
  ASSUME NEW S, NEW s \in Seq(S), NEW x \in S, x # Dead
  PROVE  /\ SlotFor(s) \notin Taken(s)
         /\ Taken(Stored(s, x)) = Taken(s) \cup {SlotFor(s)}
<1> DEFINE u == Stored(s, x)
<1>1. SlotFor(s) \notin Taken(s)
  BY SlotForIsFree DEF Taken
<1>2. DOMAIN u = DOMAIN s \cup {SlotFor(s)}
  BY StoredShape
<1>3. u[SlotFor(s)] = x
  BY StoredEntry
<1>4. \A i \in DOMAIN s : i # SlotFor(s) => u[i] = s[i]
  BY StoredOthers
<1> HIDE DEF u
<1>5. Taken(u) = Taken(s) \cup {SlotFor(s)}
  BY <1>1, <1>2, <1>3, <1>4 DEF Taken
<1> QED BY <1>1, <1>5 DEF u

(* What a destruction leaves: its handles are dead, all others stay.        *)
LEMMA WithoutEntries ==
  ASSUME NEW S, NEW s \in Seq(S), Dead \in S, NEW handles
  PROVE  /\ Without(s, handles) \in Seq(S)
         /\ DOMAIN Without(s, handles) = DOMAIN s
         /\ \A i \in DOMAIN s : Without(s, handles)[i] = IF i \in handles THEN Dead ELSE s[i]
         /\ Taken(Without(s, handles)) = Taken(s) \ handles
<1>1. Len(s) \in Nat /\ DOMAIN s = 1 .. Len(s)
  OBVIOUS
<1>2. Without(s, handles) = [i \in 1 .. Len(s) |-> IF i \in handles THEN Dead ELSE s[i]]
  BY DEF Without
<1>3. \A i \in 1 .. Len(s) : (IF i \in handles THEN Dead ELSE s[i]) \in S
  BY <1>1
<1>4. Without(s, handles) \in Seq(S)
  BY <1>1, <1>2, <1>3
<1>5. /\ DOMAIN Without(s, handles) = DOMAIN s
      /\ \A i \in DOMAIN s : Without(s, handles)[i] = IF i \in handles THEN Dead ELSE s[i]
  BY <1>1, <1>2
<1>6. Taken(Without(s, handles)) = Taken(s) \ handles
  BY <1>5 DEF Taken
<1> QED BY <1>4, <1>5, <1>6

(* ------------------------- what the loops keep -------------------------- *)
Mesh == Entities \X Nat
Draw == [kind : Kinds, slot : Nat \ {0}, mesh : Mesh]
Job  == [fence : Fences, swapchain : Nat, uses : SUBSET Mesh, frame : Nat]

Typed ==
  /\ TypeOK
  /\ draws \in Seq(Draw) /\ prevDraws \in Seq(Draw)
  /\ pending \in Seq(Job)
  /\ events \in Seq(Sizes)

(* Where each loop can be, and what is up there.                            *)
Control ==
  /\ pc \in IF mode = "sim"
            THEN {"start", "build", "begin", "draw", "drain", "clean", "read", "stop", "done"}
            ELSE {"start", "poll", "wait", "acquire", "open", "clean", "build", "submit",
                  "rebuild", "advance", "stop", "done"}
  /\ pc \notin {"start", "poll", "wait", "advance", "stop", "done"} => initialized
  /\ recording => IF mode = "sim" THEN pc = "draw" ELSE pc \in {"clean", "build", "submit"}
  /\ mode = "sim" => prevDraws = <<>>
  /\ mode = "interactive" =>
       /\ pc \in {"poll", "wait", "acquire", "open", "clean"} => draws = <<>>
       /\ pc \in {"build", "submit", "rebuild", "advance"} => prevDraws = <<>>
       /\ pc \in {"open", "clean", "build", "submit"} => activeImage \in Images
  /\ pc = "start" => /\ ~initialized /\ pending = <<>> /\ meshes = [k \in Kinds |-> <<>>]
                     /\ draws = <<>> /\ prevDraws = <<>>

(* One submission at most is in flight, its fence is not signaled, and the  *)
(* loop is then nowhere it would touch what the submission uses. The fence  *)
(* of the next one is not signaled either.                                  *)
OneInFlight ==
  /\ pending # <<>> =>
       /\ initialized
       /\ Len(pending) = 1 /\ pending[1].fence \notin signaled
       /\ IF mode = "sim"
          THEN pc = "drain" /\ pending[1].fence = FrameFence
          ELSE /\ pc \in {"rebuild", "advance", "poll", "wait", "stop"}
               /\ pending[1].fence = prevPresentImage /\ prevPresentImage \in Images
               /\ pending[1].swapchain = swapchain
  /\ mode = "sim" /\ pc = "draw" => FrameFence \notin signaled
  /\ mode = "interactive" /\ pc \in {"clean", "build", "submit"} => activeImage \notin signaled

(* A draw names its mesh, and every mesh has a draw.                        *)
Named(ds) ==
  \A n \in DOMAIN ds :
    /\ ds[n].slot \in Taken(meshes[ds[n].kind])
    /\ meshes[ds[n].kind][ds[n].slot] = ds[n].mesh

EveryMeshHasADraw ==
  initialized =>
    /\ Named(draws) /\ Named(prevDraws)
    /\ \A k \in Kinds : \A i \in Taken(meshes[k]) :
         <<k, i>> \in Handles(draws) \cup Handles(prevDraws)

LoopInv == Typed /\ Control /\ OneInFlight /\ EveryMeshHasADraw

(* ------------------------------- types ---------------------------------- *)
(* What becomes of the slots when a mesh is made.                           *)
LEMMA MeshStored ==
  ASSUME Typed, NEW k \in Kinds, NEW mesh \in Mesh, meshes' = WithMesh(k, mesh)
  PROVE  /\ SlotFor(meshes[k]) \in Nat \ {0}
         /\ meshes' \in [Kinds -> Seq(Mesh \cup {Dead})]
         /\ DOMAIN meshes'[k] = DOMAIN meshes[k] \cup {SlotFor(meshes[k])}
         /\ SlotFor(meshes[k]) \notin Taken(meshes[k])
         /\ Taken(meshes'[k]) = Taken(meshes[k]) \cup {SlotFor(meshes[k])}
         /\ meshes'[k][SlotFor(meshes[k])] = mesh
         /\ \A i \in Taken(meshes[k]) : meshes'[k][i] = meshes[k][i]
         /\ \A j \in Kinds \ {k} : meshes'[j] = meshes[j]
<1> DEFINE S == Mesh \cup {Dead}
<1>1. meshes \in [Kinds -> Seq(S)]
  BY DEF Typed, TypeOK, Mesh
<1>2. meshes[k] \in Seq(S) /\ mesh \in S /\ mesh # Dead
  BY <1>1, LoopAssumption DEF Mesh
<1>3. meshes' = [meshes EXCEPT ![k] = Stored(meshes[k], mesh)]
  BY DEF WithMesh
<1> HIDE DEF S
<1>4. SlotFor(meshes[k]) \in 1 .. Len(meshes[k]) + 1 /\ Len(meshes[k]) \in Nat
  BY <1>2, SlotForIsFree
<1>5. /\ Stored(meshes[k], mesh) \in Seq(S)
      /\ DOMAIN Stored(meshes[k], mesh) = DOMAIN meshes[k] \cup {SlotFor(meshes[k])}
  <2>1. Stored(meshes[k], mesh) \in Seq(S)
    BY <1>2, StoredShape
  <2>2. DOMAIN Stored(meshes[k], mesh) = DOMAIN meshes[k] \cup {SlotFor(meshes[k])}
    BY <1>2, StoredDomain
  <2> QED BY <2>1, <2>2
<1>6. Stored(meshes[k], mesh)[SlotFor(meshes[k])] = mesh
  BY <1>2, StoredEntry
<1>7. \A i \in DOMAIN meshes[k] : i # SlotFor(meshes[k]) =>
        Stored(meshes[k], mesh)[i] = meshes[k][i]
  BY <1>2, StoredOthers
<1>8. /\ SlotFor(meshes[k]) \notin Taken(meshes[k])
      /\ Taken(Stored(meshes[k], mesh)) = Taken(meshes[k]) \cup {SlotFor(meshes[k])}
  BY <1>2, StoredTaken
<1>9. meshes'[k] = Stored(meshes[k], mesh)
      /\ \A j \in Kinds \ {k} : meshes'[j] = meshes[j]
  BY <1>1, <1>3
<1>10. meshes' \in [Kinds -> Seq(S)]
  BY <1>1, <1>3, <1>5
<1>11. \A i \in Taken(meshes[k]) : i \in DOMAIN meshes[k] /\ i # SlotFor(meshes[k])
  BY <1>8 DEF Taken
<1>12. \A i \in Taken(meshes[k]) : meshes'[k][i] = meshes[k][i]
  BY <1>7, <1>9, <1>11
<1> QED BY <1>4, <1>5, <1>6, <1>8, <1>9, <1>10, <1>12 DEF S

(* What becomes of them when a frame's meshes go.                           *)
LEMMA MeshesCleared ==
  ASSUME Typed, NEW hs, meshes' = WithoutMeshes(hs)
  PROVE  /\ meshes' \in [Kinds -> Seq(Mesh \cup {Dead})]
         /\ \A k \in Kinds :
              Taken(meshes'[k]) = Taken(meshes[k]) \ {h[2] : h \in {h \in hs : h[1] = k}}
<1> DEFINE S == Mesh \cup {Dead}
           gone(k) == {h[2] : h \in {h \in hs : h[1] = k}}
<1>1. meshes \in [Kinds -> Seq(S)] /\ Dead \in S
  BY DEF Typed, TypeOK, Mesh
<1>2. meshes' = [k \in Kinds |-> Without(meshes[k], gone(k))]
  BY DEF WithoutMeshes
<1> HIDE DEF S, gone
<1>3. ASSUME NEW k \in Kinds
      PROVE  /\ Without(meshes[k], gone(k)) \in Seq(S)
             /\ Taken(Without(meshes[k], gone(k))) = Taken(meshes[k]) \ gone(k)
  <2>1. meshes[k] \in Seq(S)
    BY <1>1
  <2> QED BY <1>1, <2>1, WithoutEntries
<1> QED BY <1>2, <1>3 DEF S, gone

(* The loops start with the types they keep.                                *)
LEMMA TypedInit == Init => Typed
<1> SUFFICES ASSUME Init PROVE Typed
  OBVIOUS
<1>1. meshes \in [Kinds -> Seq(Mesh \cup {Dead})]
  BY DEF Init, NotReady
<1>2. draws \in Seq(Draw) /\ prevDraws \in Seq(Draw) /\ pending \in Seq(Job) /\ events \in Seq(Sizes)
  BY DEF Init, NotReady
<1>3. window \in Sizes /\ width \in Sizes /\ extent \in Sizes
      /\ caps \in [fixed : BOOLEAN, size : Sizes]
  BY LoopAssumption DEF Init
<1> QED BY <1>1, <1>2, <1>3 DEF Init, NotReady, Typed, TypeOK, Mesh

(* The parts of Typed that a step changes together.                         *)
SizesTyped ==
  /\ width \in Sizes /\ extent \in Sizes /\ window \in Sizes
  /\ caps \in [fixed : BOOLEAN, size : Sizes]
  /\ events \in Seq(Sizes)

FramesTyped ==
  /\ initialized \in BOOLEAN /\ recording \in BOOLEAN
  /\ swapchain \in Nat /\ frame \in Nat /\ next \in Nat
  /\ activeImage \in Images \cup {NoImage}
  /\ prevPresentImage \in Images \cup {NoImage}
  /\ signaled \subseteq Fences
  /\ acquire \in {"unsignaled", "signaled", "waited"}
  /\ mode \in {"sim", "interactive"}

MeshesTyped ==
  /\ meshes \in [Kinds -> Seq(Mesh \cup {Dead})]
  /\ draws \in Seq(Draw) /\ prevDraws \in Seq(Draw)

(* The types, by the actions that touch them.                               *)
LEMMA TypedParts == Typed <=> SizesTyped /\ FramesTyped /\ MeshesTyped /\ pending \in Seq(Job)
  BY DEF Typed, TypeOK, SizesTyped, FramesTyped, MeshesTyped, Mesh

(* What a rebuild of the targets and a start can do.                        *)
LEMMA ResizeCases ==
  ASSUME NEW w, Resize(w)
  PROVE  \/ /\ initialized /\ pending = <<>>
            /\ width' = w /\ extent' = IF caps.fixed THEN caps.size ELSE w
            /\ swapchain' = swapchain + 1 /\ prevPresentImage' = NoImage
            /\ signaled' = signaled \cup Images
            /\ UNCHANGED <<initialized, recording, caps, activeImage, acquire, meshes,
                           pending, picture, failed>>
         \/ /\ initialized /\ pending = <<>>
            /\ initialized' = FALSE /\ recording' = FALSE
            /\ meshes' = [k \in Kinds |-> <<>>] /\ prevPresentImage' = NoImage
            /\ signaled' = {} /\ acquire' = "unsignaled"
            /\ UNCHANGED <<width, extent, caps, swapchain, activeImage, pending, picture>>
            /\ failed' = failed \cup {"resize"}
         \/ /\ ~initialized
            /\ UNCHANGED <<rendererVars, failed>>
  BY DEF Resize, ResizePresent, CreateTargets, CreateSwapchain, CreatePresentTargets,
     Shutdown, Idle, Fails, gpuVars

(* What Start can do: the renderer is up, or the program ends.              *)
LEMMA StartCases ==
  ASSUME Start
  PROVE  /\ pc = "start"
         /\ UNCHANGED <<mode, frame, quit, next, draws, prevDraws, window, events,
                        resizes, result>>
         /\ \/ /\ initialized' = TRUE
               /\ IF mode = "sim"
                  THEN /\ signaled' = {FrameFence} /\ pc' = "build"
                       /\ UNCHANGED <<prevPresentImage, width, extent, swapchain>>
                  ELSE /\ signaled' = signaled \cup Images /\ pc' = "poll"
                       /\ prevPresentImage' = NoImage /\ swapchain' = swapchain + 1
                       /\ width' = window
                       /\ extent' = IF caps.fixed THEN caps.size ELSE window
               /\ UNCHANGED <<recording, caps, activeImage, acquire, meshes, pending,
                              picture, failed>>
            \/ /\ pc' = "stop" /\ UNCHANGED rendererVars /\ failed' = failed \cup {"start"}
  BY DEF Start, InitOffscreen, InitPresent, CreateTargets, CreateSwapchain,
     CreatePresentTargets, Fails, gpuVars

(* Every step keeps the types of the sizes.                                 *)
LEMMA SizesTypedNext ==
  ASSUME Typed, [Next]_vars
  PROVE  SizesTyped'
<1>0. SizesTyped
  BY TypedParts
<1> USE <1>0 DEF SizesTyped
<1> USE DEF hostVars, gpuVars, engineVars, rendererVars, loopVars
<1>1. ASSUME Start PROVE SizesTyped'
  BY <1>1 DEF Start, InitOffscreen, InitPresent, CreateTargets, CreateSwapchain, CreatePresentTargets
<1>2. ASSUME BuildDraw \/ BuildDone \/ Clean \/ SimClean \/ SimDrain \/ SimRead PROVE SizesTyped'
  BY <1>2 DEF BuildDraw, BuildDone, Clean, SimClean, SimDrain, SimRead
<1>3. ASSUME SimBegin \/ BeginOpens \/ SimDraw PROVE SizesTyped'
  BY <1>3 DEF SimBegin, BeginOpens, SimDraw, BeginFrame, OpenPresentFrame, EndFrame
<1>4. ASSUME WindowResizes PROVE SizesTyped'
  BY <1>4 DEF WindowResizes
<1>5. ASSUME PollResize PROVE SizesTyped'
  <2>1. Head(events) \in Sizes /\ Tail(events) \in Seq(Sizes)
    BY <1>5 DEF PollResize
  <2> QED
    BY <1>5, <2>1 DEF PollResize, Resize, ResizePresent, CreateTargets, CreateSwapchain,
       CreatePresentTargets, Shutdown
<1>6. ASSUME PollInput \/ BeginWaits \/ Advance PROVE SizesTyped'
  BY <1>6 DEF PollInput, BeginWaits, Advance
<1>7. ASSUME BeginAcquires PROVE SizesTyped'
  BY <1>7 DEF BeginAcquires, AcquireImage
<1>8. ASSUME Submit PROVE SizesTyped'
  BY <1>8 DEF Submit, EndPresentFrame, DropPresentFrame
<1>9. ASSUME Rebuild PROVE SizesTyped'
  BY <1>9 DEF Rebuild, Resize, ResizePresent, CreateTargets, CreateSwapchain,
     CreatePresentTargets, Shutdown
<1>10. ASSUME Stop PROVE SizesTyped'
  BY <1>10 DEF Stop, Shutdown
<1>11. ASSUME Gpu \/ Screen PROVE SizesTyped'
  BY <1>11 DEF Gpu, Screen, Finish, Show
<1>12. ASSUME UNCHANGED vars PROVE SizesTyped'
  BY <1>12 DEF vars
<1> QED
  BY <1>1, <1>2, <1>3, <1>4, <1>5, <1>6, <1>7, <1>8, <1>9, <1>10, <1>11, <1>12
     DEF Next, Host, Sim, Present

(* Every step keeps the types of the frames and the fences.                 *)
LEMMA FramesTypedNext ==
  ASSUME Typed, [Next]_vars
  PROVE  FramesTyped'
<1>0. FramesTyped
  BY TypedParts
<1> USE <1>0 DEF FramesTyped
<1> USE DEF hostVars, gpuVars, engineVars, rendererVars, loopVars
<1>1. ASSUME Start PROVE FramesTyped'
  <2>1. signaled' \subseteq Fences
    BY <1>1, StartCases DEF Fences
  <2>2. initialized' \in BOOLEAN /\ recording' \in BOOLEAN
    BY <1>1, StartCases
  <2>3. prevPresentImage' \in Images \cup {NoImage}
    BY <1>1, StartCases
  <2>4. swapchain' = swapchain \/ swapchain' = swapchain + 1
    BY <1>1, StartCases
  <2>5. swapchain' \in Nat
    BY <2>4
  <2> QED BY <1>1, <2>1, <2>2, <2>3, <2>5, StartCases
<1>2. ASSUME BuildDraw \/ BuildDone \/ Clean \/ SimClean \/ SimDrain \/ SimRead PROVE FramesTyped'
  BY <1>2 DEF BuildDraw, BuildDone, Clean, SimClean, SimDrain, SimRead
<1>3. ASSUME SimBegin \/ BeginOpens \/ SimDraw PROVE FramesTyped'
  BY <1>3 DEF SimBegin, BeginOpens, SimDraw, BeginFrame, OpenPresentFrame, EndFrame
<1>4. ASSUME WindowResizes PROVE FramesTyped'
  BY <1>4 DEF WindowResizes
<1>5. ASSUME PollResize \/ Rebuild PROVE FramesTyped'
  <2>1. Resize(Head(events)) \/ Resize(width)
    BY <1>5 DEF PollResize, Rebuild
  <2>2. UNCHANGED <<frame, next, mode>>
    BY <1>5 DEF PollResize, Rebuild
  <2>3. signaled' \subseteq Fences
    BY <2>1, ResizeCases DEF Fences
  <2>4. initialized' \in BOOLEAN /\ recording' \in BOOLEAN
    BY <2>1, ResizeCases
  <2>5. prevPresentImage' \in Images \cup {NoImage}
    BY <2>1, ResizeCases
  <2>7. swapchain' = swapchain \/ swapchain' = swapchain + 1
    BY <2>1, ResizeCases
  <2>8. swapchain' \in Nat
    BY <2>7
  <2>6. activeImage' = activeImage /\ acquire' \in {"unsignaled", "signaled", "waited"}
    BY <2>1, ResizeCases
  <2> QED BY <2>2, <2>3, <2>4, <2>5, <2>6, <2>8
<1>6. ASSUME PollInput \/ BeginWaits PROVE FramesTyped'
  BY <1>6 DEF PollInput, BeginWaits
<1>13. ASSUME Advance PROVE FramesTyped'
  BY <1>13 DEF Advance
<1>7. ASSUME BeginAcquires PROVE FramesTyped'
  BY <1>7 DEF BeginAcquires, AcquireImage
<1>8. ASSUME Submit PROVE FramesTyped'
  BY <1>8 DEF Submit, EndPresentFrame, DropPresentFrame
<1>9. ASSUME Stop PROVE FramesTyped'
  BY <1>9 DEF Stop, Shutdown
<1>10. ASSUME Gpu PROVE FramesTyped'
  <2>1. pending \in Seq(Job) /\ pending # <<>>
    BY <1>10, TypedParts DEF Gpu, Finish
  <2>2. Head(pending) \in Job
    BY ONLY <2>1
  <2>3. Head(pending).fence \in Fences
    BY ONLY <2>2 DEF Job
  <2> QED BY <1>10, <2>3 DEF Gpu, Finish
<1>11. ASSUME Screen PROVE FramesTyped'
  BY <1>11 DEF Screen, Show
<1>12. ASSUME UNCHANGED vars PROVE FramesTyped'
  BY <1>12 DEF vars
<1> QED
  BY <1>1, <1>2, <1>3, <1>4, <1>5, <1>6, <1>7, <1>8, <1>9, <1>10, <1>11, <1>12, <1>13
     DEF Next, Host, Sim, Present

(* ------------------------------- meshes --------------------------------- *)
(* The steps that touch the meshes or the lists of draws.                   *)
LEMMA StepsOnMeshes ==
  ASSUME [Next]_vars
  PROVE  \/ BuildDraw \/ SimClean \/ Clean \/ Advance
         \/ /\ meshes' = [k \in Kinds |-> <<>>] /\ ~initialized'
            /\ UNCHANGED <<draws, prevDraws>>
         \/ /\ UNCHANGED <<meshes, draws, prevDraws>>
            /\ initialized' => initialized \/ pc = "start"
<1> DEFINE Kept == /\ UNCHANGED <<meshes, draws, prevDraws>>
                   /\ initialized' => initialized \/ pc = "start"
           Down == /\ meshes' = [k \in Kinds |-> <<>>] /\ ~initialized'
                   /\ UNCHANGED <<draws, prevDraws>>
<1> USE DEF hostVars, gpuVars, engineVars, rendererVars, loopVars
<1>1. ASSUME Start PROVE Kept
  <2>1. pc = "start" /\ UNCHANGED <<draws, prevDraws>>
    BY <1>1, StartCases
  <2>2. meshes' = meshes
    BY <1>1, StartCases
  <2> QED BY <2>1, <2>2
<1>2. ASSUME BuildDone \/ SimDrain \/ SimRead PROVE Kept
  BY <1>2 DEF BuildDone, SimDrain, SimRead
<1>3. ASSUME SimBegin PROVE Kept
  BY <1>3 DEF SimBegin, BeginFrame
<1>13. ASSUME BeginOpens PROVE Kept
  BY <1>13 DEF BeginOpens, OpenPresentFrame
<1>14. ASSUME SimDraw PROVE Kept
  BY <1>14 DEF SimDraw, EndFrame
<1>4. ASSUME WindowResizes PROVE Kept
  BY <1>4 DEF WindowResizes
<1>5. ASSUME PollResize \/ Rebuild PROVE Kept \/ Down
  <2>1. Resize(Head(events)) \/ Resize(width)
    BY <1>5 DEF PollResize, Rebuild
  <2>2. UNCHANGED <<draws, prevDraws>>
    BY <1>5 DEF PollResize, Rebuild
  <2> QED BY <2>1, <2>2, ResizeCases
<1>6. ASSUME PollInput PROVE Kept
  BY <1>6 DEF PollInput
<1>15. ASSUME BeginWaits PROVE Kept
  BY <1>15 DEF BeginWaits
<1>7. ASSUME BeginAcquires PROVE Kept
  BY <1>7 DEF BeginAcquires, AcquireImage
<1>8. ASSUME Submit PROVE Kept
  BY <1>8 DEF Submit, EndPresentFrame, DropPresentFrame
<1>9. ASSUME Stop PROVE Down
  BY <1>9 DEF Stop, Shutdown
<1>10. ASSUME Gpu \/ Screen PROVE Kept
  BY <1>10 DEF Gpu, Screen, Finish, Show
<1>11. ASSUME UNCHANGED vars PROVE Kept
  BY <1>11 DEF vars
<1> HIDE DEF Kept, Down
<1>12. BuildDraw \/ SimClean \/ Clean \/ Advance \/ Kept \/ Down
  BY <1>1, <1>2, <1>3, <1>4, <1>5, <1>6, <1>7, <1>8, <1>9, <1>10, <1>11,
     <1>13, <1>14, <1>15 DEF Next, Host, Sim, Present
<1> QED BY <1>12 DEF Kept, Down

(* What BuildDraw does when it makes a mesh.                                *)
LEMMA DrawBuilt ==
  ASSUME Typed, BuildDraw, ~(meshes' = meshes /\ draws' = draws)
  PROVE  \E k \in Kinds, mesh \in Mesh :
           /\ meshes' = WithMesh(k, mesh)
           /\ draws' = Append(draws, [kind |-> k, mesh |-> mesh, slot |-> SlotFor(meshes[k])])
           /\ SlotFor(meshes[k]) \in Nat \ {0}
           /\ UNCHANGED <<prevDraws, initialized>>
<1>1. next \in Entities /\ frame \in Nat
  BY DEF BuildDraw, Typed, TypeOK
<1>2. KindOf[next] \in Kinds /\ <<next, frame>> \in Mesh
  BY <1>1, LoopAssumption DEF Mesh
<1>3. /\ meshes' = WithMesh(KindOf[next], <<next, frame>>)
      /\ draws' = Append(draws, [kind |-> KindOf[next], mesh |-> <<next, frame>>,
                                 slot |-> SlotFor(meshes[KindOf[next]])])
      /\ UNCHANGED <<prevDraws, initialized>>
  BY DEF BuildDraw, hostVars
<1>4. SlotFor(meshes[KindOf[next]]) \in Nat \ {0}
  BY <1>2, <1>3, MeshStored
<1> QED BY <1>2, <1>3, <1>4

(* Every step keeps the types of the meshes and the draws.                  *)
LEMMA MeshesTypedNext ==
  ASSUME Typed, [Next]_vars
  PROVE  MeshesTyped'
<1>1. MeshesTyped
  BY TypedParts
<1>2. ASSUME BuildDraw PROVE MeshesTyped'
  <2>1. CASE meshes' = meshes /\ draws' = draws
    BY <1>1, <1>2, <2>1 DEF BuildDraw, MeshesTyped
  <2>2. CASE ~(meshes' = meshes /\ draws' = draws)
    <3>1. PICK k \in Kinds, mesh \in Mesh :
            /\ meshes' = WithMesh(k, mesh)
            /\ draws' = Append(draws, [kind |-> k, mesh |-> mesh, slot |-> SlotFor(meshes[k])])
            /\ SlotFor(meshes[k]) \in Nat \ {0}
            /\ UNCHANGED <<prevDraws, initialized>>
      BY <1>2, <2>2, DrawBuilt
    <3>2. meshes' \in [Kinds -> Seq(Mesh \cup {Dead})]
      BY <3>1, MeshStored
    <3>3. [kind |-> k, mesh |-> mesh, slot |-> SlotFor(meshes[k])] \in Draw
      BY <3>1 DEF Draw
    <3>4. draws' \in Seq(Draw)
      BY <1>1, <3>1, <3>3 DEF MeshesTyped
    <3> QED BY <1>1, <3>1, <3>2, <3>4 DEF MeshesTyped
  <2> QED BY <2>1, <2>2
<1>3. ASSUME SimClean \/ Clean PROVE MeshesTyped'
  <2>1. meshes' = WithoutMeshes(Handles(draws)) \/ meshes' = WithoutMeshes(Handles(prevDraws))
    BY <1>3 DEF SimClean, Clean
  <2>2. meshes' \in [Kinds -> Seq(Mesh \cup {Dead})]
    BY <2>1, MeshesCleared
  <2>3. <<>> \in Seq(Draw)
    OBVIOUS
  <2>4. draws' \in {draws, <<>>} /\ prevDraws' \in {prevDraws, <<>>}
    BY <1>3 DEF SimClean, Clean
  <2> QED BY <1>1, <2>2, <2>3, <2>4 DEF MeshesTyped
<1>4. ASSUME Advance PROVE MeshesTyped'
  BY <1>1, <1>4 DEF Advance, rendererVars, MeshesTyped
<1>5. ASSUME meshes' = [k \in Kinds |-> <<>>], UNCHANGED <<draws, prevDraws>>
      PROVE  MeshesTyped'
  BY <1>1, <1>5 DEF MeshesTyped
<1>6. ASSUME UNCHANGED <<meshes, draws, prevDraws>> PROVE MeshesTyped'
  BY <1>1, <1>6 DEF MeshesTyped
<1> QED BY <1>2, <1>3, <1>4, <1>5, <1>6, StepsOnMeshes

(* What the GPU is given to read are meshes that exist.                     *)
LEMMA RecordedIsLive ==
  ASSUME Typed, EveryMeshHasADraw, initialized
  PROVE  Recorded \subseteq Mesh /\ Recorded \subseteq Live(meshes)
<1>1. draws \in Seq(Draw) /\ Named(draws)
  BY DEF Typed, EveryMeshHasADraw
<1>2. ASSUME NEW n \in DOMAIN draws
      PROVE  LET m == meshes[draws[n].kind][draws[n].slot] IN m \in Mesh /\ m \in Live(meshes)
  <2>1. draws[n] \in Draw
    BY <1>1
  <2>2. draws[n].kind \in Kinds /\ draws[n].mesh \in Mesh
    BY <2>1 DEF Draw
  <2>3. /\ draws[n].slot \in Taken(meshes[draws[n].kind])
        /\ meshes[draws[n].kind][draws[n].slot] = draws[n].mesh
    BY <1>1 DEF Named
  <2>4. draws[n].slot \in DOMAIN meshes[draws[n].kind]
        /\ meshes[draws[n].kind][draws[n].slot] # Dead
    BY <2>3 DEF Taken
  <2> QED BY <2>2, <2>3, <2>4 DEF Live
<1> QED BY <1>2 DEF Recorded

(* ------------------------------- control -------------------------------- *)
LEMMA ControlNext ==
  ASSUME Typed, Control, [Next]_vars
  PROVE  Control'
<1>0. mode \in {"sim", "interactive"} /\ initialized \in BOOLEAN /\ recording \in BOOLEAN
  BY DEF Typed, TypeOK
<1> USE <1>0 DEF Control, hostVars, gpuVars, engineVars, rendererVars, loopVars
<1>1. ASSUME Start PROVE Control'
  <2>1. pc = "start" /\ UNCHANGED <<mode, draws, prevDraws>>
    BY <1>1, StartCases
  <2>2. \/ pc' = "build" /\ mode = "sim" /\ initialized'
        \/ pc' = "poll" /\ mode = "interactive" /\ initialized'
        \/ pc' = "stop"
    BY <1>1, StartCases
  <2>3. ~recording /\ recording' = recording
    BY <1>1, <2>1, StartCases
  <2> QED BY <2>1, <2>2, <2>3
<1>2. ASSUME BuildDraw PROVE Control'
  BY <1>2 DEF BuildDraw
<1>3. ASSUME BuildDone PROVE Control'
  BY <1>3 DEF BuildDone
<1>4. ASSUME SimBegin PROVE Control'
  BY <1>4 DEF SimBegin, BeginFrame
<1>5. ASSUME SimDraw PROVE Control'
  BY <1>5 DEF SimDraw, EndFrame
<1>6. ASSUME SimDrain PROVE Control'
  BY <1>6 DEF SimDrain
<1>7. ASSUME SimClean PROVE Control'
  BY <1>7 DEF SimClean
<1>8. ASSUME SimRead PROVE Control'
  BY <1>8 DEF SimRead
<1>9. ASSUME WindowResizes PROVE Control'
  BY <1>9 DEF WindowResizes
<1>10. ASSUME PollResize PROVE Control'
  <2>1. Resize(Head(events)) /\ pc = "poll"
        /\ UNCHANGED <<pc, mode, draws, prevDraws>>
    BY <1>10 DEF PollResize
  <2>2. activeImage' = activeImage /\ (recording' => recording)
    BY <2>1, ResizeCases
  <2> QED BY <2>1, <2>2
<1>11. ASSUME PollInput PROVE Control'
  BY <1>11 DEF PollInput
<1>12. ASSUME BeginWaits PROVE Control'
  BY <1>12 DEF BeginWaits
<1>13. ASSUME BeginAcquires PROVE Control'
  <2>1. pc = "acquire" /\ UNCHANGED <<mode, draws, prevDraws, initialized, recording>>
    BY <1>13 DEF BeginAcquires, AcquireImage
  <2>2. (pc' = "open" /\ activeImage' \in Images) \/ pc' = "stop"
    BY <1>13 DEF BeginAcquires, AcquireImage
  <2> QED BY <2>1, <2>2
<1>14. ASSUME BeginOpens PROVE Control'
  BY <1>14 DEF BeginOpens, OpenPresentFrame
<1>15. ASSUME Clean PROVE Control'
  BY <1>15 DEF Clean
<1>16. ASSUME Submit PROVE Control'
  <2>1. /\ pc = "submit" /\ pc' \in {"advance", "rebuild"} /\ ~recording'
        /\ UNCHANGED <<mode, initialized, prevDraws>>
    BY <1>16 DEF Submit, EndPresentFrame, DropPresentFrame
  <2> QED BY <2>1
<1>17. ASSUME Rebuild PROVE Control'
  <2>1. Resize(width) /\ pc = "rebuild" /\ pc' = "advance"
        /\ UNCHANGED <<mode, draws, prevDraws>>
    BY <1>17 DEF Rebuild
  <2>2. recording' => recording
    BY <2>1, ResizeCases
  <2> QED BY <2>1, <2>2
<1>18. ASSUME Advance PROVE Control'
  BY <1>18 DEF Advance
<1>19. ASSUME Stop PROVE Control'
  BY <1>19 DEF Stop, Shutdown
<1>20. ASSUME Gpu PROVE Control'
  BY <1>20 DEF Gpu, Finish
<1>21. ASSUME Screen PROVE Control'
  BY <1>21 DEF Screen, Show
<1>22. ASSUME UNCHANGED vars PROVE Control'
  BY <1>22 DEF vars
<1> QED
  BY <1>1, <1>2, <1>3, <1>4, <1>5, <1>6, <1>7, <1>8, <1>9, <1>10, <1>11, <1>12, <1>13, <1>14,
     <1>15, <1>16, <1>17, <1>18, <1>19, <1>20, <1>21, <1>22 DEF Next, Host, Sim, Present

(* ------------------------- one frame in flight -------------------------- *)
(* What a submission leaves in flight when nothing was.                     *)
LEMMA Submitted ==
  ASSUME Typed, pending = <<>>, NEW fence \in Fences, NEW uses \in SUBSET Mesh,
         pending' = Append(pending, Submission(fence, uses, frame + 1))
  PROVE  /\ Len(pending') = 1 /\ pending'[1].fence = fence
         /\ pending'[1].swapchain = swapchain /\ pending'[1].uses = uses
         /\ pending'[1].frame = frame + 1
         /\ pending' \in Seq(Job)
<1> DEFINE job == Submission(fence, uses, frame + 1)
<1>1. job \in Job /\ job.fence = fence /\ job.swapchain = swapchain /\ job.uses = uses
      /\ job.frame = frame + 1
  BY DEF Submission, Job, Typed, TypeOK
<1> HIDE DEF job
<1>2. pending' = <<job>>
  BY <1>1 DEF job
<1> QED BY <1>1, <1>2

(* What the GPU finishes is all that was in flight.                         *)
LEMMA Finished ==
  ASSUME Typed, OneInFlight, Finish
  PROVE  /\ pending # <<>> /\ pending' = <<>>
         /\ signaled' = signaled \cup {pending[1].fence}
<1>1. pending \in Seq(Job) /\ pending # <<>> /\ Len(pending) = 1
  BY DEF Finish, OneInFlight, Typed
<1>2. Tail(pending) \in Seq(Job) /\ Len(Tail(pending)) = 0
  BY ONLY <1>1
<1>3. Tail(pending) = <<>>
  BY ONLY <1>2, EmptySeq
<1>4. Head(pending) = pending[1]
  BY ONLY <1>1
<1> QED BY <1>1, <1>3, <1>4 DEF Finish

(* The replay submits with nothing in flight.                               *)
LEMMA SimSubmits ==
  ASSUME LoopInv, SimDraw
  PROVE  /\ pc = "draw" /\ pending = <<>> /\ FrameFence \notin signaled
         /\ UNCHANGED <<initialized, signaled, swapchain, mode, meshes, frame, picture>>
         /\ \/ /\ pc' = "drain" /\ recording /\ failed' = failed
               /\ pending' = Append(pending, Submission(FrameFence, Recorded, frame + 1))
            \/ /\ pc' = "clean" /\ pending' = pending
               /\ failed' # failed => failed' = failed \cup {"submit"}
               /\ recording => "submit" \in failed'
<1> QED
  BY DEF LoopInv, Control, OneInFlight, SimDraw, EndFrame, Fails, rendererVars, hostVars, gpuVars

(* So does the window's loop, once its image's fence was reset.             *)
LEMMA PresentSubmits ==
  ASSUME LoopInv, Submit
  PROVE  /\ pc = "submit" /\ pending = <<>> /\ initialized
         /\ activeImage \notin signaled
         /\ UNCHANGED <<initialized, signaled, swapchain, mode, meshes, width, extent, caps,
                        window, events, draws, prevDraws>>
         /\ pc' \in {"advance", "rebuild"}
         /\ \/ /\ pending' = Append(pending, Submission(activeImage, Recorded, frame + 1))
               /\ prevPresentImage' = activeImage /\ acquire' = "waited" /\ failed' = failed
            \/ /\ pending' = pending /\ failed' = failed \cup {"submit"}
<1>1. pc = "submit" /\ recording
  BY DEF Submit, EndPresentFrame, DropPresentFrame
<1>2. mode = "interactive" /\ mode \in {"sim", "interactive"}
  BY <1>1 DEF LoopInv, Control, Typed, TypeOK
<1>3. pending = <<>> /\ initialized /\ activeImage \notin signaled
  BY <1>1, <1>2 DEF LoopInv, Control, OneInFlight
<1>4. /\ UNCHANGED <<initialized, signaled, swapchain, mode, meshes>>
      /\ UNCHANGED <<width, extent, caps, window, events, draws, prevDraws>>
      /\ pc' \in {"advance", "rebuild"}
  BY DEF Submit, EndPresentFrame, DropPresentFrame
<1>5. CASE EndPresentFrame(Recorded, frame + 1) /\ UNCHANGED failed
  BY <1>1, <1>3, <1>4, <1>5 DEF EndPresentFrame
<1>6. CASE DropPresentFrame /\ Fails("submit")
  BY <1>1, <1>3, <1>4, <1>6 DEF DropPresentFrame, Fails, gpuVars
<1> QED BY <1>5, <1>6 DEF Submit

(* Every step keeps one submission at most in flight.                       *)
LEMMA OneInFlightNext ==
  ASSUME LoopInv, [Next]_vars
  PROVE  OneInFlight' /\ pending' \in Seq(Job)
<1>0. /\ Typed /\ Control /\ OneInFlight /\ EveryMeshHasADraw
      /\ mode \in {"sim", "interactive"} /\ pending \in Seq(Job)
      /\ initialized \in BOOLEAN
  BY DEF LoopInv, Typed, TypeOK
<1> DEFINE Goal == OneInFlight' /\ pending' \in Seq(Job)
<1>1. ASSUME Start PROVE Goal
  <2>1. pc = "start" /\ pending = <<>> /\ pending' = pending /\ mode' = mode
    BY <1>0, <1>1, StartCases DEF Control, rendererVars, gpuVars
  <2>2. pc' \in {"build", "poll", "stop"}
    BY <1>1, StartCases
  <2>3. mode = "sim" => pc' # "draw"
    BY <2>2
  <2>4. mode = "interactive" => pc' # "build"
    BY <1>1, StartCases
  <2> QED BY <1>0, <2>1, <2>2, <2>3, <2>4 DEF OneInFlight
<1>2. ASSUME BuildDraw PROVE Goal
  BY <1>0, <1>2 DEF BuildDraw, Control, OneInFlight, hostVars, gpuVars
<1>3. ASSUME BuildDone PROVE Goal
  BY <1>0, <1>3 DEF BuildDone, Control, OneInFlight, rendererVars, hostVars, gpuVars
<1>4. ASSUME SimBegin PROVE Goal
  <2>1. /\ pc = "begin" /\ pc' = "draw" /\ pending' = pending /\ mode' = mode
        /\ signaled' = signaled \ {FrameFence}
    BY <1>4 DEF SimBegin, BeginFrame, gpuVars
  <2>2. mode = "sim" /\ pending = <<>>
    BY <1>0, <2>1 DEF Control, OneInFlight
  <2> QED BY <1>0, <2>1, <2>2 DEF OneInFlight
<1>5. ASSUME SimDraw PROVE Goal
  <2>1. mode = "sim"
    BY <1>0, <1>5, SimSubmits DEF Control
  <2>2. CASE pending' = pending
    <3>1. pc' \in {"drain", "clean"} /\ pending' = <<>> /\ mode' = mode
      BY <1>5, <2>2, SimSubmits
    <3> QED BY <1>0, <2>1, <2>2, <3>1 DEF OneInFlight
  <2>3. CASE pending' # pending
    <3>1. /\ pending = <<>> /\ FrameFence \notin signaled
          /\ UNCHANGED <<initialized, signaled, mode>>
          /\ pc = "draw" /\ pc' = "drain"
          /\ pending' = Append(pending, Submission(FrameFence, Recorded, frame + 1))
      BY <1>5, <2>3, SimSubmits
    <3>2. initialized /\ Recorded \in SUBSET Mesh
      BY <1>0, <3>1, RecordedIsLive DEF Control
    <3>3. FrameFence \in Fences
      BY DEF Fences
    <3>4. Len(pending') = 1 /\ pending'[1].fence = FrameFence /\ pending' \in Seq(Job)
      BY <1>0, <3>1, <3>2, <3>3, Submitted
    <3> QED BY <1>0, <2>1, <3>1, <3>2, <3>4 DEF OneInFlight
  <2> QED BY <2>2, <2>3
<1>6. ASSUME SimDrain PROVE Goal
  <2>1. /\ pc = "drain" /\ pc' = "clean" /\ FrameFence \in signaled
        /\ UNCHANGED <<pending, mode, signaled>>
    BY <1>6 DEF SimDrain, rendererVars, loopVars, gpuVars
  <2>2. mode = "sim"
    BY <1>0, <2>1 DEF Control
  <2>3. pending = <<>>
    BY <1>0, <2>1, <2>2 DEF OneInFlight
  <2> QED BY <1>0, <2>1, <2>2, <2>3 DEF OneInFlight
<1>7. ASSUME SimClean PROVE Goal
  <2>1. pc = "clean" /\ mode = "sim" /\ pc' \in {"read", "build"} /\ UNCHANGED <<pending, mode>>
    BY <1>7 DEF SimClean, gpuVars
  <2> QED BY <1>0, <2>1 DEF OneInFlight
<1>8. ASSUME SimRead PROVE Goal
  <2>1. pc = "read" /\ pc' = "stop" /\ UNCHANGED <<pending, mode>>
    BY <1>8 DEF SimRead, rendererVars, gpuVars
  <2> QED BY <1>0, <2>1 DEF OneInFlight
<1>9. ASSUME WindowResizes PROVE Goal
  BY <1>0, <1>9 DEF WindowResizes, OneInFlight, rendererVars, hostVars, gpuVars
<1>10. ASSUME PollResize \/ Rebuild PROVE Goal
  <2>1. /\ Resize(Head(events)) \/ Resize(width)
        /\ pc' \in {"poll", "advance"} /\ pc \in {"poll", "rebuild"} /\ mode' = mode
    BY <1>10 DEF PollResize, Rebuild
  <2>2. ~initialized => pending = <<>>
    BY <1>0 DEF OneInFlight
  <2>3. pending = <<>> /\ pending' = <<>>
    BY <2>1, <2>2, ResizeCases DEF rendererVars, gpuVars
  <2>4. mode' = mode /\ pc' \notin {"draw", "clean", "build", "submit"}
    BY <2>1
  <2> QED BY <1>0, <2>3, <2>4 DEF OneInFlight
<1>11. ASSUME PollInput PROVE Goal
  BY <1>0, <1>11 DEF PollInput, OneInFlight, rendererVars, hostVars, gpuVars
<1>12. ASSUME BeginWaits PROVE Goal
  <2>1. /\ UNCHANGED <<pending, mode, signaled, initialized, prevPresentImage, swapchain>>
        /\ pc = "wait" /\ pc' \in {"acquire", "stop"}
        /\ pc' = "acquire" => WaitForPrevious
    BY <1>12 DEF BeginWaits, rendererVars, loopVars, hostVars, gpuVars
  <2>2. pc' = "acquire" => pending = <<>>
    BY <1>0, <2>1, LoopAssumption DEF WaitForPrevious, OneInFlight, Control
  <2> QED BY <1>0, <2>1, <2>2 DEF OneInFlight
<1>13. ASSUME BeginAcquires PROVE Goal
  <2>1. pc = "acquire" /\ pc' \in {"open", "stop"} /\ UNCHANGED <<pending, mode>>
    BY <1>13 DEF BeginAcquires, AcquireImage, rendererVars, loopVars, gpuVars
  <2> QED BY <1>0, <2>1 DEF OneInFlight
<1>14. ASSUME BeginOpens PROVE Goal
  <2>1. /\ pc = "open" /\ pc' \in {"clean", "stop"} /\ UNCHANGED <<pending, mode, activeImage>>
        /\ signaled' = signaled \ {activeImage}
    BY <1>14 DEF BeginOpens, OpenPresentFrame, gpuVars
  <2> QED BY <1>0, <2>1 DEF OneInFlight
<1>15. ASSUME Clean PROVE Goal
  <2>1. /\ pc = "clean" /\ mode = "interactive" /\ pc' = "build"
        /\ UNCHANGED <<pending, mode, activeImage, signaled>>
    BY <1>15 DEF Clean, hostVars, gpuVars
  <2> QED BY <1>0, <2>1 DEF OneInFlight
<1>16. ASSUME Submit PROVE Goal
  <2>1. /\ pc = "submit" /\ pc' \in {"advance", "rebuild"} /\ pending = <<>> /\ initialized
        /\ activeImage \notin signaled /\ UNCHANGED <<initialized, mode, signaled, swapchain>>
    BY <1>16, PresentSubmits
  <2>2. mode = "interactive"
    BY <1>0, <2>1 DEF Control
  <2>3. CASE pending' = pending
    BY <1>0, <2>1, <2>2, <2>3 DEF OneInFlight
  <2>4. CASE pending' # pending
    <3>1. pending' = Append(pending, Submission(activeImage, Recorded, frame + 1))
          /\ prevPresentImage' = activeImage
      BY <1>16, <2>4, PresentSubmits
    <3>2. activeImage \in Images /\ activeImage \in Fences /\ Recorded \in SUBSET Mesh
      BY <1>0, <2>1, <2>2, RecordedIsLive DEF Control, Fences
    <3>3. /\ Len(pending') = 1 /\ pending'[1].fence = activeImage
          /\ pending'[1].swapchain = swapchain /\ pending' \in Seq(Job)
      BY <1>0, <2>1, <3>1, <3>2, Submitted
    <3> QED BY <1>0, <2>1, <2>2, <3>1, <3>2, <3>3 DEF OneInFlight
  <2> QED BY <2>3, <2>4
<1>17. ASSUME Advance PROVE Goal
  <2>1. /\ pc = "advance" /\ pc' \in {"stop", "poll"}
        /\ UNCHANGED <<pending, mode, signaled, initialized, prevPresentImage, swapchain>>
    BY <1>17 DEF Advance, rendererVars, hostVars, gpuVars
  <2> QED BY <1>0, <2>1 DEF OneInFlight
<1>18. ASSUME Stop PROVE Goal
  <2>1. pending' = <<>> /\ pending = <<>> /\ pc' = "done"
    BY <1>18 DEF Stop, Shutdown, Idle, gpuVars
  <2> QED BY <1>0, <2>1 DEF OneInFlight
<1>19. ASSUME Gpu PROVE Goal
  <2>1. pending # <<>> /\ pending' = <<>> /\ pc' = pc /\ mode' = mode
        /\ signaled' = signaled \cup {pending[1].fence}
    BY <1>0, <1>19, Finished DEF Gpu, loopVars
  <2>2. pc \in {"drain", "rebuild", "advance", "poll", "wait", "stop"}
    BY <1>0, <2>1 DEF OneInFlight
  <2> QED BY <1>0, <2>1, <2>2 DEF OneInFlight
<1>20. ASSUME Screen PROVE Goal
  BY <1>0, <1>20 DEF Screen, Show, OneInFlight, hostVars, gpuVars, loopVars
<1>21. ASSUME UNCHANGED vars PROVE Goal
  BY <1>0, <1>21 DEF vars, OneInFlight, rendererVars, hostVars, gpuVars, loopVars
<1> HIDE DEF Goal
<1>22. Goal
  BY <1>1, <1>2, <1>3, <1>4, <1>5, <1>6, <1>7, <1>8, <1>9, <1>10, <1>11, <1>12, <1>13, <1>14,
     <1>15, <1>16, <1>17, <1>18, <1>19, <1>20, <1>21 DEF Next, Host, Sim, Present
<1> QED BY <1>22 DEF Goal

(* ------------------------ who owns which mesh --------------------------- *)
LEMMA NoHandles == Handles(<<>>) = {} /\ Owned(<<>>) = {}
  BY DEF Handles, Owned

(* A list of draws still names its meshes when one more is made.            *)
LEMMA NamedStays ==
  ASSUME Typed, NEW ds \in Seq(Draw), Named(ds),
         NEW k \in Kinds, NEW mesh \in Mesh, meshes' = WithMesh(k, mesh)
  PROVE  \A n \in DOMAIN ds : /\ ds[n].slot \in Taken(meshes'[ds[n].kind])
                              /\ meshes'[ds[n].kind][ds[n].slot] = ds[n].mesh
<1> TAKE n \in DOMAIN ds
<1>1. ds[n] \in Draw
  OBVIOUS
<1>2. ds[n].kind \in Kinds
  BY <1>1 DEF Draw
<1>3. /\ ds[n].slot \in Taken(meshes[ds[n].kind])
      /\ meshes[ds[n].kind][ds[n].slot] = ds[n].mesh
  BY DEF Named
<1>4. CASE ds[n].kind = k
  BY <1>3, <1>4, MeshStored
<1>5. CASE ds[n].kind # k
  <2>1. meshes'[ds[n].kind] = meshes[ds[n].kind]
    BY <1>2, <1>5, MeshStored
  <2> QED BY <1>3, <2>1
<1> QED BY <1>4, <1>5

(* A mesh that is made gets a draw.                                         *)
LEMMA BuildKeepsMeshes ==
  ASSUME LoopInv, BuildDraw
  PROVE  EveryMeshHasADraw'
<1>0. Typed /\ Control /\ EveryMeshHasADraw
  BY DEF LoopInv
<1>1. initialized /\ draws \in Seq(Draw) /\ prevDraws \in Seq(Draw)
  BY <1>0 DEF BuildDraw, Control, Typed
<1>2. /\ Named(draws) /\ Named(prevDraws)
      /\ \A j \in Kinds : \A i \in Taken(meshes[j]) :
           <<j, i>> \in Handles(draws) \cup Handles(prevDraws)
  BY <1>0, <1>1 DEF EveryMeshHasADraw
<1>3. CASE meshes' = meshes /\ draws' = draws
  BY <1>2, <1>3 DEF BuildDraw, EveryMeshHasADraw, Named
<1>4. CASE ~(meshes' = meshes /\ draws' = draws)
  <2>1. PICK k \in Kinds, mesh \in Mesh :
          /\ meshes' = WithMesh(k, mesh)
          /\ draws' = Append(draws, [kind |-> k, mesh |-> mesh, slot |-> SlotFor(meshes[k])])
          /\ SlotFor(meshes[k]) \in Nat \ {0}
          /\ UNCHANGED <<prevDraws, initialized>>
    BY <1>0, <1>4, DrawBuilt
  <2> DEFINE h == SlotFor(meshes[k])
             d == [kind |-> k, mesh |-> mesh, slot |-> h]
  <2>2. /\ Taken(meshes'[k]) = Taken(meshes[k]) \cup {h}
        /\ meshes'[k][h] = mesh
        /\ \A j \in Kinds \ {k} : meshes'[j] = meshes[j]
    BY <1>0, <2>1, MeshStored
  <2>3. d \in Draw /\ d.kind = k /\ d.mesh = mesh /\ d.slot = h
    BY <2>1 DEF Draw
  <2> HIDE DEF d, h
  <2>4. draws' = Append(draws, d)
    BY <2>1 DEF d, h
  <2>5. /\ DOMAIN draws' = DOMAIN draws \cup {Len(draws) + 1}
        /\ draws'[Len(draws) + 1] = d
        /\ \A n \in DOMAIN draws : draws'[n] = draws[n]
    BY <1>1, <2>3, <2>4
  <2>6. \A n \in DOMAIN draws' : /\ draws'[n].slot \in Taken(meshes'[draws'[n].kind])
                                 /\ meshes'[draws'[n].kind][draws'[n].slot] = draws'[n].mesh
    <3>1. \A n \in DOMAIN draws : /\ draws[n].slot \in Taken(meshes'[draws[n].kind])
                                  /\ meshes'[draws[n].kind][draws[n].slot] = draws[n].mesh
      BY <1>0, <1>1, <1>2, <2>1, NamedStays
    <3> QED BY <2>2, <2>3, <2>5, <3>1
  <2>7. \A n \in DOMAIN prevDraws :
          /\ prevDraws[n].slot \in Taken(meshes'[prevDraws[n].kind])
          /\ meshes'[prevDraws[n].kind][prevDraws[n].slot] = prevDraws[n].mesh
    BY <1>0, <1>1, <1>2, <2>1, NamedStays
  <2>8. Handles(draws)' = Handles(draws) \cup {<<k, h>>}
    BY <2>3, <2>5 DEF Handles
  <2>9. ASSUME NEW j \in Kinds, NEW i \in Taken(meshes'[j])
        PROVE  <<j, i>> \in Handles(draws)' \cup Handles(prevDraws)
    BY <1>2, <2>2, <2>8
  <2>10. Named(draws)' /\ Named(prevDraws)'
    BY <2>1, <2>6, <2>7 DEF Named
  <2>11. Handles(prevDraws)' = Handles(prevDraws)
    BY <2>1 DEF Handles
  <2>12. \A j \in Kinds : \A i \in Taken(meshes[j])' :
           <<j, i>> \in Handles(draws)' \cup Handles(prevDraws)'
    BY <2>9, <2>11
  <2> QED BY <2>10, <2>12 DEF EveryMeshHasADraw
<1> QED BY <1>3, <1>4

(* A cleanup destroys the meshes of the draws it forgets.                   *)
LEMMA CleanKeepsMeshes ==
  ASSUME LoopInv, SimClean \/ Clean
  PROVE  EveryMeshHasADraw'
<1>0. Typed /\ Control /\ EveryMeshHasADraw
  BY DEF LoopInv
<1>1. pc = "clean" /\ initialized
  BY <1>0 DEF SimClean, Clean, Control
<1>2. PICK ds \in {draws, prevDraws} :
        /\ meshes' = WithoutMeshes(Handles(ds))
        /\ Handles(draws) \cup Handles(prevDraws) = Handles(ds)
  <2>1. CASE SimClean
    BY <1>0, <2>1, NoHandles DEF SimClean, Control
  <2>2. CASE Clean
    BY <1>0, <1>1, <2>2, NoHandles DEF Clean, Control
  <2> QED BY <2>1, <2>2
<1>3. draws' = <<>> /\ prevDraws' = <<>>
  BY <1>0, <1>1 DEF SimClean, Clean, Control
<1>4. ASSUME NEW k \in Kinds PROVE Taken(meshes'[k]) = {}
  <2>1. Taken(meshes'[k]) = Taken(meshes[k]) \ {h[2] : h \in {h \in Handles(ds) : h[1] = k}}
    BY <1>0, <1>2, MeshesCleared
  <2>2. ASSUME NEW i \in Taken(meshes[k])
        PROVE  i \in {h[2] : h \in {h \in Handles(ds) : h[1] = k}}
    <3>1. <<k, i>> \in Handles(ds)
      BY <1>0, <1>1, <1>2 DEF EveryMeshHasADraw
    <3>2. <<k, i>>[1] = k /\ <<k, i>>[2] = i
      OBVIOUS
    <3> QED BY <3>1, <3>2
  <2> QED BY <2>1, <2>2
<1> QED BY <1>3, <1>4 DEF EveryMeshHasADraw, Named

(* Every step keeps a draw for every mesh.                                  *)
LEMMA MeshesNext ==
  ASSUME LoopInv, [Next]_vars
  PROVE  EveryMeshHasADraw'
<1>0. Typed /\ Control /\ EveryMeshHasADraw
  BY DEF LoopInv
<1>1. ASSUME Advance PROVE EveryMeshHasADraw'
  <2>1. /\ pc = "advance" /\ prevDraws' = draws /\ draws' = <<>>
        /\ UNCHANGED <<meshes, initialized>>
    BY <1>1 DEF Advance, rendererVars, hostVars
  <2>2. prevDraws = <<>>
    BY <1>0, <2>1 DEF Control, Typed, TypeOK
  <2>3. Handles(draws)' = {} /\ Handles(prevDraws) = {} /\ Handles(prevDraws)' = Handles(draws)
    BY <2>1, <2>2, NoHandles DEF Handles
  <2>4. initialized' => Named(draws)' /\ Named(prevDraws)'
    BY <1>0, <2>1 DEF EveryMeshHasADraw, Named
  <2> QED BY <1>0, <2>1, <2>3, <2>4 DEF EveryMeshHasADraw
<1>2. ASSUME UNCHANGED <<meshes, draws, prevDraws>>,
             initialized' => initialized \/ pc = "start"
      PROVE  EveryMeshHasADraw'
  <2>1. CASE pc = "start"
    <3>1. draws = <<>> /\ prevDraws = <<>> /\ meshes = [k \in Kinds |-> <<>>]
      BY <1>0, <2>1 DEF Control
    <3>2. \A k \in Kinds : Taken(meshes[k]) = {}
      BY <3>1 DEF Taken
    <3> QED BY <1>2, <3>1, <3>2 DEF EveryMeshHasADraw, Named
  <2>2. CASE pc # "start"
    BY <1>0, <1>2, <2>2 DEF EveryMeshHasADraw, Named, Handles
  <2> QED BY <2>1, <2>2
<1>3. ASSUME ~initialized' PROVE EveryMeshHasADraw'
  BY <1>3 DEF EveryMeshHasADraw
<1> QED BY <1>1, <1>2, <1>3, StepsOnMeshes, BuildKeepsMeshes, CleanKeepsMeshes

(* ----------------------------- invariants ------------------------------- *)
THEOREM LoopInvAlways == Spec => []LoopInv
<1>1. Init => LoopInv
  <2> SUFFICES ASSUME Init PROVE LoopInv
    OBVIOUS
  <2>1. Typed
    BY TypedInit
  <2>2. Control /\ OneInFlight /\ EveryMeshHasADraw
    BY DEF Init, NotReady, Control, OneInFlight, EveryMeshHasADraw
  <2> QED BY <2>1, <2>2 DEF LoopInv
<1>2. LoopInv /\ [Next]_vars => LoopInv'
  <2> SUFFICES ASSUME LoopInv, [Next]_vars PROVE LoopInv'
    OBVIOUS
  <2>1. Typed /\ Control
    BY DEF LoopInv
  <2>2. OneInFlight' /\ pending' \in Seq(Job)
    BY OneInFlightNext
  <2>3. SizesTyped' /\ FramesTyped' /\ MeshesTyped'
    BY <2>1, SizesTypedNext, FramesTypedNext, MeshesTypedNext
  <2>4. Typed'
    BY <2>2, <2>3, TypedParts DEF Typed, TypeOK, SizesTyped, FramesTyped, MeshesTyped, Mesh
  <2> QED BY <2>1, <2>2, <2>4, ControlNext, MeshesNext DEF LoopInv
<1> QED BY <1>1, <1>2, PTL DEF Spec

(* Every reachable state has the types the code declares.                   *)
THEOREM TypeCorrect == Spec => []TypeOK
<1>1. LoopInv => TypeOK
  BY DEF LoopInv, Typed
<1> QED BY <1>1, LoopInvAlways, PTL

(* Every mesh has one owner, a draw of this frame or of the one before, and *)
(* a draw names the mesh it was made for, though slots are reused.          *)
THEOREM MeshesAreAlwaysOwned == Spec => []MeshesAreOwned
<1>1. LoopInv => MeshesAreOwned
  <2> SUFFICES ASSUME LoopInv, initialized PROVE MeshesAreOwned
    BY DEF MeshesAreOwned
  <2>1. /\ draws \in Seq(Draw) /\ prevDraws \in Seq(Draw)
        /\ Named(draws) /\ Named(prevDraws)
        /\ \A k \in Kinds : \A i \in Taken(meshes[k]) :
             <<k, i>> \in Handles(draws) \cup Handles(prevDraws)
    BY DEF LoopInv, Typed, EveryMeshHasADraw
  <2>2. ASSUME NEW ds \in {draws, prevDraws}, NEW n \in DOMAIN ds
        PROVE  /\ ds[n].kind \in Kinds /\ ds[n].mesh # Dead
               /\ ds[n].slot \in DOMAIN meshes[ds[n].kind]
               /\ meshes[ds[n].kind][ds[n].slot] = ds[n].mesh
    <3>1. ds \in Seq(Draw) /\ Named(ds)
      BY <2>1
    <3>2. ds[n] \in Draw
      BY <3>1
    <3>3. ds[n].kind \in Kinds /\ ds[n].mesh \in Mesh
      BY <3>2 DEF Draw
    <3>4. ds[n].slot \in Taken(meshes[ds[n].kind])
          /\ meshes[ds[n].kind][ds[n].slot] = ds[n].mesh
      BY <3>1 DEF Named
    <3> QED BY <3>3, <3>4, LoopAssumption DEF Taken, Mesh
  <2>3. ASSUME NEW m \in Live(meshes) PROVE m \in Owned(draws) \cup Owned(prevDraws)
    <3>1. PICK k \in Kinds : \E i \in DOMAIN meshes[k] : m = meshes[k][i] /\ m # Dead
      BY DEF Live
    <3>2. PICK i \in DOMAIN meshes[k] : m = meshes[k][i] /\ m # Dead
      BY <3>1
    <3>3. <<k, i>> \in Handles(draws) \cup Handles(prevDraws)
      BY <2>1, <3>2 DEF Taken
    <3>4. PICK ds \in {draws, prevDraws} : <<k, i>> \in Handles(ds)
      BY <3>3
    <3>5. PICK n \in DOMAIN ds : <<k, i>> = <<ds[n].kind, ds[n].slot>>
      BY <3>4 DEF Handles
    <3>6. ds[n].kind = k /\ ds[n].slot = i
      BY <3>5
    <3>7. m = ds[n].mesh
      BY <2>2, <3>2, <3>6
    <3> QED BY <3>4, <3>7 DEF Owned
  <2>4. ASSUME NEW ds \in {draws, prevDraws}, NEW n \in DOMAIN ds
        PROVE  ds[n].mesh \in Live(meshes)
    BY <2>2 DEF Live
  <2>5. Live(meshes) = Owned(draws) \cup Owned(prevDraws)
    BY <2>3, <2>4 DEF Owned
  <2> QED BY <2>2, <2>5 DEF MeshesAreOwned
<1> QED BY <1>1, LoopInvAlways, PTL

(* While something is in flight only a submission adds to it, and neither   *)
(* the meshes nor the swapchain change.                                     *)
LEMMA StepsInFlight ==
  ASSUME LoopInv, [Next]_vars
  PROVE  \/ SimDraw \/ Submit \/ pending' = <<>>
         \/ UNCHANGED <<pending, meshes, swapchain>>
<1>0. /\ Typed /\ Control /\ OneInFlight /\ mode \in {"sim", "interactive"}
  BY DEF LoopInv, Typed, TypeOK
<1> DEFINE Kept == UNCHANGED <<pending, meshes, swapchain>>
<1> USE DEF rendererVars, hostVars, gpuVars
<1>1. ASSUME Start PROVE pending' = <<>>
  BY <1>0, <1>1, StartCases DEF Control
<1>2. ASSUME BuildDraw PROVE pending' = <<>>
  BY <1>0, <1>2 DEF BuildDraw, OneInFlight
<1>3. ASSUME SimClean \/ Clean PROVE pending' = <<>>
  BY <1>0, <1>3 DEF SimClean, Clean, OneInFlight
<1>4. ASSUME BuildDone \/ SimDrain \/ SimRead PROVE Kept
  BY <1>4 DEF BuildDone, SimDrain, SimRead
<1>5. ASSUME SimBegin \/ BeginOpens PROVE Kept
  BY <1>5 DEF SimBegin, BeginOpens, BeginFrame, OpenPresentFrame
<1>6. ASSUME WindowResizes \/ PollInput \/ BeginWaits PROVE Kept
  BY <1>6 DEF WindowResizes, PollInput, BeginWaits
<1>7. ASSUME PollResize \/ Rebuild PROVE pending' = <<>>
  <2>1. Resize(Head(events)) \/ Resize(width)
    BY <1>7 DEF PollResize, Rebuild
  <2>2. ~initialized => pending = <<>>
    BY <1>0 DEF OneInFlight
  <2> QED BY <2>1, <2>2, ResizeCases
<1>8. ASSUME BeginAcquires PROVE Kept
  BY <1>8 DEF BeginAcquires, AcquireImage
<1>9. ASSUME Advance PROVE Kept
  BY <1>9 DEF Advance
<1>10. ASSUME Stop PROVE pending' = <<>>
  BY <1>10 DEF Stop, Shutdown, Idle
<1>11. ASSUME Gpu PROVE pending' = <<>>
  BY <1>0, <1>11, Finished DEF Gpu
<1>12. ASSUME Screen PROVE Kept
  BY <1>12 DEF Screen, Show
<1>13. ASSUME UNCHANGED vars PROVE Kept
  BY <1>13 DEF vars
<1> HIDE DEF Kept
<1>14. SimDraw \/ Submit \/ pending' = <<>> \/ Kept
  BY <1>1, <1>2, <1>3, <1>4, <1>5, <1>6, <1>7, <1>8, <1>9, <1>10, <1>11, <1>12, <1>13
     DEF Next, Host, Sim, Present
<1> QED BY <1>14 DEF Kept

(* Nothing the GPU may still read is destroyed.                             *)
THEOREM InFlightIsAlwaysLive == Spec => []InFlightIsLive
<1>1. Init => InFlightIsLive
  BY DEF Init, NotReady, InFlightIsLive
<1>2. LoopInv /\ LoopInv' /\ InFlightIsLive /\ [Next]_vars => InFlightIsLive'
  <2> SUFFICES ASSUME LoopInv, LoopInv', InFlightIsLive, [Next]_vars
               PROVE  InFlightIsLive'
    OBVIOUS
  <2>0. /\ Typed /\ Control /\ EveryMeshHasADraw /\ mode \in {"sim", "interactive"}
        /\ pending \in Seq(Job)
    BY DEF LoopInv, Typed, TypeOK
  <2>1. CASE pending' = <<>>
    BY <2>1 DEF InFlightIsLive
  <2>2. CASE UNCHANGED <<pending, meshes, swapchain>>
    BY <2>2 DEF InFlightIsLive, Live
  <2>3. ASSUME NEW fence \in Fences, pending = <<>>, initialized,
               UNCHANGED <<meshes, swapchain>>,
               pending' = Append(pending, Submission(fence, Recorded, frame + 1))
        PROVE  InFlightIsLive'
    <3>1. Recorded \in SUBSET Mesh /\ Recorded \subseteq Live(meshes)
      BY <2>0, <2>3, RecordedIsLive
    <3>2. /\ Len(pending') = 1 /\ pending'[1].swapchain = swapchain
          /\ pending'[1].uses = Recorded /\ pending' \in Seq(Job)
      BY <2>0, <2>3, <3>1, Submitted
    <3>3. DOMAIN pending' = {1}
      BY <3>2
    <3>4. Live(meshes)' = Live(meshes)
      BY <2>3 DEF Live
    <3> QED BY <2>3, <3>1, <3>2, <3>3, <3>4 DEF InFlightIsLive
  <2>4. ASSUME SimDraw PROVE InFlightIsLive'
    <3>1. CASE pending' = pending
      BY <2>1, <2>4, <3>1, SimSubmits
    <3>2. CASE pending' # pending
      <4>1. /\ pc = "draw" /\ pending = <<>> /\ UNCHANGED <<meshes, swapchain>>
            /\ pending' = Append(pending, Submission(FrameFence, Recorded, frame + 1))
        BY <2>4, <3>2, SimSubmits
      <4> QED BY <2>0, <2>3, <4>1 DEF Control, Fences
    <3> QED BY <3>1, <3>2
  <2>5. ASSUME Submit PROVE InFlightIsLive'
    <3>1. CASE pending' = pending
      BY <2>1, <2>5, <3>1, PresentSubmits
    <3>2. CASE pending' # pending
      <4>1. /\ pc = "submit" /\ pending = <<>> /\ initialized /\ UNCHANGED <<meshes, swapchain>>
            /\ pending' = Append(pending, Submission(activeImage, Recorded, frame + 1))
        BY <2>5, <3>2, PresentSubmits
      <4>2. activeImage \in Fences
        BY <2>0, <4>1 DEF Control, Fences
      <4> QED BY <2>3, <4>1, <4>2
    <3> QED BY <3>1, <3>2
  <2> QED BY <2>1, <2>2, <2>4, <2>5, StepsInFlight
<1> QED BY <1>1, <1>2, LoopInvAlways, PTL DEF Spec

(* ------------------------------ the window ------------------------------ *)
(* What the last event in the queue, or the swapchain, says of the window.  *)
SizesAgree ==
  mode = "interactive" =>
    /\ pc = "start" => events = <<>>
    /\ initialized => /\ ~caps.fixed => extent = width
                      /\ window = IF events = <<>> THEN width ELSE events[Len(events)]

(* Once the queued events are handled the size last asked of the swapchain  *)
(* is the window's; where the surface leaves the size free, it has it.      *)
THEOREM RequestsAlwaysFollowWindow == Spec => []RequestedSizeFollowsWindow
<1>1. Init => SizesAgree
  BY DEF Init, NotReady, SizesAgree
<1>2. LoopInv /\ SizesAgree /\ [Next]_vars => SizesAgree'
  <2> SUFFICES ASSUME LoopInv, SizesAgree, [Next]_vars PROVE SizesAgree'
    OBVIOUS
  <2>0. /\ mode \in {"sim", "interactive"} /\ events \in Seq(Sizes) /\ Control
        /\ initialized \in BOOLEAN
    BY DEF LoopInv, Typed, TypeOK
  <2> DEFINE Kept == /\ UNCHANGED <<mode, initialized, caps, extent, width, window, events>>
                     /\ pc' = "start" => pc = "start"
  <2> USE DEF rendererVars, hostVars, loopVars
  <2>1. ASSUME Start PROVE SizesAgree'
    <3>1. pc = "start" /\ UNCHANGED <<mode, window, events, caps>> /\ pc' # "start"
      BY <2>1, StartCases
    <3>2. mode = "interactive" /\ initialized' =>
            width' = window /\ extent' = IF caps.fixed THEN caps.size ELSE window
      BY <2>0, <2>1, <3>1, StartCases DEF Control
    <3> QED BY <3>1, <3>2 DEF SizesAgree
  <2>2. ASSUME BuildDraw \/ BuildDone \/ Clean \/ SimClean \/ SimDrain \/ SimRead PROVE Kept
    BY <2>2 DEF BuildDraw, BuildDone, Clean, SimClean, SimDrain, SimRead
  <2>3. ASSUME SimBegin \/ BeginOpens PROVE Kept
    BY <2>3 DEF SimBegin, BeginOpens, BeginFrame, OpenPresentFrame
  <2>4. ASSUME SimDraw PROVE Kept
    BY <2>4 DEF SimDraw, EndFrame
  <2>5. ASSUME WindowResizes PROVE SizesAgree'
    <3>1. /\ pc # "start" /\ UNCHANGED <<pc, mode, initialized, caps, extent, width>>
          /\ events' = Append(events, window') /\ window' \in Sizes
      BY <2>5 DEF WindowResizes
    <3>2. events' # <<>> /\ events'[Len(events')] = window'
      BY <2>0, <3>1
    <3> QED BY <3>1, <3>2 DEF SizesAgree
  <2>6. ASSUME PollResize PROVE SizesAgree'
    <3>1. /\ Resize(Head(events)) /\ events # <<>> /\ events' = Tail(events)
          /\ pc = "poll" /\ UNCHANGED <<pc, mode, window>>
      BY <2>6 DEF PollResize
    <3>2. CASE ~initialized'
      BY <3>1, <3>2 DEF SizesAgree
    <3>3. CASE initialized'
      <4>1. initialized /\ width' = Head(events) /\ caps' = caps
            /\ extent' = IF caps.fixed THEN caps.size ELSE Head(events)
        BY <3>1, <3>3, ResizeCases
      <4>2. mode = "interactive" => window = events[Len(events)]
        BY <3>1, <4>1 DEF SizesAgree
      <4>3. /\ Tail(events) \in Seq(Sizes) /\ Len(Tail(events)) = Len(events) - 1
            /\ Len(events) \in Nat \ {0}
            /\ \A i \in 1 .. Len(Tail(events)) : Tail(events)[i] = events[i + 1]
        BY <2>0, <3>1, HeadTailProperties, EmptySeq
      <4>4. Head(events) = events[1]
        BY <2>0, <3>1
      <4>5. CASE Tail(events) = <<>>
        <5>1. Len(Tail(events)) = 0
          BY <4>5, EmptySeq
        <5> DEFINE n == Len(events)
        <5>2. n \in Nat /\ n - 1 = 0
          BY <4>3, <5>1
        <5> HIDE DEF n
        <5>3. n = 1
          BY ONLY <5>2
        <5>4. Len(events) = 1
          BY <5>3 DEF n
        <5> QED BY <3>1, <4>1, <4>2, <4>4, <4>5, <5>4 DEF SizesAgree
      <4>6. CASE Tail(events) # <<>>
        <5>1. Len(Tail(events)) \in Nat \ {0}
          BY <4>3, <4>6, EmptySeq
        <5>2. Tail(events)[Len(Tail(events))] = events[Len(events)]
          BY <4>3, <5>1
        <5> QED BY <3>1, <4>1, <4>2, <4>6, <5>2 DEF SizesAgree
      <4> QED BY <4>5, <4>6
    <3> QED BY <3>2, <3>3
  <2>7. ASSUME PollInput PROVE Kept
    BY <2>7 DEF PollInput
  <2>8. ASSUME BeginWaits PROVE Kept
    BY <2>8 DEF BeginWaits
  <2>9. ASSUME BeginAcquires PROVE Kept
    BY <2>9 DEF BeginAcquires, AcquireImage
  <2>10. ASSUME Submit PROVE Kept
    BY <2>10, PresentSubmits
  <2>11. ASSUME Rebuild PROVE SizesAgree'
    <3>1. Resize(width) /\ pc' = "advance" /\ UNCHANGED <<mode, window, events>>
      BY <2>11 DEF Rebuild
    <3>2. initialized' => /\ initialized /\ width' = width /\ caps' = caps
                          /\ extent' = IF caps.fixed THEN caps.size ELSE width
      BY <3>1, ResizeCases
    <3> QED BY <3>1, <3>2 DEF SizesAgree
  <2>12. ASSUME Advance PROVE Kept
    BY <2>12 DEF Advance
  <2>13. ASSUME Stop PROVE SizesAgree'
    BY <2>13 DEF Stop, Shutdown, SizesAgree
  <2>14. ASSUME Gpu \/ Screen PROVE Kept
    BY <2>14 DEF Gpu, Screen, Finish, Show
  <2>15. ASSUME UNCHANGED vars PROVE Kept
    BY <2>15 DEF vars
  <2>16. ASSUME Kept PROVE SizesAgree'
    BY <2>16 DEF SizesAgree
  <2> HIDE DEF Kept
  <2> QED
    BY <2>1, <2>2, <2>3, <2>4, <2>5, <2>6, <2>7, <2>8, <2>9, <2>10, <2>11, <2>12, <2>13,
       <2>14, <2>15, <2>16 DEF Next, Host, Sim, Present
<1>3. SizesAgree => RequestedSizeFollowsWindow
  BY DEF SizesAgree, RequestedSizeFollowsWindow
<1> QED BY <1>1, <1>2, <1>3, LoopInvAlways, PTL DEF Spec

(* ------------------------- the acquire semaphore ------------------------ *)
(* Between two frames the semaphore is as the last submission left it.      *)
AcquireIsConsumed ==
  /\ mode = "interactive" /\ "submit" \notin failed
  /\ pc \in {"start", "poll", "wait", "acquire", "advance", "rebuild"}
  => acquire = IF pending = <<>> THEN "unsignaled" ELSE "waited"

(* Every step leaves the semaphore as the invariant says.                   *)
LEMMA AcquireNext ==
  ASSUME LoopInv, AcquireIsConsumed, [Next]_vars
  PROVE  AcquireIsConsumed'
<1>0. /\ mode \in {"sim", "interactive"} /\ Typed /\ Control /\ OneInFlight
      /\ pending \in Seq(Job)
  BY DEF LoopInv, Typed, TypeOK
<1> USE DEF rendererVars, hostVars, gpuVars, loopVars
<1>1. ASSUME Start PROVE AcquireIsConsumed'
  <2>1. pc = "start" /\ mode' = mode /\ failed \subseteq failed'
    BY <1>1, StartCases
  <2>2. acquire' = acquire /\ pending' = pending
    BY <1>1, StartCases
  <2> QED BY <2>1, <2>2 DEF AcquireIsConsumed
<1>2. ASSUME mode = "sim", mode' = mode PROVE AcquireIsConsumed'
  BY <1>2 DEF AcquireIsConsumed
<1>3. ASSUME mode' = mode, pc' \in {"open", "clean", "build", "submit", "stop", "done"}
      PROVE  AcquireIsConsumed'
  BY <1>3 DEF AcquireIsConsumed
<1>4. ASSUME UNCHANGED <<mode, failed, acquire, pending>>,
             pc' = pc \/ pc \in {"start", "poll", "wait", "acquire", "advance", "rebuild"}
      PROVE  AcquireIsConsumed'
  BY <1>4 DEF AcquireIsConsumed
<1>5. ASSUME SimBegin \/ SimDraw \/ SimDrain \/ SimClean \/ SimRead PROVE AcquireIsConsumed'
  <2>1. mode' = mode
    BY <1>5 DEF SimBegin, SimDraw, SimDrain, SimClean, SimRead
  <2>2. mode = "sim"
    <3>1. pc \in {"begin", "draw", "drain", "read"} \/ mode = "sim"
      BY <1>5 DEF SimBegin, SimDraw, SimDrain, SimClean, SimRead
    <3> QED BY <1>0, <3>1 DEF Control
  <2> QED BY <1>2, <2>1, <2>2
<1>6. ASSUME BuildDraw \/ BuildDone PROVE AcquireIsConsumed'
  <2>1. mode' = mode /\ pc' \in {"build", "submit", "begin"} /\ (pc' = "begin" => mode = "sim")
    BY <1>6 DEF BuildDraw, BuildDone
  <2> QED BY <1>2, <1>3, <2>1
<1>7. ASSUME WindowResizes PROVE AcquireIsConsumed'
  BY <1>4, <1>7 DEF WindowResizes
<1>8. ASSUME PollResize \/ Rebuild PROVE AcquireIsConsumed'
  <2>1. /\ Resize(Head(events)) \/ Resize(width)
        /\ pc \in {"poll", "rebuild"} /\ mode' = mode
    BY <1>8 DEF PollResize, Rebuild
  <2>2. \/ UNCHANGED <<failed, acquire, pending>>
        \/ failed \subseteq failed' /\ acquire' = "unsignaled" /\ pending' = <<>>
    BY <2>1, ResizeCases
  <2> QED BY <2>1, <2>2 DEF AcquireIsConsumed
<1>9. ASSUME PollInput PROVE AcquireIsConsumed'
  BY <1>4, <1>9 DEF PollInput
<1>10. ASSUME BeginWaits PROVE AcquireIsConsumed'
  BY <1>4, <1>10 DEF BeginWaits
<1>11. ASSUME BeginAcquires \/ BeginOpens \/ Clean PROVE AcquireIsConsumed'
  <2>1. mode' = mode /\ pc' \in {"open", "clean", "build", "stop"}
    BY <1>11 DEF BeginAcquires, BeginOpens, Clean
  <2> QED BY <1>3, <2>1
<1>12. ASSUME Submit PROVE AcquireIsConsumed'
  <2>1. pending = <<>> /\ mode' = mode
    BY <1>12, PresentSubmits
  <2>2. \/ pending' = Append(pending, Submission(activeImage, Recorded, frame + 1))
           /\ acquire' = "waited"
        \/ "submit" \in failed'
    BY <1>12, PresentSubmits
  <2>3. pending' = Append(pending, Submission(activeImage, Recorded, frame + 1)) => pending' # <<>>
    BY <2>1
  <2> QED BY <2>2, <2>3 DEF AcquireIsConsumed
<1>13. ASSUME Advance PROVE AcquireIsConsumed'
  BY <1>4, <1>13 DEF Advance
<1>14. ASSUME Stop PROVE AcquireIsConsumed'
  BY <1>3, <1>14 DEF Stop
<1>15. ASSUME Gpu PROVE AcquireIsConsumed'
  <2>1. pending # <<>> /\ pending' = <<>> /\ UNCHANGED <<mode, pc, failed>>
    BY <1>0, <1>15, Finished DEF Gpu
  <2>2. CASE mode = "sim"
    BY <1>2, <2>1, <2>2
  <2>3. CASE mode = "interactive"
    <3>1. pending[1].fence \in Images
      BY <1>0, <2>1, <2>3 DEF OneInFlight
    <3>2. Head(pending) = pending[1]
      BY <1>0, <2>1
    <3>3. acquire' = "unsignaled"
      BY <1>15, <3>1, <3>2, LoopAssumption DEF Gpu, Finish
    <3> QED BY <2>1, <3>3 DEF AcquireIsConsumed
  <2> QED BY <1>0, <2>2, <2>3
<1>16. ASSUME Screen PROVE AcquireIsConsumed'
  BY <1>4, <1>16 DEF Screen, Show
<1>17. ASSUME UNCHANGED vars PROVE AcquireIsConsumed'
  BY <1>4, <1>17 DEF vars
<1> QED
  BY <1>1, <1>5, <1>6, <1>7, <1>8, <1>9, <1>10, <1>11, <1>12, <1>13, <1>14, <1>15, <1>16, <1>17
     DEF Next, Host, Sim, Present

(* The command buffer and the acquire semaphore are free when a frame takes *)
(* them.                                                                    *)
THEOREM SingletonsAreAlwaysFree == Spec => SingletonsAreFree
<1> DEFINE Free1 == ~recording /\ recording' => pending = <<>>
           Free2 == pc = "acquire" /\ pc' = "open" /\ "submit" \notin failed
                      => acquire = "unsignaled"
<1>1. Init => AcquireIsConsumed
  BY DEF Init, NotReady, AcquireIsConsumed
<1>2. LoopInv /\ AcquireIsConsumed /\ [Next]_vars => AcquireIsConsumed'
  BY AcquireNext
<1>3. LoopInv /\ LoopInv' /\ AcquireIsConsumed /\ [Next]_vars => [Free1 /\ Free2]_vars
  <2> SUFFICES ASSUME LoopInv, LoopInv', AcquireIsConsumed, Next PROVE Free1 /\ Free2
    OBVIOUS
  <2>1. /\ Control /\ OneInFlight /\ Typed /\ mode \in {"sim", "interactive"}
    BY DEF LoopInv, Typed, TypeOK
  <2>2. Free2
    <3> SUFFICES ASSUME pc = "acquire", "submit" \notin failed PROVE acquire = "unsignaled"
      OBVIOUS
    <3>1. mode = "interactive" /\ pending = <<>>
      BY <2>1 DEF Control, OneInFlight
    <3> QED BY <3>1 DEF AcquireIsConsumed
  <2>3. Free1
    <3> SUFFICES ASSUME ~recording, recording' PROVE pending = <<>>
      OBVIOUS
    <3>1. SimBegin \/ BeginOpens \/ recording' = recording \/ ~recording'
      <4> USE DEF rendererVars, hostVars
      <4>1. ASSUME Start PROVE recording' = recording
        BY <4>1, StartCases
      <4>2. ASSUME BuildDraw \/ BuildDone \/ SimDrain \/ SimClean \/ SimRead \/ Clean
            PROVE  recording' = recording
        BY <4>2 DEF BuildDraw, BuildDone, SimDrain, SimClean, SimRead, Clean
      <4>3. ASSUME SimDraw \/ Submit PROVE recording' = recording \/ ~recording'
        BY <4>3 DEF SimDraw, Submit, EndFrame, EndPresentFrame, DropPresentFrame
      <4>4. ASSUME WindowResizes \/ PollInput \/ BeginWaits \/ Advance
            PROVE  recording' = recording
        BY <4>4 DEF WindowResizes, PollInput, BeginWaits, Advance
      <4>5. ASSUME PollResize \/ Rebuild PROVE recording' = recording \/ ~recording'
        <5>1. Resize(Head(events)) \/ Resize(width)
          BY <4>5 DEF PollResize, Rebuild
        <5> QED BY <5>1, ResizeCases
      <4>6. ASSUME BeginAcquires PROVE recording' = recording
        BY <4>6 DEF BeginAcquires, AcquireImage
      <4>7. ASSUME Stop PROVE ~recording'
        BY <4>7 DEF Stop, Shutdown
      <4>8. ASSUME Gpu \/ Screen PROVE recording' = recording
        BY <4>8 DEF Gpu, Screen, Finish, Show
      <4> QED
        BY <4>1, <4>2, <4>3, <4>4, <4>5, <4>6, <4>7, <4>8 DEF Next, Host, Sim, Present
    <3>2. pc \in {"begin", "open"}
      BY <3>1 DEF SimBegin, BeginOpens
    <3> QED BY <2>1, <3>2 DEF OneInFlight
  <2> QED BY <2>2, <2>3
<1> HIDE DEF Free1, Free2
<1>4. LoopInv /\ LoopInv' /\ AcquireIsConsumed /\ [Next]_vars
        => [/\ ~recording /\ recording' => pending = <<>>
            /\ pc = "acquire" /\ pc' = "open" /\ "submit" \notin failed
                 => acquire = "unsignaled"]_vars
  BY <1>3 DEF Free1, Free2
<1> QED BY <1>1, <1>2, <1>4, LoopInvAlways, PTL DEF Spec, SingletonsAreFree

(* ----------------------------- the last picture ------------------------- *)
(* A replay whose calls have all gone well: which frame the image shows.    *)
PictureKeepsUp ==
  mode = "sim" /\ failed = {} =>
    /\ pc \in {"start", "build", "begin", "draw"} => picture = frame
    /\ pc = "draw" => recording
    /\ pc = "drain" => IF pending = <<>> THEN picture = frame + 1
                       ELSE pending[1].frame = frame + 1
    /\ pc = "clean" => picture = frame + 1
    /\ pc = "read" => picture = MaxFrames
    /\ pc \in {"stop", "done"} => result = MaxFrames

(* Every step of the replay keeps the picture up with the frame.            *)
LEMMA PictureNext ==
  ASSUME LoopInv, PictureKeepsUp, [Next]_vars
  PROVE  PictureKeepsUp'
<1> SUFFICES ASSUME mode' = "sim", failed' = {} PROVE PictureKeepsUp'
  BY DEF PictureKeepsUp
<1>0. /\ Typed /\ Control /\ OneInFlight /\ pending \in Seq(Job)
      /\ mode \in {"sim", "interactive"} /\ frame \in Nat
  BY DEF LoopInv, Typed, TypeOK
<1> USE DEF rendererVars, hostVars, gpuVars, loopVars
<1>1. ASSUME Start PROVE PictureKeepsUp'
  <2>1. pc = "start" /\ UNCHANGED <<mode, frame>> /\ pc' = "build"
        /\ picture' = picture /\ failed' = failed
    BY <1>1, StartCases
  <2> QED BY <2>1 DEF PictureKeepsUp
<1>2. ASSUME BuildDraw \/ BuildDone PROVE PictureKeepsUp'
  <2>1. /\ UNCHANGED <<mode, frame, picture, failed>>
        /\ pc = "build" /\ pc' \in {"build", "begin", "submit"}
    BY <1>2 DEF BuildDraw, BuildDone
  <2> QED BY <2>1 DEF PictureKeepsUp
<1>3. ASSUME SimBegin PROVE PictureKeepsUp'
  <2>1. /\ UNCHANGED <<mode, frame, picture, failed>> /\ pc = "begin" /\ pc' = "draw"
        /\ recording' = TRUE
    BY <1>3 DEF SimBegin, BeginFrame, Fails
  <2> QED BY <2>1 DEF PictureKeepsUp
<1>4. ASSUME SimDraw PROVE PictureKeepsUp'
  <2>1. pc = "draw" /\ UNCHANGED <<mode, frame, picture>> /\ pending = <<>>
    BY <1>4, SimSubmits
  <2>2. recording /\ failed = {}
    <3>1. failed = {}
      BY <1>4, SimSubmits
    <3> QED BY <2>1, <3>1 DEF PictureKeepsUp
  <2>3. pc' = "drain" /\ pending' = Append(pending, Submission(FrameFence, Recorded, frame + 1))
    BY <1>4, <2>2, SimSubmits
  <2>4. EveryMeshHasADraw /\ Control
    BY DEF LoopInv
  <2>5. Recorded \in SUBSET Mesh
    BY <2>1, <2>4, <1>0, RecordedIsLive DEF Control
  <2>6. pending'[1].frame = frame + 1 /\ Len(pending') = 1
    BY <1>0, <2>1, <2>3, <2>5, Submitted DEF Fences
  <2>7. pending' # <<>>
    BY <2>6, EmptySeq
  <2> QED BY <2>1, <2>3, <2>6, <2>7 DEF PictureKeepsUp
<1>5. ASSUME SimDrain PROVE PictureKeepsUp'
  <2>1. /\ UNCHANGED <<mode, frame, picture, failed>> /\ pc = "drain" /\ pc' = "clean"
        /\ FrameFence \in signaled
    BY <1>5 DEF SimDrain
  <2>2. pending = <<>>
    BY <1>0, <2>1 DEF OneInFlight
  <2> QED BY <2>1, <2>2 DEF PictureKeepsUp
<1>6. ASSUME SimClean PROVE PictureKeepsUp'
  <2>1. /\ UNCHANGED <<mode, picture, failed>> /\ pc = "clean" /\ frame' = frame + 1
        /\ pc' = IF frame' = MaxFrames THEN "read" ELSE "build"
    BY <1>6 DEF SimClean
  <2> QED BY <2>1 DEF PictureKeepsUp
<1>7. ASSUME SimRead PROVE PictureKeepsUp'
  <2>1. /\ UNCHANGED <<mode, picture, failed>> /\ pc = "read" /\ pc' = "stop"
        /\ result' = picture
    BY <1>7 DEF SimRead
  <2> QED BY <2>1 DEF PictureKeepsUp
<1>8. ASSUME Stop PROVE PictureKeepsUp'
  <2>1. UNCHANGED <<mode, failed, result>> /\ pc = "stop" /\ pc' = "done"
    BY <1>8 DEF Stop
  <2> QED BY <2>1 DEF PictureKeepsUp
<1>9. ASSUME Gpu PROVE PictureKeepsUp'
  <2>1. pending # <<>> /\ pending' = <<>> /\ UNCHANGED <<mode, pc, failed, frame, result>>
    BY <1>0, <1>9, Finished DEF Gpu
  <2>2. pc = "drain" /\ pending[1].fence = FrameFence
    BY <1>0, <2>1 DEF OneInFlight
  <2>3. Head(pending) = pending[1]
    BY <1>0, <2>1
  <2>4. picture' = pending[1].frame
    BY <1>9, <2>2, <2>3 DEF Gpu, Finish
  <2> QED BY <2>1, <2>2, <2>4 DEF PictureKeepsUp
<1>10. ASSUME Screen \/ UNCHANGED vars PROVE PictureKeepsUp'
  <2>1. UNCHANGED <<mode, pc, failed, frame, result, picture, recording, pending>>
    BY <1>10 DEF Screen, Show, vars
  <2> QED BY <2>1 DEF PictureKeepsUp
<1>11. ~WindowResizes /\ ~Present
  <2>1. ASSUME Present \/ WindowResizes PROVE mode' = mode
    BY <2>1 DEF Present, WindowResizes, PollResize, PollInput, BeginWaits, BeginAcquires,
       BeginOpens, Clean, Submit, Rebuild, Advance
  <2>2. ASSUME Present \/ WindowResizes
        PROVE  mode = "interactive" \/ pc \in {"poll", "wait", "acquire", "open", "submit",
                                               "rebuild", "advance"}
    BY <2>2 DEF Present, WindowResizes, PollResize, PollInput, BeginWaits, BeginAcquires,
       BeginOpens, Clean, Submit, Rebuild, Advance
  <2> QED BY <1>0, <2>1, <2>2 DEF Control
<1> QED
  BY <1>1, <1>2, <1>3, <1>4, <1>5, <1>6, <1>7, <1>8, <1>9, <1>10, <1>11 DEF Next, Host, Sim

(* The picture read back is the last frame, unless a call failed.           *)
THEOREM PictureIsAlwaysLast == Spec => []PictureIsLast
<1>1. Init => PictureKeepsUp
  BY DEF Init, NotReady, PictureKeepsUp
<1>2. LoopInv /\ PictureKeepsUp /\ [Next]_vars => PictureKeepsUp'
  BY PictureNext
<1>3. PictureKeepsUp => PictureIsLast
  BY DEF PictureKeepsUp, PictureIsLast
<1> QED BY <1>1, <1>2, <1>3, LoopInvAlways, PTL DEF Spec
=============================================================================
