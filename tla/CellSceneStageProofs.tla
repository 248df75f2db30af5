-------------------------- MODULE CellSceneStageProofs --------------------------
(***************************************************************************)
(* Scene stages, for any number of stages, resources, entities and effects *)
(* and any bounds: the textures, the effects and the presentations, each   *)
(* with an invariant of its own, and the refinement of TextureOwnership.   *)
(***************************************************************************)
EXTENDS CellSceneStage, WellFoundedInduction, TLAPS

(* --------------------------- the slot tables ----------------------------- *)
(* A set of naturals has a least member.                                    *)
LEMMA LeastNatural ==
  ASSUME NEW S \in SUBSET Nat, S # {}
  PROVE  \E i \in S : \A j \in S : i <= j
<1>1. IsWellFoundedOn(OpToRel(<, Nat), Nat)
  BY NatLessThanWellFounded
<1>2. PICK i \in S : \A j \in S : ~(<<j, i>> \in OpToRel(<, Nat))
  BY <1>1, WFMin
<1>3. \A j \in S : ~(j < i)
  BY <1>2 DEF OpToRel
<1>4. \A j \in S : i <= j
  <2> TAKE j \in S
  <2>1. i \in Nat /\ j \in Nat /\ ~(j < i)
    BY <1>2, <1>3
  <2> QED BY <2>1
<1> QED BY <1>2, <1>4

(* The slot given out is free.                                              *)
LEMMA SlotForIsFree ==
  ASSUME NEW S, NEW s \in Seq(S)
  PROVE  /\ SlotFor(s) \in 1 .. Len(s) + 1
         /\ SlotFor(s) \in DOMAIN s => s[SlotFor(s)] = Dead
         /\ SlotFor(s) > Len(s) => SlotFor(s) = Len(s) + 1
<1>1. Len(s) \in Nat /\ DOMAIN s = 1 .. Len(s)
  OBVIOUS
<1>2. Free(s) \in SUBSET Nat /\ Len(s) + 1 \in Free(s)
  BY <1>1 DEF Free
<1>3. \E i \in Free(s) : \A j \in Free(s) : i <= j
  BY <1>2, LeastNatural
<1>4. SlotFor(s) \in Free(s)
  BY <1>3 DEF SlotFor
<1> QED BY <1>1, <1>4 DEF Free

(* What a creation leaves: its own entry is the new one, all others stay.   *)
LEMMA StoredShape ==
  ASSUME NEW S, NEW s \in Seq(S), NEW x \in S
  PROVE  /\ Stored(s, x) \in Seq(S)
         /\ DOMAIN Stored(s, x) = DOMAIN s \cup {SlotFor(s)}
         /\ \A i \in DOMAIN s \cup {SlotFor(s)} :
              Stored(s, x)[i] = IF i = SlotFor(s) THEN x ELSE s[i]
<1> DEFINE slot == SlotFor(s)
           n    == IF slot > Len(s) THEN slot ELSE Len(s)
<1>1. /\ Len(s) \in Nat /\ DOMAIN s = 1 .. Len(s)
      /\ slot \in 1 .. Len(s) + 1
      /\ slot > Len(s) => slot = Len(s) + 1
  BY SlotForIsFree
<1>2. n \in Nat /\ 1 .. n = DOMAIN s \cup {slot}
  BY <1>1
<1>3. Stored(s, x) = [i \in 1 .. n |-> IF i = slot THEN x ELSE s[i]]
  BY DEF Stored
<1>4. \A i \in 1 .. n : (IF i = slot THEN x ELSE s[i]) \in S
  BY <1>1, <1>2
<1> HIDE DEF n, slot
<1>5. Stored(s, x) \in Seq(S)
  BY <1>2, <1>3, <1>4
<1>6. /\ DOMAIN Stored(s, x) = DOMAIN s \cup {slot}
      /\ \A i \in DOMAIN s \cup {slot} : Stored(s, x)[i] = IF i = slot THEN x ELSE s[i]
  BY <1>2, <1>3
<1> QED BY <1>5, <1>6 DEF slot

(* A creation fills that slot,                                              *)
LEMMA StoredEntry ==
  ASSUME NEW S, NEW s \in Seq(S), NEW x \in S
  PROVE  Stored(s, x)[SlotFor(s)] = x
  BY StoredShape

(* it leaves the others as they were,                                       *)
LEMMA StoredOthers ==
  ASSUME NEW S, NEW s \in Seq(S), NEW x \in S, NEW i \in DOMAIN s, i # SlotFor(s)
  PROVE  Stored(s, x)[i] = s[i]
<1>1. \A j \in DOMAIN s \cup {SlotFor(s)} :
        Stored(s, x)[j] = IF j = SlotFor(s) THEN x ELSE s[j]
  BY StoredShape
<1> QED BY <1>1

(* and it takes a slot nobody had.                                          *)
LEMMA StoredTaken ==
  ASSUME NEW S, NEW s \in Seq(S), NEW x \in S, x # Dead
  PROVE  /\ SlotFor(s) \notin Taken(s)
         /\ Taken(Stored(s, x)) = Taken(s) \cup {SlotFor(s)}
<1> DEFINE u == Stored(s, x)
<1>1. SlotFor(s) \notin Taken(s)
  BY SlotForIsFree DEF Taken
<1>2. DOMAIN u = DOMAIN s \cup {SlotFor(s)}
  BY StoredShape
<1>3. u[SlotFor(s)] = x
  BY StoredEntry
<1>4. \A i \in DOMAIN s : i # SlotFor(s) => u[i] = s[i]
  BY StoredOthers
<1> HIDE DEF u
<1>5. Taken(u) = Taken(s) \cup {SlotFor(s)}
  BY <1>1, <1>2, <1>3, <1>4 DEF Taken
<1> QED BY <1>1, <1>5 DEF u

(* What a destruction leaves: its handles are dead, all others stay.        *)
LEMMA WithoutEntries ==
  ASSUME NEW S, NEW s \in Seq(S), Dead \in S, NEW handles
  PROVE  /\ Without(s, handles) \in Seq(S)
         /\ DOMAIN Without(s, handles) = DOMAIN s
         /\ \A i \in DOMAIN s : Without(s, handles)[i] = IF i \in handles THEN Dead ELSE s[i]
         /\ Taken(Without(s, handles)) = Taken(s) \ handles
<1>1. Len(s) \in Nat /\ DOMAIN s = 1 .. Len(s)
  OBVIOUS
<1>2. Without(s, handles) = [i \in 1 .. Len(s) |-> IF i \in handles THEN Dead ELSE s[i]]
  BY DEF Without
<1>3. \A i \in 1 .. Len(s) : (IF i \in handles THEN Dead ELSE s[i]) \in S
  BY <1>1
<1>4. Without(s, handles) \in Seq(S)
  BY <1>1, <1>2, <1>3
<1>5. /\ DOMAIN Without(s, handles) = DOMAIN s
      /\ \A i \in DOMAIN s : Without(s, handles)[i] = IF i \in handles THEN Dead ELSE s[i]
  BY <1>1, <1>2
<1>6. Taken(Without(s, handles)) = Taken(s) \ handles
  BY <1>5 DEF Taken
<1> QED BY <1>4, <1>5, <1>6

(* ------------------------- what the stages keep ------------------------- *)
Texture == [stage : Stages, key : Images] \cup {Dead}

(* Where a stage stands in its life while it is preloaded, while it holds   *)
(* resources, and while it is displayed.                                    *)
InOrder ==
  /\ preloading # NoStage => state[preloading] = "initialized"
  /\ \A s \in Stages :
       /\ resources[s] # {} =>
            preloading = s \/ state[s] \in {"preloaded", "displayed", "stopped"}
       /\ state[s] = "displayed" => displayActive[s]

TexturesInv == TypeOK /\ TexturesResolve /\ TexturesAreNeeded /\ InOrder

(* The handles of effects are all below the next one.                       *)
EffectsInv ==
  /\ TypeOK /\ EffectsEndWithTheDisplay /\ InOrder
  /\ \A e \in effects : e < nextEffect

(* A handle that is attached or was detached is below the next one, and     *)
(* none is both.                                                            *)
RegistryInv ==
  /\ TypeOK /\ InOrder
  /\ \A s \in Stages :
       /\ \A b \in bindings[s] : /\ b.presentation < nextPresentation[s]
                                 /\ b.presentation \notin detached[s]
       /\ \A p \in detached[s] : p < nextPresentation[s]

(* ------------------------------- types ---------------------------------- *)
LEMMA TypesInit == Init => TypeOK
<1> SUFFICES ASSUME Init PROVE TypeOK
  OBVIOUS
<1>1. slots \in Seq([stage : Stages, key : Images] \cup {Dead})
  BY DEF Init
<1>2. setsLeft \in 0 .. Sets
  BY StageAssumption DEF Init
<1> QED BY <1>1, <1>2 DEF Init, PresentationInit, TypeOK

(* What becomes of the slots when a stage's textures are released.          *)
LEMMA Cleared ==
  ASSUME NEW s \in Stages, TypeOK, ClearResources(s)
  PROVE  /\ slots' \in Seq(Texture)
         /\ DOMAIN slots' = DOMAIN slots
         /\ \A i \in DOMAIN slots : slots'[i] = IF i \in TexturesOf(s) THEN Dead ELSE slots[i]
         /\ Taken(slots)' = Taken(slots) \ TexturesOf(s)
         /\ textures' = [textures EXCEPT ![s] = {}]
         /\ resources' = [resources EXCEPT ![s] = {}]
         /\ setsLeft' = setsLeft
<1>1. slots \in Seq(Texture) /\ Dead \in Texture
  BY DEF TypeOK, Texture
<1>2. slots' = Without(slots, TexturesOf(s))
  BY DEF ClearResources
<1>3. /\ Without(slots, TexturesOf(s)) \in Seq(Texture)
      /\ DOMAIN Without(slots, TexturesOf(s)) = DOMAIN slots
      /\ \A i \in DOMAIN slots : Without(slots, TexturesOf(s))[i] =
                                   IF i \in TexturesOf(s) THEN Dead ELSE slots[i]
      /\ Taken(Without(slots, TexturesOf(s))) = Taken(slots) \ TexturesOf(s)
  BY <1>1, WithoutEntries
<1> QED BY <1>2, <1>3 DEF ClearResources

(* What becomes of them when a texture is stored.                           *)
LEMMA Uploaded ==
  ASSUME NEW key \in Images, TypeOK, PreloadTexture(key)
  PROVE  /\ preloading \in Stages
         /\ key \notin resources[preloading]
         /\ SlotFor(slots) \in Nat \ {0}
         /\ slots' \in Seq(Texture)
         /\ DOMAIN slots' = DOMAIN slots \cup {SlotFor(slots)}
         /\ slots'[SlotFor(slots)] = [stage |-> preloading, key |-> key]
         /\ \A i \in DOMAIN slots \ {SlotFor(slots)} : slots'[i] = slots[i]
         /\ SlotFor(slots) \notin Taken(slots)
         /\ Taken(slots)' = Taken(slots) \cup {SlotFor(slots)}
<1> DEFINE x == [stage |-> preloading, key |-> key]
<1>1. preloading \in Stages /\ key \notin resources[preloading]
  BY DEF PreloadTexture, Requested, TypeOK
<1>2. slots \in Seq(Texture) /\ x \in Texture /\ x # Dead
  BY <1>1, StageAssumption DEF TypeOK, Texture
<1>3. slots' = Stored(slots, x)
  BY DEF PreloadTexture
<1>4. SlotFor(slots) \in 1 .. Len(slots) + 1 /\ Len(slots) \in Nat
  BY <1>2, SlotForIsFree
<1> HIDE DEF x
<1>5. /\ Stored(slots, x) \in Seq(Texture)
      /\ DOMAIN Stored(slots, x) = DOMAIN slots \cup {SlotFor(slots)}
  BY <1>2, StoredShape
<1>6. Stored(slots, x)[SlotFor(slots)] = x
  BY <1>2, StoredEntry
<1>7. \A i \in DOMAIN slots : i # SlotFor(slots) => Stored(slots, x)[i] = slots[i]
  BY <1>2, StoredOthers
<1>8. /\ SlotFor(slots) \notin Taken(slots)
      /\ Taken(Stored(slots, x)) = Taken(slots) \cup {SlotFor(slots)}
  BY <1>2, StoredTaken
<1> QED BY <1>1, <1>3, <1>4, <1>5, <1>6, <1>7, <1>8 DEF x

(* Every call keeps the types.                                              *)
LEMMA TypesNext == TypeOK /\ [Next]_vars => TypeOK'
<1> SUFFICES ASSUME TypeOK, [Next]_vars PROVE TypeOK'
  OBVIOUS
<1>1. CASE PreloadFails
  <2>1. preloading \in Stages /\ ClearResources(preloading)
    BY <1>1 DEF PreloadFails, TypeOK
  <2>2. slots' \in Seq(Texture) /\ setsLeft' = setsLeft
        /\ textures' = [textures EXCEPT ![preloading] = {}]
        /\ resources' = [resources EXCEPT ![preloading] = {}]
    BY <2>1, Cleared
  <2> QED BY <1>1, <2>1, <2>2 DEF PreloadFails, Goto, registryVars, effectVars, history, TypeOK, Texture
<1>2. CASE PreloadSucceeds
  BY <1>2 DEF PreloadSucceeds, Goto, textureVars, registryVars, effectVars, history, TypeOK
<1>3. CASE SetUpEffects
  BY <1>3 DEF SetUpEffects, PresenterSetUp, stageVars, textureVars, registryVars, history, TypeOK
<1>4. ASSUME NEW key \in Models, PreloadModel(key) PROVE TypeOK'
  BY <1>4 DEF PreloadModel, Requested, Keys, textureVars, registryVars, effectVars, history, TypeOK
<1>5. ASSUME NEW key \in Images, PreloadTexture(key) PROVE TypeOK'
  <2>1. slots' \in Seq(Texture) /\ preloading \in Stages /\ SlotFor(slots) \in Nat \ {0}
    BY <1>5, Uploaded
  <2>2. setsLeft' \in 0 .. Sets
    BY <1>5, StageAssumption DEF PreloadTexture, TypeOK
  <2>3. textures' \in [Stages -> SUBSET [key : Images, gfx : Nat \ {0}]]
        /\ resources' \in [Stages -> SUBSET Keys]
    BY <1>5, <2>1 DEF PreloadTexture, Requested, Keys, TypeOK
  <2> QED BY <1>5, <2>1, <2>2, <2>3 DEF PreloadTexture, registryVars, effectVars, history, TypeOK, Texture
<1>6. ASSUME NEW s \in Stages, Initialize(s) PROVE TypeOK'
  BY <1>6 DEF Initialize, Goto, textureVars, registryVars, effectVars, history, TypeOK
<1>7. ASSUME NEW s \in Stages, PreloadBegins(s) PROVE TypeOK'
  BY <1>7 DEF PreloadBegins, textureVars, registryVars, effectVars, history, TypeOK
<1>8. ASSUME NEW s \in Stages, Display(s) PROVE TypeOK'
  BY <1>8 DEF Display, Goto, textureVars, registryVars, effectVars, history, TypeOK
<1>9. ASSUME NEW s \in Stages, Stop(s) PROVE TypeOK'
  BY <1>9 DEF Stop, ReleaseEffects, Release, Goto, textureVars, registryVars, TypeOK
<1>10. ASSUME NEW s \in Stages, Shutdown(s) PROVE TypeOK'
  <2>1. slots' \in Seq(Texture) /\ setsLeft' = setsLeft
        /\ textures' = [textures EXCEPT ![s] = {}]
        /\ resources' = [resources EXCEPT ![s] = {}]
    BY <1>10, Cleared DEF Shutdown
  <2>2. /\ available' \in BOOLEAN /\ effects' \subseteq Nat /\ nextEffect' \in Nat
        /\ refused' \subseteq Nat /\ activeEffects' \in [Stages -> SUBSET Nat]
    BY <1>10 DEF Shutdown, ReleaseEffects, Release, effectVars, TypeOK
  <2>3. detached' \in [Stages -> SUBSET Nat]
    BY <1>10 DEF Shutdown, TypeOK
  <2>4. /\ bindings' \in [Stages -> SUBSET [entity : Entities, presentation : Nat]]
        /\ nextPresentation' \in [Stages -> Nat]
    BY <1>10 DEF Shutdown, DetachAll, TypeOK
  <2>5. /\ state' \in [Stages -> {"uninitialized", "initialized", "preloaded",
                                  "displayed", "stopped", "shutdown"}]
        /\ displayActive' \in [Stages -> BOOLEAN] /\ preloading' \in Stages \cup {NoStage}
    BY <1>10 DEF Shutdown, Goto, TypeOK
  <2> QED BY <2>1, <2>2, <2>3, <2>4, <2>5 DEF TypeOK, Texture
<1>11. ASSUME NEW s \in Stages, NEW e \in Entities, SpawnEffect(s, e) PROVE TypeOK'
  BY <1>11 DEF SpawnEffect, Spawn, textureVars, registryVars, history, TypeOK
<1>12. ASSUME NEW s \in Stages, NEW e \in Entities, AttachEntity(s, e) PROVE TypeOK'
  BY <1>12 DEF AttachEntity, Attach, stageVars, textureVars, effectVars, history, TypeOK
<1>13. ASSUME NEW s \in Stages, NEW p \in Handles, DetachEntity(s, p) PROVE TypeOK'
  <2>1. p \in Nat
    BY <1>13 DEF DetachEntity, Detach, TypeOK
  <2> QED BY <1>13, <2>1 DEF DetachEntity, Detach, stageVars, textureVars, effectVars, TypeOK
<1>14. ASSUME NEW s \in Stages, NEW c, Submit(s, c) PROVE TypeOK'
  BY <1>14 DEF Submit, stageVars, textureVars, registryVars, effectVars, history, TypeOK
<1>15. CASE UNCHANGED vars
  BY <1>15 DEF vars, stageVars, textureVars, registryVars, effectVars, history, TypeOK
<1> QED
  BY <1>1, <1>2, <1>3, <1>4, <1>5, <1>6, <1>7, <1>8, <1>9, <1>10, <1>11, <1>12, <1>13,
     <1>14, <1>15 DEF Next, Quiet

(* Every reachable state has the types the structures of the code declare.  *)
THEOREM TypeCorrect == Spec => []TypeOK
<1> QED BY TypesInit, TypesNext, PTL DEF Spec

(* ------------------------------ textures -------------------------------- *)
(* What is taken is a texture and belongs to a stage.                       *)
LEMMA TakenIsTexture ==
  ASSUME TypeOK, NEW h \in Taken(slots)
  PROVE  /\ slots[h] \in [stage : Stages, key : Images]
         /\ slots[h].stage \in Stages /\ slots[h].key \in Images
<1>1. slots \in Seq(Texture) /\ h \in DOMAIN slots /\ slots[h] # Dead
  BY DEF TypeOK, Texture, Taken
<1>2. slots[h] \in Texture
  BY <1>1
<1> QED BY <1>1, <1>2 DEF Texture

(* Releasing the textures of one stage leaves those of all others.          *)
LEMMA ClearedResolves ==
  ASSUME TexturesInv, NEW s \in Stages, ClearResources(s)
  PROVE  /\ TexturesResolve'
         /\ \A r \in Stages : /\ \A t, u \in textures'[r] : t.key = u.key => t = u
                              /\ {t.key : t \in textures'[r]} = resources'[r] \cap Images
         /\ resources' = [resources EXCEPT ![s] = {}]
<1>1. TypeOK /\ TexturesResolve /\ TexturesAreNeeded
  BY DEF TexturesInv
<1>2. /\ \A i \in DOMAIN slots : slots'[i] = IF i \in TexturesOf(s) THEN Dead ELSE slots[i]
      /\ Taken(slots)' = Taken(slots) \ TexturesOf(s)
      /\ textures' = [textures EXCEPT ![s] = {}]
      /\ resources' = [resources EXCEPT ![s] = {}]
  BY <1>1, Cleared
<1>3. textures'[s] = {} /\ resources'[s] = {}
      /\ \A r \in Stages \ {s} : textures'[r] = textures[r] /\ resources'[r] = resources[r]
  BY <1>1, <1>2 DEF TypeOK
<1>4. ASSUME NEW r \in Stages, NEW t \in textures'[r]
      PROVE  t.gfx \in Taken(slots)' /\ slots'[t.gfx] = [stage |-> r, key |-> t.key]
  <2>1. r # s /\ t \in textures[r]
    BY <1>3
  <2>2. t.gfx \in Taken(slots) /\ slots[t.gfx] = [stage |-> r, key |-> t.key]
    BY <1>1, <2>1 DEF TexturesResolve
  <2>3. t.gfx \notin TexturesOf(s)
    <3>1. ASSUME NEW u \in textures[s], u.gfx = t.gfx PROVE FALSE
      <4>1. slots[u.gfx] = [stage |-> s, key |-> u.key]
        BY <1>1 DEF TexturesResolve
      <4> QED BY <2>1, <2>2, <3>1, <4>1
    <3> QED BY <3>1 DEF TexturesOf
  <2> QED BY <1>2, <2>2, <2>3 DEF Taken
<1>5. ASSUME NEW h \in Taken(slots)'
      PROVE  [key |-> slots'[h].key, gfx |-> h] \in textures'[slots'[h].stage]
  <2>1. h \in Taken(slots) /\ h \notin TexturesOf(s) /\ slots'[h] = slots[h]
    BY <1>2, <1>5 DEF Taken
  <2>2. [key |-> slots[h].key, gfx |-> h] \in textures[slots[h].stage]
    BY <1>1, <2>1 DEF TexturesResolve
  <2>3. slots[h].stage \in Stages
    BY <1>1, <2>1, TakenIsTexture
  <2>4. slots[h].stage # s
    BY <2>1, <2>2 DEF TexturesOf
  <2> QED BY <1>3, <2>1, <2>2, <2>3, <2>4
<1>6. TexturesResolve'
  BY <1>4, <1>5 DEF TexturesResolve
<1>7. \A r \in Stages : /\ \A t, u \in textures'[r] : t.key = u.key => t = u
                        /\ {t.key : t \in textures'[r]} = resources'[r] \cap Images
  <2> TAKE r \in Stages
  <2>1. CASE r = s
    BY <1>3, <2>1
  <2>2. CASE r # s
    BY <1>1, <1>3, <2>2 DEF TexturesAreNeeded
  <2> QED BY <2>1, <2>2
<1> QED BY <1>2, <1>6, <1>7

(* Storing one for the stage that preloads leaves those of all others too.  *)
LEMMA UploadedResolves ==
  ASSUME TexturesInv, NEW key \in Images, PreloadTexture(key)
  PROVE  /\ TexturesResolve'
         /\ \A r \in Stages : /\ \A t, u \in textures'[r] : t.key = u.key => t = u
                              /\ {t.key : t \in textures'[r]} = resources'[r] \cap Images
<1>1. TypeOK /\ TexturesResolve /\ TexturesAreNeeded
  BY DEF TexturesInv
<1> DEFINE p == preloading
           h == SlotFor(slots)
           new == [key |-> key, gfx |-> h]
<1>2. /\ p \in Stages /\ key \notin resources[p] /\ h \notin Taken(slots)
      /\ slots'[h] = [stage |-> p, key |-> key]
      /\ \A i \in DOMAIN slots \ {h} : slots'[i] = slots[i]
      /\ Taken(slots)' = Taken(slots) \cup {h}
  BY <1>1, Uploaded
<1>3. /\ textures'[p] = textures[p] \cup {new}
      /\ resources'[p] = resources[p] \cup {key}
      /\ \A r \in Stages \ {p} : textures'[r] = textures[r] /\ resources'[r] = resources[r]
  BY <1>1, <1>2 DEF PreloadTexture, Requested, TypeOK
<1>4. new.key = key /\ new.gfx = h
  OBVIOUS
<1> HIDE DEF h, new
<1>5. ASSUME NEW r \in Stages, NEW t \in textures'[r]
      PROVE  t.gfx \in Taken(slots)' /\ slots'[t.gfx] = [stage |-> r, key |-> t.key]
  <2>1. CASE r = p /\ t = new
    BY <1>2, <1>4, <2>1
  <2>2. CASE t \in textures[r]
    <3>1. t.gfx \in Taken(slots) /\ slots[t.gfx] = [stage |-> r, key |-> t.key]
      BY <1>1, <2>2 DEF TexturesResolve
    <3>2. t.gfx # h /\ t.gfx \in DOMAIN slots
      BY <1>2, <3>1 DEF Taken
    <3> QED BY <1>2, <3>1, <3>2
  <2> QED BY <1>2, <1>3, <2>1, <2>2
<1>6. ASSUME NEW g \in Taken(slots)'
      PROVE  [key |-> slots'[g].key, gfx |-> g] \in textures'[slots'[g].stage]
  <2>1. CASE g = h
    BY <1>2, <1>3, <2>1 DEF new
  <2>2. CASE g # h
    <3>1. g \in Taken(slots) /\ slots'[g] = slots[g]
      BY <1>2, <1>6, <2>2 DEF Taken
    <3>2. [key |-> slots[g].key, gfx |-> g] \in textures[slots[g].stage]
          /\ slots[g].stage \in Stages
      BY <1>1, <3>1, TakenIsTexture DEF TexturesResolve
    <3> QED BY <1>3, <3>1, <3>2
  <2> QED BY <2>1, <2>2
<1>7. TexturesResolve'
  BY <1>5, <1>6 DEF TexturesResolve
<1>8. ASSUME NEW r \in Stages
      PROVE  /\ \A t, u \in textures'[r] : t.key = u.key => t = u
             /\ {t.key : t \in textures'[r]} = resources'[r] \cap Images
  <2>1. /\ \A t, u \in textures[r] : t.key = u.key => t = u
        /\ {t.key : t \in textures[r]} = resources[r] \cap Images
    BY <1>1 DEF TexturesAreNeeded
  <2>2. CASE r # p
    BY <1>3, <2>1, <2>2
  <2>3. CASE r = p
    <3>1. \A t \in textures[r] : t.key # key
      BY <1>2, <2>1, <2>3
    <3> QED BY <1>3, <1>4, <2>1, <2>3, <3>1
  <2> QED BY <2>2, <2>3
<1> QED BY <1>7, <1>8

(* ------------------------------- order ---------------------------------- *)
LEMMA InOrderNext ==
  ASSUME TypeOK, InOrder, [Next]_vars
  PROVE  InOrder'
<1>1. NoStage \notin Stages
  BY StageAssumption
<1>2. CASE PreloadFails
  <2>1. preloading \in Stages /\ resources' = [resources EXCEPT ![preloading] = {}]
    BY <1>2 DEF PreloadFails, ClearResources, TypeOK
  <2> QED BY <1>2, <2>1 DEF PreloadFails, Goto, InOrder, TypeOK
<1>3. CASE PreloadSucceeds
  BY <1>3 DEF PreloadSucceeds, Goto, InOrder, TypeOK
<1>4. CASE SetUpEffects
  BY <1>4 DEF SetUpEffects, stageVars, InOrder
<1>5. ASSUME NEW key \in Models, PreloadModel(key) PROVE InOrder'
  BY <1>5 DEF PreloadModel, Requested, InOrder, TypeOK
<1>6. ASSUME NEW key \in Images, PreloadTexture(key) PROVE InOrder'
  BY <1>6 DEF PreloadTexture, Requested, InOrder, TypeOK
<1>7. ASSUME NEW s \in Stages, Initialize(s) PROVE InOrder'
  BY <1>1, <1>7 DEF Initialize, Ready, Goto, InOrder, TypeOK
<1>8. ASSUME NEW s \in Stages, PreloadBegins(s) PROVE InOrder'
  BY <1>1, <1>8 DEF PreloadBegins, Ready, InOrder, TypeOK
<1>9. ASSUME NEW s \in Stages, Display(s) PROVE InOrder'
  BY <1>1, <1>9 DEF Display, Ready, Goto, InOrder, TypeOK
<1>10. ASSUME NEW s \in Stages, Stop(s) PROVE InOrder'
  BY <1>1, <1>10 DEF Stop, Ready, Goto, InOrder, TypeOK
<1>11. ASSUME NEW s \in Stages, Shutdown(s) PROVE InOrder'
  BY <1>1, <1>11 DEF Shutdown, ClearResources, Ready, Goto, InOrder, TypeOK
<1>12. ASSUME NEW s \in Stages, NEW e \in Entities, SpawnEffect(s, e) PROVE InOrder'
  BY <1>12 DEF SpawnEffect, InOrder
<1>13. ASSUME NEW s \in Stages, NEW e \in Entities, AttachEntity(s, e) PROVE InOrder'
  BY <1>13 DEF AttachEntity, stageVars, InOrder
<1>14. ASSUME NEW s \in Stages, NEW p \in Handles, DetachEntity(s, p) PROVE InOrder'
  BY <1>14 DEF DetachEntity, stageVars, InOrder
<1>15. ASSUME NEW s \in Stages, NEW c, Submit(s, c) PROVE InOrder'
  BY <1>15 DEF Submit, stageVars, InOrder
<1>16. CASE UNCHANGED vars
  BY <1>16 DEF vars, stageVars, InOrder
<1> QED
  BY <1>2, <1>3, <1>4, <1>5, <1>6, <1>7, <1>8, <1>9, <1>10, <1>11, <1>12, <1>13, <1>14,
     <1>15, <1>16 DEF Next, Quiet

(* A step either clears the textures of one stage, or uploads one, or does  *)
(* nothing to the textures themselves.                                      *)
LEMMA StepsOnTextures ==
  ASSUME TypeOK, [Next]_vars
  PROVE  \/ \E s \in Stages : ClearResources(s)
         \/ \E key \in Images : PreloadTexture(key)
         \/ /\ textures' = textures /\ slots' = slots
            /\ \A s \in Stages : resources'[s] \cap Images = resources[s] \cap Images
<1> DEFINE Kept == /\ textures' = textures /\ slots' = slots
                   /\ \A s \in Stages : resources'[s] \cap Images = resources[s] \cap Images
<1>1. CASE PreloadFails
  BY <1>1 DEF PreloadFails, TypeOK
<1>2. CASE PreloadSucceeds \/ SetUpEffects
  BY <1>2 DEF PreloadSucceeds, SetUpEffects, stageVars, textureVars
<1>3. ASSUME NEW key \in Models, PreloadModel(key) PROVE Kept
  BY <1>3, StageAssumption DEF PreloadModel, Requested, textureVars, TypeOK
<1>4. ASSUME NEW s \in Stages, Initialize(s) \/ PreloadBegins(s) \/ Display(s) \/ Stop(s)
      PROVE  Kept
  BY <1>4 DEF Initialize, PreloadBegins, Display, Stop, textureVars
<1>5. ASSUME NEW s \in Stages, Shutdown(s) PROVE ClearResources(s)
  BY <1>5 DEF Shutdown
<1>6. ASSUME NEW s \in Stages, NEW e \in Entities, SpawnEffect(s, e) \/ AttachEntity(s, e)
      PROVE  Kept
  BY <1>6 DEF SpawnEffect, AttachEntity, stageVars, textureVars
<1>7. ASSUME NEW s \in Stages, NEW p \in Handles, DetachEntity(s, p) PROVE Kept
  BY <1>7 DEF DetachEntity, stageVars, textureVars
<1>8. ASSUME NEW s \in Stages, NEW c, Submit(s, c) PROVE Kept
  BY <1>8 DEF Submit, stageVars, textureVars
<1>9. CASE UNCHANGED vars
  BY <1>9 DEF vars, stageVars, textureVars
<1> QED
  BY <1>1, <1>2, <1>3, <1>4, <1>5, <1>6, <1>7, <1>8, <1>9 DEF Next, Quiet

(* Nothing is uploaded at the start.                                        *)
LEMMA TexturesInit == Init => TexturesInv
<1> SUFFICES ASSUME Init PROVE TexturesInv
  OBVIOUS
<1>1. TypeOK
  BY TypesInit
<1>2. Taken(slots) = {}
  BY DEF Init, Taken
<1> QED BY <1>1, <1>2 DEF Init, TexturesInv, TexturesResolve, TexturesAreNeeded, InOrder

(* Every call keeps lists and slots in agreement.                           *)
LEMMA TexturesNext == TexturesInv /\ [Next]_vars => TexturesInv'
<1> SUFFICES ASSUME TexturesInv, [Next]_vars PROVE TexturesInv'
  OBVIOUS
<1>1. TypeOK /\ TexturesResolve /\ TexturesAreNeeded /\ InOrder
  BY DEF TexturesInv, TexturesAreNeeded, InOrder
<1>2. TypeOK' /\ InOrder'
  BY <1>1, TypesNext, InOrderNext
<1> DEFINE Listed == \A r \in Stages :
                       /\ \A t, u \in textures'[r] : t.key = u.key => t = u
                       /\ {t.key : t \in textures'[r]} = resources'[r] \cap Images
<1>3. ASSUME NEW s \in Stages, ClearResources(s) PROVE TexturesResolve' /\ Listed
  BY <1>3, ClearedResolves
<1>4. ASSUME NEW key \in Images, PreloadTexture(key) PROVE TexturesResolve' /\ Listed
  BY <1>4, UploadedResolves
<1>5. ASSUME textures' = textures, slots' = slots,
             \A s \in Stages : resources'[s] \cap Images = resources[s] \cap Images
      PROVE  TexturesResolve' /\ Listed
  <2>1. TexturesResolve'
    BY <1>1, <1>5 DEF TexturesResolve, Taken
  <2>2. Listed
    BY <1>1, <1>5 DEF TexturesAreNeeded
  <2> QED BY <2>1, <2>2
<1>6. TexturesResolve' /\ Listed
  BY <1>1, <1>3, <1>4, <1>5, StepsOnTextures
<1> QED BY <1>2, <1>6 DEF TexturesInv, TexturesAreNeeded, InOrder

(* So they always agree.                                                    *)
LEMMA TexturesAlways == Spec => []TexturesInv
<1> QED BY TexturesInit, TexturesNext, PTL DEF Spec

(* A stage's textures are alive, its own, and listed once, and every one    *)
(* that is alive is listed: a preload that fails leaves none behind, and    *)
(* no handle is released twice.                                             *)
THEOREM TexturesAlwaysResolve == Spec => []TexturesResolve
<1>1. TexturesInv => TexturesResolve
  BY DEF TexturesInv
<1> QED BY <1>1, TexturesAlways, PTL

(* A key is uploaded once for a stage, and only a stage between a preload   *)
(* and its shutdown holds textures.                                         *)
THEOREM TexturesAreAlwaysNeeded == Spec => []TexturesAreNeeded
<1>1. TexturesInv => TexturesAreNeeded
  BY DEF TexturesInv
<1> QED BY <1>1, TexturesAlways, PTL

(* ------------------------------- effects -------------------------------- *)
LEMMA EffectsInit == Init => EffectsInv
<1> SUFFICES ASSUME Init PROVE EffectsInv
  OBVIOUS
<1>1. TypeOK
  BY TypesInit
<1>2. effects = {} /\ refused = {} /\ \A s \in Stages : activeEffects[s] = {}
  BY DEF Init, PresentationInit
<1> QED BY <1>1, <1>2 DEF Init, InOrder, EffectsInv, EffectsEndWithTheDisplay

(* Stopping a stage, with the releases the presenter refuses.               *)
LEMMA EffectsStop ==
  ASSUME EffectsInv, NEW s \in Stages,
         \/ \E stuck \in SUBSET activeEffects[s] : ReleaseEffects(s, stuck)
         \/ /\ state[s] # "displayed"
            /\ activeEffects' = [activeEffects EXCEPT ![s] = {}]
            /\ UNCHANGED <<effectVars, refused>>,
         \A r \in Stages \ {s} : /\ state'[r] = state[r]
                                 /\ displayActive'[r] = displayActive[r]
  PROVE  EffectsEndWithTheDisplay' /\ \A e \in effects' : e < nextEffect'
<1>1. /\ TypeOK /\ EffectsEndWithTheDisplay
      /\ \A e \in effects : e < nextEffect
  BY DEF EffectsInv
<1>2. PICK stuck \in SUBSET activeEffects[s] :
        /\ effects' = effects \ (activeEffects[s] \ stuck)
        /\ refused' = refused \cup stuck
        /\ activeEffects' = [activeEffects EXCEPT ![s] = {}]
        /\ nextEffect' = nextEffect
  <2>1. CASE \E stuck \in SUBSET activeEffects[s] : ReleaseEffects(s, stuck)
    BY <2>1 DEF ReleaseEffects, Release
  <2>2. CASE /\ state[s] # "displayed"
             /\ activeEffects' = [activeEffects EXCEPT ![s] = {}]
             /\ UNCHANGED <<effectVars, refused>>
    <3>1. activeEffects[s] = {}
      BY <1>1, <2>2 DEF EffectsEndWithTheDisplay
    <3> QED BY <2>2, <3>1 DEF effectVars
  <2> QED BY <2>1, <2>2
<1>3. activeEffects'[s] = {} /\ \A r \in Stages \ {s} : activeEffects'[r] = activeEffects[r]
  BY <1>1, <1>2 DEF TypeOK
<1>4. effects' = (UNION {activeEffects'[r] : r \in Stages}) \cup refused'
  BY <1>1, <1>2, <1>3 DEF EffectsEndWithTheDisplay
<1>5. ASSUME NEW r \in Stages
      PROVE  /\ activeEffects'[r] # {} => state'[r] = "displayed" /\ displayActive'[r]
             /\ \A q \in Stages \ {r} : activeEffects'[r] \cap activeEffects'[q] = {}
             /\ activeEffects'[r] \cap refused' = {}
  <2>1. CASE r = s
    BY <1>3, <2>1
  <2>2. CASE r # s
    <3>1. /\ activeEffects[r] # {} => state[r] = "displayed" /\ displayActive[r]
          /\ \A q \in Stages \ {r} : activeEffects[r] \cap activeEffects[q] = {}
          /\ activeEffects[r] \cap refused = {}
      BY <1>1 DEF EffectsEndWithTheDisplay
    <3> QED BY <1>2, <1>3, <2>2, <3>1
  <2> QED BY <2>1, <2>2
<1> QED BY <1>1, <1>2, <1>4, <1>5 DEF EffectsEndWithTheDisplay

(* What leaves the effects alone, and every displayed stage displayed.      *)
LEMMA EffectsKept ==
  ASSUME EffectsInv, effects' = effects, nextEffect' = nextEffect,
         activeEffects' = activeEffects, refused' = refused,
         \A r \in Stages : state[r] = "displayed" =>
           state'[r] = "displayed" /\ (displayActive[r] => displayActive'[r])
  PROVE  EffectsEndWithTheDisplay' /\ \A e \in effects' : e < nextEffect'
<1>1. /\ EffectsEndWithTheDisplay
      /\ \A e \in effects : e < nextEffect
  BY DEF EffectsInv
<1> QED BY <1>1 DEF EffectsEndWithTheDisplay

(* A spawned effect gets a handle nobody has.                               *)
LEMMA EffectsSpawn ==
  ASSUME EffectsInv, NEW s \in Stages, NEW owner \in Entities, SpawnEffect(s, owner),
         displayActive[s]
  PROVE  EffectsEndWithTheDisplay' /\ \A e \in effects' : e < nextEffect'
<1>1. /\ TypeOK /\ EffectsEndWithTheDisplay
      /\ \A e \in effects : e < nextEffect
  BY DEF EffectsInv
<1>2. /\ effects' = effects \cup {nextEffect} /\ nextEffect' = nextEffect + 1
      /\ nextEffect \in Nat /\ effects \subseteq Nat
      /\ state[s] = "displayed" /\ state' = state /\ displayActive' = displayActive
      /\ refused' = refused
  BY <1>1 DEF SpawnEffect, Spawn, history, TypeOK
<1>3. /\ activeEffects'[s] = activeEffects[s] \cup {nextEffect}
      /\ \A r \in Stages \ {s} : activeEffects'[r] = activeEffects[r]
  BY <1>1 DEF SpawnEffect, TypeOK
<1>4. \A e \in effects' : e < nextEffect'
  BY <1>1, <1>2
<1>5. nextEffect \notin effects
  BY <1>1, <1>2
<1>6. nextEffect \notin refused /\ \A r \in Stages : nextEffect \notin activeEffects[r]
  BY <1>1, <1>5 DEF EffectsEndWithTheDisplay
<1>7. effects' = (UNION {activeEffects'[r] : r \in Stages}) \cup refused'
  BY <1>1, <1>2, <1>3 DEF EffectsEndWithTheDisplay
<1>8. ASSUME NEW r \in Stages
      PROVE  /\ activeEffects'[r] # {} => state'[r] = "displayed" /\ displayActive'[r]
             /\ \A q \in Stages \ {r} : activeEffects'[r] \cap activeEffects'[q] = {}
             /\ activeEffects'[r] \cap refused' = {}
  <2>1. /\ activeEffects[r] # {} => state[r] = "displayed" /\ displayActive[r]
        /\ \A q \in Stages \ {r} : activeEffects[r] \cap activeEffects[q] = {}
        /\ activeEffects[r] \cap refused = {}
    BY <1>1 DEF EffectsEndWithTheDisplay
  <2> QED BY <1>2, <1>3, <1>6, <2>1
<1> QED BY <1>4, <1>7, <1>8 DEF EffectsEndWithTheDisplay

(* Every call keeps the effects with their display.                         *)
LEMMA EffectsNext == EffectsInv /\ [Next]_vars => EffectsInv'
<1> SUFFICES ASSUME EffectsInv, [Next]_vars PROVE EffectsInv'
  OBVIOUS
<1>1. TypeOK /\ EffectsEndWithTheDisplay /\ InOrder
  BY DEF EffectsInv
<1>2. TypeOK' /\ InOrder'
  BY <1>1, TypesNext, InOrderNext
<1> DEFINE Goal == EffectsEndWithTheDisplay' /\ \A e \in effects' : e < nextEffect'
<1>3. ASSUME PreloadFails \/ PreloadSucceeds PROVE Goal
  <2>1. /\ effects' = effects /\ nextEffect' = nextEffect
        /\ activeEffects' = activeEffects /\ refused' = refused /\ displayActive' = displayActive
    BY <1>3 DEF PreloadFails, PreloadSucceeds, effectVars, history
  <2>2. \A r \in Stages : state[r] = "displayed" => state'[r] = "displayed"
    BY <1>1, <1>3 DEF PreloadFails, PreloadSucceeds, InOrder, Goto, TypeOK
  <2> QED BY <2>1, <2>2, EffectsKept
<1>4. ASSUME SetUpEffects PROVE Goal
  BY <1>4, EffectsKept DEF SetUpEffects, PresenterSetUp, stageVars, history
<1>5. ASSUME NEW key \in Models, PreloadModel(key) PROVE Goal
  BY <1>5, EffectsKept DEF PreloadModel, effectVars, history
<1>6. ASSUME NEW key \in Images, PreloadTexture(key) PROVE Goal
  BY <1>6, EffectsKept DEF PreloadTexture, effectVars, history
<1>7. ASSUME NEW s \in Stages, Initialize(s) \/ Display(s) PROVE Goal
  <2>1. /\ effects' = effects /\ nextEffect' = nextEffect
        /\ activeEffects' = activeEffects /\ refused' = refused
    BY <1>7 DEF Initialize, Display, effectVars, history
  <2>2. \A r \in Stages : state[r] = "displayed" =>
          state'[r] = "displayed" /\ (displayActive[r] => displayActive'[r])
    BY <1>1, <1>7 DEF Initialize, Display, Goto, TypeOK
  <2> QED BY <2>1, <2>2, EffectsKept
<1>8. ASSUME NEW s \in Stages, PreloadBegins(s) PROVE Goal
  BY <1>8, EffectsKept DEF PreloadBegins, effectVars, history
<1>9. ASSUME NEW s \in Stages, Stop(s) \/ Shutdown(s) PROVE Goal
  <2>1. \/ \E stuck \in SUBSET activeEffects[s] : ReleaseEffects(s, stuck)
        \/ /\ state[s] # "displayed"
           /\ activeEffects' = [activeEffects EXCEPT ![s] = {}]
           /\ UNCHANGED <<effectVars, refused>>
    BY <1>9 DEF Stop, Shutdown
  <2>2. \A r \in Stages \ {s} : state'[r] = state[r] /\ displayActive'[r] = displayActive[r]
    BY <1>1, <1>9 DEF Stop, Shutdown, Goto, TypeOK
  <2> QED BY <2>1, <2>2, EffectsStop
<1>10. ASSUME NEW s \in Stages, NEW e \in Entities, SpawnEffect(s, e) PROVE Goal
  <2>1. displayActive[s]
    BY <1>1, <1>10 DEF SpawnEffect, InOrder
  <2> QED BY <1>10, <2>1, EffectsSpawn
<1>11. ASSUME NEW s \in Stages, NEW e \in Entities, AttachEntity(s, e) PROVE Goal
  BY <1>11, EffectsKept DEF AttachEntity, stageVars, effectVars, history
<1>12. ASSUME NEW s \in Stages, NEW p \in Handles, DetachEntity(s, p) PROVE Goal
  BY <1>12, EffectsKept DEF DetachEntity, stageVars, effectVars
<1>13. ASSUME NEW s \in Stages, NEW c, Submit(s, c) PROVE Goal
  BY <1>13, EffectsKept DEF Submit, stageVars, effectVars, history
<1>14. ASSUME UNCHANGED vars PROVE Goal
  BY <1>14, EffectsKept DEF vars, stageVars, effectVars, history
<1>15. Goal
  BY <1>3, <1>4, <1>5, <1>6, <1>7, <1>8, <1>9, <1>10, <1>11, <1>12, <1>13, <1>14
     DEF Next, Quiet
<1> QED BY <1>2, <1>15 DEF EffectsInv

(* An effect that runs belongs to one displayed stage, or its release was   *)
(* refused: a stop and a shutdown leave none behind.                        *)
THEOREM EffectsAlwaysEnd == Spec => []EffectsEndWithTheDisplay
<1>1. EffectsInv => EffectsEndWithTheDisplay
  BY DEF EffectsInv
<1> QED BY <1>1, EffectsInit, EffectsNext, PTL DEF Spec

(* ---------------------------- presentations ----------------------------- *)
LEMMA RegistryInit == Init => RegistryInv
<1> SUFFICES ASSUME Init PROVE RegistryInv
  OBVIOUS
<1>1. TypeOK
  BY TypesInit
<1> QED BY <1>1 DEF Init, PresentationInit, RegistryInv, InOrder

(* What leaves the registries alone.                                        *)
LEMMA RegistryKept ==
  ASSUME RegistryInv, UNCHANGED <<bindings, nextPresentation, detached>>,
         TypeOK', InOrder'
  PROVE  RegistryInv'
  BY DEF RegistryInv

(* Every call keeps the bindings older than the next handle.                *)
LEMMA RegistryNext == RegistryInv /\ [Next]_vars => RegistryInv'
<1> SUFFICES ASSUME RegistryInv, [Next]_vars PROVE RegistryInv'
  OBVIOUS
<1>1. /\ TypeOK /\ InOrder
      /\ \A s \in Stages :
           /\ \A b \in bindings[s] : /\ b.presentation < nextPresentation[s]
                                     /\ b.presentation \notin detached[s]
           /\ \A p \in detached[s] : p < nextPresentation[s]
  BY DEF RegistryInv
<1>2. TypeOK' /\ InOrder'
  BY <1>1, TypesNext, InOrderNext
<1>3. CASE PreloadFails \/ PreloadSucceeds \/ SetUpEffects
  BY <1>2, <1>3, RegistryKept DEF PreloadFails, PreloadSucceeds, SetUpEffects, registryVars, history
<1>4. CASE \/ \E key \in Models : PreloadModel(key)
           \/ \E key \in Images : PreloadTexture(key)
  BY <1>2, <1>4, RegistryKept DEF PreloadModel, PreloadTexture, registryVars, history
<1>5. ASSUME NEW s \in Stages, Initialize(s) \/ PreloadBegins(s) \/ Display(s) \/ Stop(s)
      PROVE  RegistryInv'
  BY <1>2, <1>5, RegistryKept DEF Initialize, PreloadBegins, Display, Stop, registryVars, history
<1>6. ASSUME NEW s \in Stages, Shutdown(s) PROVE RegistryInv'
  <2>1. /\ bindings' = [bindings EXCEPT ![s] = {}] /\ nextPresentation' = nextPresentation
        /\ detached' = [detached EXCEPT ![s] = @ \cup {b.presentation : b \in bindings[s]}]
    BY <1>6 DEF Shutdown, DetachAll
  <2> QED BY <1>1, <1>2, <2>1 DEF RegistryInv, TypeOK
<1>7. ASSUME NEW s \in Stages, NEW e \in Entities, SpawnEffect(s, e) PROVE RegistryInv'
  BY <1>2, <1>7, RegistryKept DEF SpawnEffect, registryVars, history
<1>8. ASSUME NEW s \in Stages, NEW e \in Entities, AttachEntity(s, e) PROVE RegistryInv'
  <2> DEFINE new == [entity |-> e, presentation |-> nextPresentation[s]]
  <2>1. /\ bindings' = [bindings EXCEPT ![s] = @ \cup {new}]
        /\ nextPresentation' = [nextPresentation EXCEPT ![s] = @ + 1]
        /\ detached' = detached
    BY <1>8 DEF AttachEntity, Attach, history
  <2>2. new.presentation = nextPresentation[s]
    OBVIOUS
  <2>3. /\ nextPresentation[s] \in Nat /\ nextPresentation[s] \notin detached[s]
        /\ detached[s] \subseteq Nat
        /\ \A b \in bindings[s] : b.presentation \in Nat
    BY <1>1 DEF TypeOK
  <2>4. /\ bindings'[s] = bindings[s] \cup {new}
        /\ nextPresentation'[s] = nextPresentation[s] + 1
        /\ \A r \in Stages \ {s} : /\ bindings'[r] = bindings[r]
                                   /\ nextPresentation'[r] = nextPresentation[r]
    BY <1>1, <2>1 DEF TypeOK
  <2> HIDE DEF new
  <2>5. ASSUME NEW r \in Stages
        PROVE  /\ \A b \in bindings'[r] : /\ b.presentation < nextPresentation'[r]
                                          /\ b.presentation \notin detached'[r]
               /\ \A p \in detached'[r] : p < nextPresentation'[r]
    <3>1. CASE r = s
      BY <1>1, <2>1, <2>2, <2>3, <2>4, <3>1
    <3>2. CASE r # s
      BY <1>1, <2>1, <2>4, <3>2
    <3> QED BY <3>1, <3>2
  <2> QED BY <1>2, <2>5 DEF RegistryInv
<1>9. ASSUME NEW s \in Stages, NEW p \in Handles, DetachEntity(s, p) PROVE RegistryInv'
  <2>1. /\ bindings' = [bindings EXCEPT ![s] = {b \in @ : b.presentation # p}]
        /\ nextPresentation' = nextPresentation
        /\ detached' = [detached EXCEPT ![s] = @ \cup {p}]
        /\ \E b \in bindings[s] : b.presentation = p
    BY <1>9 DEF DetachEntity, Detach
  <2>2. p < nextPresentation[s]
    BY <1>1, <2>1
  <2> QED BY <1>1, <1>2, <2>1, <2>2 DEF RegistryInv, TypeOK
<1>10. ASSUME NEW s \in Stages, NEW c, Submit(s, c) PROVE RegistryInv'
  BY <1>2, <1>10, RegistryKept DEF Submit, registryVars, history
<1>11. CASE UNCHANGED vars
  BY <1>2, <1>11, RegistryKept DEF vars, registryVars, history
<1> QED
  BY <1>3, <1>4, <1>5, <1>6, <1>7, <1>8, <1>9, <1>10, <1>11 DEF Next, Quiet

(* No batch reaches the render queue with a presentation that was detached  *)
(* before: a command names an association as it is at that moment.          *)
THEOREM NothingDetachedIsEverDrawn == Spec => NothingDetachedIsDrawn
<1> DEFINE Draws ==
      batch' # NoBatch =>
        LET s == batch'.stage
        IN  /\ displayActive[s]
            /\ \A c \in batch'.commands :
                 /\ c.presentation \notin detached[s]
                 /\ HasPresentation(s, c.entity)
<1>1. RegistryInv /\ [Next]_vars => [Draws]_vars
  <2> SUFFICES ASSUME RegistryInv, Next PROVE Draws
    BY DEF RegistryInv
  <2>1. CASE Quiet /\ batch' = NoBatch
    BY <2>1
  <2>2. ASSUME NEW s \in Stages, NEW commands, Submit(s, commands) PROVE Draws
    <3>1. batch' = [stage |-> s, commands |-> commands] /\ commands \subseteq bindings[s]
          /\ state[s] = "displayed"
      BY <2>2 DEF Submit
    <3>2. batch'.stage = s /\ batch'.commands = commands
      BY <3>1
    <3>3. displayActive[s] /\ \A b \in bindings[s] : b.presentation \notin detached[s]
      BY <3>1 DEF RegistryInv, InOrder
    <3> QED BY <3>1, <3>2, <3>3 DEF HasPresentation
  <2> QED BY <2>1, <2>2 DEF Next
<1> QED BY <1>1, RegistryInit, RegistryNext, PTL DEF Spec, NothingDetachedIsDrawn

(* ------------------------------ ownership ------------------------------- *)
(* The owner of a handle is the stage its slot was stored for.              *)
OwnerIsStored ==
  \A h \in 1 .. Sets : Owner(h) = IF h \in Taken(slots) THEN slots[h].stage ELSE NoStage

(* A taken slot is on its stage's list.                                     *)
LEMMA TakenIsListed ==
  ASSUME TexturesResolve, NEW h \in Taken(slots)
  PROVE  h \in TexturesOf(slots[h].stage)
<1> DEFINE t == [key |-> slots[h].key, gfx |-> h]
<1>1. t \in textures[slots[h].stage]
  BY DEF TexturesResolve
<1>2. t.gfx = h
  OBVIOUS
<1> QED BY <1>1, <1>2 DEF TexturesOf

(* Owner, which looks in the lists, agrees with the slots.                  *)
LEMMA OwnerOfHandle == TexturesInv => OwnerIsStored
<1> SUFFICES ASSUME TexturesInv, NEW h \in Taken(slots) PROVE Owner(h) = slots[h].stage
  BY DEF OwnerIsStored, Owner
<1>1. TypeOK /\ TexturesResolve
  BY DEF TexturesInv
<1>2. slots[h].stage \in Stages /\ h \in TexturesOf(slots[h].stage)
  BY <1>1, TakenIsTexture, TakenIsListed
<1>3. ASSUME NEW s \in Stages, h \in TexturesOf(s) PROVE s = slots[h].stage
  <2>1. PICK t \in textures[s] : t.gfx = h
    BY <1>3 DEF TexturesOf
  <2>2. slots[h] = [stage |-> s, key |-> t.key]
    BY <1>1, <2>1 DEF TexturesResolve
  <2> QED BY <2>2
<1> QED BY <1>2, <1>3 DEF Owner

(* Stages share the texture handles as TextureOwnership says: a handle has  *)
(* one owner at most, and comes back with all the others of its owner.      *)
THEOREM TexturesAreAlwaysShared == Spec => TexturesAreShared
<1> DEFINE own == [h \in 1 .. Sets |-> Owner(h)]
<1>1. Init => Ownership!Init
  BY DEF Init, Ownership!Init, Owner, Taken
<1>2. TexturesInv => OwnerIsStored
  BY OwnerOfHandle
<1>3. TexturesInv /\ OwnerIsStored /\ TexturesInv' /\ OwnerIsStored' /\ [Next]_vars
        => [Ownership!Next]_own
  <2> SUFFICES ASSUME TexturesInv, OwnerIsStored, TexturesInv', OwnerIsStored', [Next]_vars
               PROVE  Ownership!Next \/ own' = own
    OBVIOUS
  <2>1. TypeOK /\ TexturesResolve
    BY DEF TexturesInv
  <2>2. own' = [h \in 1 .. Sets |-> IF h \in Taken(slots)' THEN slots'[h].stage ELSE NoStage]
    BY DEF OwnerIsStored
  <2>3. own = [h \in 1 .. Sets |-> IF h \in Taken(slots) THEN slots[h].stage ELSE NoStage]
    BY DEF OwnerIsStored
  <2>4. ASSUME NEW s \in Stages, ClearResources(s) PROVE Ownership!GiveBack(s)
    <3>1. /\ Taken(slots)' = Taken(slots) \ TexturesOf(s)
          /\ \A i \in DOMAIN slots : slots'[i] = IF i \in TexturesOf(s) THEN Dead ELSE slots[i]
      BY <2>1, <2>4, Cleared
    <3>2. ASSUME NEW h \in Taken(slots)
          PROVE  h \in TexturesOf(s) <=> slots[h].stage = s
      <4>1. ASSUME NEW t \in textures[s], t.gfx = h PROVE slots[h].stage = s
        <5>1. slots[h] = [stage |-> s, key |-> t.key]
          BY <2>1, <4>1 DEF TexturesResolve
        <5> QED BY <5>1
      <4>2. slots[h].stage = s => h \in TexturesOf(s)
        BY <2>1, TakenIsListed
      <4> QED BY <4>1, <4>2 DEF TexturesOf
    <3>3. ASSUME NEW h \in 1 .. Sets
          PROVE  own'[h] = IF own[h] = s THEN NoStage ELSE own[h]
      <4>1. own[h] = IF h \in Taken(slots) THEN slots[h].stage ELSE NoStage
        BY <2>3
      <4>2. own'[h] = IF h \in Taken(slots)' THEN slots'[h].stage ELSE NoStage
        BY <2>2
      <4>3. CASE h \in Taken(slots)
        <5>1. h \in DOMAIN slots
          BY <4>3 DEF Taken
        <5> QED BY <3>1, <3>2, <4>1, <4>2, <4>3, <5>1
      <4>4. CASE h \notin Taken(slots)
        BY <3>1, <4>1, <4>2, <4>4
      <4> QED BY <4>3, <4>4
    <3> HIDE DEF own
    <3>4. own' = [h \in 1 .. Sets |-> IF own[h] = s THEN NoStage ELSE own[h]]
      BY <2>2, <3>3
    <3> QED BY <2>3, <3>4 DEF Ownership!GiveBack, own
  <2>5. ASSUME NEW key \in Images, PreloadTexture(key)
        PROVE  Ownership!Next \/ own' = own
    <3> DEFINE h == SlotFor(slots)
    <3>1. /\ preloading \in Stages /\ h \notin Taken(slots)
          /\ slots'[h] = [stage |-> preloading, key |-> key]
          /\ \A i \in DOMAIN slots \ {h} : slots'[i] = slots[i]
          /\ Taken(slots)' = Taken(slots) \cup {h}
      BY <2>1, <2>5, Uploaded
    <3> HIDE DEF h
    <3>2. ASSUME NEW g \in 1 .. Sets
          PROVE  own'[g] = IF g = h THEN preloading ELSE own[g]
      <4>1. CASE g \in Taken(slots)
        <5>1. g \in DOMAIN slots /\ g # h
          BY <3>1, <4>1 DEF Taken
        <5> QED BY <2>2, <2>3, <3>1, <4>1, <5>1
      <4>2. CASE g \notin Taken(slots)
        BY <2>2, <2>3, <3>1, <4>2
      <4> QED BY <4>1, <4>2
    <3>3. CASE h \in 1 .. Sets
      <4>1. own[h] = NoStage
        BY <2>3, <3>1, <3>3
      <4>2. own' = [own EXCEPT ![h] = preloading]
        BY <3>2
      <4> QED BY <3>1, <3>3, <4>1, <4>2 DEF Ownership!Take, Ownership!Next
    <3>4. CASE h \notin 1 .. Sets
      BY <3>2, <3>4
    <3> QED BY <3>3, <3>4
  <2>6. ASSUME textures' = textures, slots' = slots PROVE own' = own
    BY <2>2, <2>3, <2>6 DEF Taken
  <2> QED BY <2>1, <2>4, <2>5, <2>6, StepsOnTextures DEF Ownership!Next
<1> QED BY <1>1, <1>2, <1>3, TexturesAlways, PTL DEF Spec, TexturesAreShared, Ownership!Spec
=============================================================================
