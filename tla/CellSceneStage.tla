----------------------------- MODULE CellSceneStage -----------------------------
(***************************************************************************)
(* CellSceneStage.cpp: scene stages that share one texture store over one  *)
(* renderer, and one effect presenter. A stage goes through its states in  *)
(* order, takes textures while it preloads, runs effects while it is       *)
(* displayed, and owes all of them back. The game calls in any order: what *)
(* a state refuses changes nothing and is left out.                        *)
(***************************************************************************)
EXTENDS CellPresentation, Slots

CONSTANTS
  Models, Images,   \* keys of the models and the textures a preload names
  Sets,             \* descriptor sets of the renderer's pool (16 in the code)
  NoStage

ASSUME StageAssumption ==
  /\ NoStage \notin Stages
  /\ Models \cap Images = {}
  /\ Sets \in Nat
  /\ Dead \notin [stage : Stages, key : Images]

Keys == Models \cup Images

VARIABLES
  state,       \* SceneStageState of each stage
  resources,   \* per stage: resources_, the keys
  textures,    \* per stage: textureResources_, [key, gfx]
  activeEffects,
  displayActive,    \* of the stage's CellGfx
  preloading,       \* the stage whose preload() runs, or NoStage
  slots,            \* the renderer's textures_: [stage, key], for the properties
  setsLeft,         \* descriptor sets not yet allocated; none comes back
  batch,            \* what the render queue took in the last step
  detached,         \* history: presentation handles that were detached
  refused           \* history: effects the presenter refused to release

stageVars == <<state, resources, textures, activeEffects, displayActive, preloading>>
textureVars == <<slots, setsLeft>>
history == <<detached, refused>>
vars == <<stageVars, textureVars, registryVars, effectVars, history, batch>>

NoBatch == [stage |-> NoStage, commands |-> {}]

Init ==
  /\ PresentationInit
  /\ state = [s \in Stages |-> "uninitialized"]
  /\ resources = [s \in Stages |-> {}]
  /\ textures = [s \in Stages |-> {}]
  /\ activeEffects = [s \in Stages |-> {}]
  /\ displayActive = [s \in Stages |-> FALSE]
  /\ preloading = NoStage
  /\ slots = <<>> /\ setsLeft = Sets
  /\ batch = NoBatch
  /\ detached = [s \in Stages |-> {}]
  /\ refused = {}

(* The stages run on one thread: nothing else happens during a preload.     *)
Ready == preloading = NoStage

Goto(s, st) == state' = [state EXCEPT ![s] = st]

(* The handles releaseTextures gives back.                                  *)
TexturesOf(s) == {t.gfx : t \in textures[s]}

(* Mutant: the textures are released but stay listed.                       *)
ClearKeepsList(s) ==
  /\ slots' = Without(slots, TexturesOf(s))
  /\ resources' = [resources EXCEPT ![s] = {}]
  /\ UNCHANGED <<textures, setsLeft>>

(* releaseTextures and the clearing of the resource lists: clearPreloadState*)
(* and the resources' half of clearState.                                   *)
ClearResources(s) ==
  /\ slots' = Without(slots, TexturesOf(s))
  /\ textures' = [textures EXCEPT ![s] = {}]
  /\ resources' = [resources EXCEPT ![s] = {}]
  /\ UNCHANGED setsLeft

(* initialize: the worlds and the HUD are built, nothing is shown.          *)
Initialize(s) ==
  /\ Ready /\ state[s] = "uninitialized"
  /\ Goto(s, "initialized")
  /\ displayActive' = [displayActive EXCEPT ![s] = FALSE]
  /\ UNCHANGED <<resources, textures, activeEffects, preloading, textureVars,
                 registryVars, effectVars, history>>

(* -------------------------------- preload ------------------------------- *)
(* preload() goes through its requests in order; the list is any list.      *)
PreloadBegins(s) ==
  /\ Ready /\ state[s] = "initialized"
  /\ preloading' = s
  /\ UNCHANGED <<state, resources, textures, activeEffects, displayActive,
                 textureVars, registryVars, effectVars, history>>

Requested(key) ==
  /\ preloading # NoStage
  /\ key \notin resources[preloading]
  /\ resources' = [resources EXCEPT ![preloading] = @ \cup {key}]

(* A model the store reads; it is kept as data, with no device resource. A  *)
(* request that repeats a resource is answered from the list.               *)
PreloadModel(key) ==
  /\ Requested(key)
  /\ UNCHANGED <<state, textures, activeEffects, displayActive, preloading,
                 textureVars, registryVars, effectVars, history>>

(* Mutant: a repeated texture request uploads the image once more.          *)
PreloadTextureAgain(key) ==
  /\ preloading # NoStage
  /\ setsLeft > 0 /\ setsLeft' = setsLeft - 1
  /\ slots' = Stored(slots, [stage |-> preloading, key |-> key])
  /\ textures' = [textures EXCEPT ![preloading] =
                    @ \cup {[key |-> key, gfx |-> SlotFor(slots)]}]
  /\ resources' = [resources EXCEPT ![preloading] = @ \cup {key}]
  /\ UNCHANGED <<state, activeEffects, displayActive, preloading, registryVars,
                 effectVars, history>>

(* A texture that is read, decoded and uploaded (TextureStore, then         *)
(* createTexture, which needs a descriptor set).                            *)
PreloadTexture(key) ==
  /\ Requested(key)
  /\ setsLeft > 0 /\ setsLeft' = setsLeft - 1
  /\ slots' = Stored(slots, [stage |-> preloading, key |-> key])
  /\ textures' = [textures EXCEPT ![preloading] =
                    @ \cup {[key |-> key, gfx |-> SlotFor(slots)]}]
  /\ UNCHANGED <<state, activeEffects, displayActive, preloading, registryVars,
                 effectVars, history>>

(* Mutant: a request that fails undoes one texture, and the rest goes on.   *)
PreloadDropsOne ==
  /\ preloading # NoStage
  /\ \E t \in textures[preloading] :
       /\ slots' = Without(slots, {t.gfx})
       /\ textures' = [textures EXCEPT ![preloading] = @ \ {t}]
       /\ resources' = [resources EXCEPT ![preloading] = @ \ {t.key}]
  /\ UNCHANGED <<state, preloading, setsLeft, activeEffects, displayActive,
                 registryVars, effectVars, history>>

(* Any request can fail: an incomplete key, a record that does not load, an *)
(* upload refused, a kind no port serves. All of it is undone.              *)
PreloadFails ==
  /\ preloading # NoStage
  /\ ClearResources(preloading)
  /\ Goto(preloading, "initialized")
  /\ preloading' = NoStage
  /\ UNCHANGED <<activeEffects, displayActive, registryVars, effectVars, history>>

PreloadSucceeds ==
  /\ preloading # NoStage
  /\ Goto(preloading, "preloaded")
  /\ preloading' = NoStage
  /\ UNCHANGED <<resources, textures, activeEffects, displayActive, textureVars,
                 registryVars, effectVars, history>>

(* ------------------------- display, stop, shutdown ---------------------- *)
Display(s) ==
  /\ Ready /\ state[s] = "preloaded"
  /\ displayActive' = [displayActive EXCEPT ![s] = TRUE]
  /\ Goto(s, "displayed")
  /\ UNCHANGED <<resources, textures, activeEffects, preloading, textureVars,
                 registryVars, effectVars, history>>

(* Mutant: the first refusal ends the release of the effects.               *)
ReleaseEffectsUntil(s, stuck) ==
  /\ Release(IF stuck = {} THEN activeEffects[s]
             ELSE {e \in activeEffects[s] : \A r \in stuck : e < r})
  /\ activeEffects' = [activeEffects EXCEPT ![s] = {}]
  /\ refused' = refused \cup stuck

(* releaseEffects: every effect is released and forgotten, those too whose  *)
(* release the presenter port answers with an error and which stay running. *)
ReleaseEffects(s, stuck) ==
  /\ Release(activeEffects[s] \ stuck)
  /\ activeEffects' = [activeEffects EXCEPT ![s] = {}]
  /\ refused' = refused \cup stuck

Stop(s) ==
  /\ Ready /\ state[s] = "displayed"
  /\ \E stuck \in SUBSET activeEffects[s] : ReleaseEffects(s, stuck)
  /\ displayActive' = [displayActive EXCEPT ![s] = FALSE]
  /\ Goto(s, "stopped")
  /\ UNCHANGED <<resources, textures, preloading, textureVars, registryVars,
                 detached>>

(* shutdown, from any state, and the destructor; a displayed stage is       *)
(* stopped first. A second one does nothing.                                *)
Shutdown(s) ==
  /\ Ready /\ state[s] # "shutdown"
  /\ IF state[s] = "displayed"
     THEN \E stuck \in SUBSET activeEffects[s] : ReleaseEffects(s, stuck)
     ELSE /\ activeEffects' = [activeEffects EXCEPT ![s] = {}]
          /\ UNCHANGED <<effectVars, refused>>
  /\ displayActive' = [displayActive EXCEPT ![s] = FALSE]
  /\ detached' = [detached EXCEPT ![s] = @ \cup {b.presentation : b \in bindings[s]}]
  /\ DetachAll(s)
  /\ ClearResources(s)
  /\ Goto(s, "shutdown")
  /\ UNCHANGED preloading

(* --------------------------- while displayed ---------------------------- *)
(* spawnEffect, when the presenter answers with a handle.                   *)
SpawnEffect(s, owner) ==
  /\ Ready /\ state[s] = "displayed"
  /\ HasPresentation(s, owner)
  /\ Spawn
  /\ activeEffects' = [activeEffects EXCEPT ![s] = @ \cup {nextEffect}]
  /\ UNCHANGED <<state, resources, textures, displayActive, preloading,
                 textureVars, registryVars, history>>

(* submit: the queue gets the batch when every command of it names an       *)
(* association as it is now, and nothing otherwise.                         *)
Submit(s, commands) ==
  /\ Ready /\ state[s] = "displayed"
  /\ commands \subseteq bindings[s]
  /\ batch' = [stage |-> s, commands |-> commands]
  /\ UNCHANGED <<stageVars, textureVars, registryVars, effectVars, history>>

(* The registry is the game's to use, in every state of the stage.          *)
AttachEntity(s, e) ==
  /\ Ready /\ Attach(s, e)
  /\ UNCHANGED <<stageVars, textureVars, effectVars, history>>

DetachEntity(s, p) ==
  /\ Ready /\ Detach(s, p)
  /\ detached' = [detached EXCEPT ![s] = @ \cup {p}]
  /\ UNCHANGED <<stageVars, textureVars, effectVars, refused>>

(* The presenter too: the game sets it up, and runs an effect of its own.   *)
SetUpEffects ==
  /\ Ready /\ PresenterSetUp
  /\ UNCHANGED <<stageVars, textureVars, registryVars, history>>

Handles == 1 .. MaxPresentations
Commands == [entity : Entities, presentation : Handles]

Quiet ==
  \/ PreloadFails \/ PreloadSucceeds \/ SetUpEffects
  \/ \E key \in Models : PreloadModel(key)
  \/ \E key \in Images : PreloadTexture(key)
  \/ \E s \in Stages :
       \/ Initialize(s) \/ PreloadBegins(s) \/ Display(s) \/ Stop(s) \/ Shutdown(s)
       \/ \E e \in Entities : SpawnEffect(s, e) \/ AttachEntity(s, e)
       \/ \E p \in Handles : DetachEntity(s, p)

Next ==
  \/ Quiet /\ batch' = NoBatch
  \/ \E s \in Stages : \E c, d \in Commands : Submit(s, {c, d})

Spec == Init /\ [][Next]_vars

TypeOK ==
  /\ state \in [Stages -> {"uninitialized", "initialized", "preloaded",
                           "displayed", "stopped", "shutdown"}]
  /\ resources \in [Stages -> SUBSET Keys]
  /\ textures \in [Stages -> SUBSET [key : Images, gfx : Nat \ {0}]]
  /\ activeEffects \in [Stages -> SUBSET Nat]
  /\ displayActive \in [Stages -> BOOLEAN]
  /\ preloading \in Stages \cup {NoStage}
  /\ slots \in Seq([stage : Stages, key : Images] \cup {Dead})
  /\ setsLeft \in 0 .. Sets
  /\ bindings \in [Stages -> SUBSET [entity : Entities, presentation : Nat]]
  /\ nextPresentation \in [Stages -> Nat]
  /\ available \in BOOLEAN
  /\ effects \subseteq Nat /\ nextEffect \in Nat
  /\ detached \in [Stages -> SUBSET Nat]
  /\ refused \subseteq Nat

(* ------------------------------ properties ------------------------------ *)
(* A texture a stage lists is alive, is the one it uploaded under that key, *)
(* and is listed once; a texture that is alive is listed by its stage. So a *)
(* preload that fails at any request leaves none behind, and a handle that  *)
(* was released and given to another stage is never released again          *)
(* (CellSceneStage.cpp:133, :327; VulkanRenderer.cpp:1758).                 *)
TexturesResolve ==
  /\ \A s \in Stages : \A t \in textures[s] :
       /\ t.gfx \in Taken(slots)
       /\ slots[t.gfx] = [stage |-> s, key |-> t.key]
  /\ \A h \in Taken(slots) :
       [key |-> slots[h].key, gfx |-> h] \in textures[slots[h].stage]

(* A key is uploaded once for a stage, and only a stage between a preload   *)
(* and its shutdown holds any texture.                                      *)
TexturesAreNeeded ==
  \A s \in Stages :
    /\ \A t, u \in textures[s] : t.key = u.key => t = u
    /\ {t.key : t \in textures[s]} = resources[s] \cap Images
    /\ resources[s] # {} =>
         preloading = s \/ state[s] \in {"preloaded", "displayed", "stopped"}

(* The handles of the shared renderer as the ownership protocol sees them.  *)
Owner(h) ==
  IF h \notin Taken(slots) THEN NoStage
  ELSE IF \E s \in Stages : h \in TexturesOf(s)
       THEN CHOOSE s \in Stages : h \in TexturesOf(s)
       ELSE "leaked"

Ownership == INSTANCE TextureOwnership WITH
  Nobody <- NoStage, owner <- [h \in 1 .. Sets |-> Owner(h)]

(* The stages share the texture handles as TextureOwnership says.           *)
TexturesAreShared == Ownership!Spec

(* An effect that runs belongs to one displayed stage, or is one whose      *)
(* release the presenter refused: neither stop nor shutdown leaves one      *)
(* behind, in whatever state the stage was (CellSceneStage.cpp:315).        *)
EffectsEndWithTheDisplay ==
  /\ effects = (UNION {activeEffects[s] : s \in Stages}) \cup refused
  /\ \A s \in Stages :
       /\ activeEffects[s] # {} => state[s] = "displayed" /\ displayActive[s]
       /\ \A t \in Stages \ {s} : activeEffects[s] \cap activeEffects[t] = {}
       /\ activeEffects[s] \cap refused = {}

(* No batch reaches the render queue with a command whose presentation was  *)
(* detached before, though its entity may be attached again: the batch is   *)
(* taken whole or not at all (CellSceneStage.cpp:286-292).                  *)
NothingDetachedIsDrawn ==
  [][batch' # NoBatch =>
       LET s == batch'.stage
       IN  /\ displayActive[s]
           /\ \A c \in batch'.commands :
                /\ c.presentation \notin detached[s]
                /\ HasPresentation(s, c.entity)]_vars
=============================================================================
