---------------------------- MODULE CellPresentation ----------------------------
(***************************************************************************)
(* CellPresentation.cpp: each stage's registry of entities with a          *)
(* presentation, and the one effect presenter the stages share. Handles    *)
(* of both count up and are never given twice. Arguments an operation      *)
(* refuses (no identity, no view, a bad transform) change nothing.         *)
(***************************************************************************)
EXTENDS Integers, Sequences

CONSTANTS
  Stages,
  Entities,           \* identities the game gives its entities
  MaxPresentations,   \* bound: attachments of one registry
  MaxEffects          \* bound: effects spawned

VARIABLES
  bindings,           \* per registry, the set of [entity, presentation]
  nextPresentation,
  available,          \* the backend is, and the effect's definition is retained
  effects,            \* the effects that are running
  nextEffect

registryVars == <<bindings, nextPresentation>>
effectVars   == <<available, effects, nextEffect>>

PresentationInit ==
  /\ bindings = [s \in Stages |-> {}]
  /\ nextPresentation = [s \in Stages |-> 1]
  /\ available = FALSE
  /\ effects = {} /\ nextEffect = 1

HasPresentation(s, e) == \E b \in bindings[s] : b.entity = e

(* EntityPresentationRegistry::attach.                                      *)
Attach(s, e) ==
  /\ nextPresentation[s] <= MaxPresentations
  /\ ~HasPresentation(s, e)
  /\ bindings' = [bindings EXCEPT ![s] =
                    @ \cup {[entity |-> e, presentation |-> nextPresentation[s]]}]
  /\ nextPresentation' = [nextPresentation EXCEPT ![s] = @ + 1]

(* Mutant: the handle a detached entity had is the next one given.          *)
DetachReusing(s, p) ==
  /\ \E b \in bindings[s] : b.presentation = p
  /\ bindings' = [bindings EXCEPT ![s] = {b \in @ : b.presentation # p}]
  /\ nextPresentation' = [nextPresentation EXCEPT ![s] = p]

(* detach; of a handle that is not attached it does nothing.                *)
Detach(s, p) ==
  /\ \E b \in bindings[s] : b.presentation = p
  /\ bindings' = [bindings EXCEPT ![s] = {b \in @ : b.presentation # p}]
  /\ UNCHANGED nextPresentation

DetachAll(s) ==
  /\ bindings' = [bindings EXCEPT ![s] = {}]
  /\ UNCHANGED nextPresentation

(* setAvailable and define.                                                 *)
PresenterSetUp ==
  /\ available' \in BOOLEAN
  /\ UNCHANGED <<effects, nextEffect>>

(* CellEffectPresenter::spawn, when it answers with a handle.               *)
Spawn ==
  /\ available
  /\ nextEffect <= MaxEffects
  /\ effects' = effects \cup {nextEffect}
  /\ nextEffect' = nextEffect + 1
  /\ UNCHANGED available

(* release, for each handle of a set.                                       *)
Release(handles) ==
  /\ effects' = effects \ handles
  /\ UNCHANGED <<available, nextEffect>>
=============================================================================
