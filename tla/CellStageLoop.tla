----------------------------- MODULE CellStageLoop -----------------------------
(***************************************************************************)
(* cell_stage.cpp: the two loops that drive the renderer. runSimMode       *)
(* replays an input file offscreen and reads the last frame back;          *)
(* runInteractive presents to a window the user resizes and closes. Each   *)
(* frame gets meshes of its own, destroyed once the GPU is done with them. *)
(* The simulation decides which entities are drawn: any of them, here.     *)
(***************************************************************************)
EXTENDS VulkanRenderer

CONSTANTS
  Entities,      \* 1 .. n, the scene in order
  KindOf,        \* the table an entity's mesh lives in
  Sizes,         \* sizes the window takes
  kViewport,     \* the one it is created with
  MaxFrames,     \* --frames N, or the frames of the input file
  MaxResizes,    \* bound: how often the window changes size
  Failures       \* calls that may fail: "start", "begin", "submit", "resize"

ASSUME LoopAssumption ==
  /\ Entities \subseteq Nat /\ KindOf \in [Entities -> Kinds]
  /\ kViewport \in Sizes
  /\ FrameFence \notin Images /\ NoImage \notin Images
  /\ Dead \notin Entities \X Nat

VARIABLES
  mode,                 \* "sim" or "interactive"
  pc,                   \* where the loop is
  texture,              \* texId is valid
  frame, quit,
  next,                 \* the entity buildFrameDraws looks at
  draws, prevDraws,     \* [kind, slot, mesh], the mesh for the properties only
  window, events,       \* the window's size; SDL's queue of resize events
  resizes,              \* bound: how often the window has changed size
  failed,               \* the calls that have failed so far
  result                \* the frame readbackPixels returned

loopVars == <<mode, texture, frame, quit, next, draws, prevDraws, window, events,
              resizes, failed, result>>
vars     == <<rendererVars, loopVars, pc>>

Init ==
  /\ NotReady
  /\ mode \in {"sim", "interactive"} /\ pc = "start"
  /\ texture = FALSE /\ frame = 0 /\ quit = FALSE /\ next = 1
  /\ draws = <<>> /\ prevDraws = <<>>
  /\ window = kViewport /\ events = <<>> /\ resizes = 0
  /\ width = window /\ extent = window
  /\ caps \in [fixed : BOOLEAN, size : {window}]
  /\ failed = {} /\ result = 0

Fails(call) == call \in Failures /\ failed' = failed \cup {call}

(* The slots and the meshes a list of draws names.                          *)
Handles(ds) == {<<ds[n].kind, ds[n].slot>> : n \in DOMAIN ds}
Owned(ds)   == {ds[n].mesh : n \in DOMAIN ds}

(* drawMesh and drawTextured, for every draw of the frame: what the GPU     *)
(* will read. A textured draw without its texture is skipped.               *)
Recorded ==
  {meshes[draws[n].kind][draws[n].slot] :
     n \in {n \in DOMAIN draws : draws[n].kind = "flat" \/ texture}}

(* The renderer comes up, or the program ends; the texture may not upload.  *)
Start ==
  /\ pc = "start"
  /\ \/ /\ IF mode = "sim" THEN InitOffscreen ELSE InitPresent(window)
        /\ pc' = IF mode = "sim" THEN "build" ELSE "poll"
        /\ texture' \in BOOLEAN
        /\ UNCHANGED failed
     \/ pc' = "stop" /\ Fails("start") /\ UNCHANGED <<rendererVars, texture>>
  /\ UNCHANGED <<mode, frame, quit, next, draws, prevDraws, window, events,
                 resizes, result>>

(* ------------------------- one mesh per entity -------------------------- *)
(* buildFrameDraws, one entity: a mesh, or nothing because the entity was   *)
(* eaten or its mesh could not be made.                                     *)
BuildDraw ==
  /\ pc = "build" /\ next \in Entities
  /\ next' = next + 1
  /\ \/ LET kind == KindOf[next]
            mesh == <<next, frame>>
        IN  /\ meshes' = WithMesh(kind, mesh)
            /\ draws' = Append(draws, [kind |-> kind, mesh |-> mesh,
                                       slot |-> SlotFor(meshes[kind])])
     \/ UNCHANGED <<meshes, draws>>
  /\ UNCHANGED <<hostVars, signaled, acquire, gpuVars, engineVars, pc, mode,
                 texture, frame, quit, prevDraws, window, events, resizes, failed, result>>

BuildDone ==
  /\ pc = "build" /\ next \notin Entities
  /\ next' = 1
  /\ pc' = IF mode = "sim" THEN "begin" ELSE "submit"
  /\ UNCHANGED <<rendererVars, mode, texture, frame, quit, draws, prevDraws,
                 window, events, resizes, failed, result>>

(* ------------------------------ runSimMode ------------------------------ *)
SimBegin ==
  /\ pc = "begin"
  /\ \/ BeginFrame(TRUE) /\ UNCHANGED failed
     \/ BeginFrame(FALSE) /\ Fails("begin")
  /\ pc' = "draw"
  /\ UNCHANGED <<mode, texture, frame, quit, next, draws, prevDraws, window,
                 events, resizes, result>>

(* Draws and endFrame; without a frame open both do nothing.                *)
SimDraw ==
  /\ pc = "draw"
  /\ IF recording
     THEN \/ EndFrame(TRUE, Recorded, frame + 1) /\ pc' = "drain" /\ UNCHANGED failed
          \/ EndFrame(FALSE, {}, 0) /\ pc' = "clean" /\ Fails("submit")
     ELSE pc' = "clean" /\ UNCHANGED <<rendererVars, failed>>
  /\ UNCHANGED <<mode, texture, frame, quit, next, draws, prevDraws, window,
                 events, resizes, result>>

(* The wait at the end of endFrame.                                         *)
SimDrain ==
  /\ pc = "drain" /\ FrameFence \in signaled
  /\ pc' = "clean"
  /\ UNCHANGED <<rendererVars, loopVars>>

(* Mutant: the replay stops a frame early.                                  *)
SimCleanEarly ==
  /\ pc = "clean" /\ mode = "sim"
  /\ meshes' = WithoutMeshes(Handles(draws))
  /\ draws' = <<>>
  /\ frame' = frame + 1
  /\ pc' = IF frame' >= MaxFrames - 1 THEN "read" ELSE "build"
  /\ UNCHANGED <<hostVars, signaled, acquire, gpuVars, engineVars, mode, texture,
                 quit, next, prevDraws, window, events, resizes, failed, result>>

(* The frame's meshes go, and the next frame is built, or the last read.    *)
SimClean ==
  /\ pc = "clean" /\ mode = "sim"
  /\ meshes' = WithoutMeshes(Handles(draws))
  /\ draws' = <<>>
  /\ frame' = frame + 1
  /\ pc' = IF frame' = MaxFrames THEN "read" ELSE "build"
  /\ UNCHANGED <<hostVars, signaled, acquire, gpuVars, engineVars, mode, texture,
                 quit, next, prevDraws, window, events, resizes, failed, result>>

SimRead ==
  /\ pc = "read"
  /\ result' = picture
  /\ pc' = "stop"
  /\ UNCHANGED <<rendererVars, mode, texture, frame, quit, next, draws, prevDraws,
                 window, events, resizes, failed>>

(* ---------------------------- runInteractive ---------------------------- *)
(* The window system changes the window's size and queues an event.         *)
WindowResizes ==
  /\ mode = "interactive" /\ pc \notin {"start", "done"}
  /\ resizes < MaxResizes /\ resizes' = resizes + 1
  /\ \E s \in Sizes \ {window} :
       window' = s /\ events' = Append(events, s)
  /\ UNCHANGED <<rendererVars, pc, mode, texture, frame, quit, next, draws,
                 prevDraws, failed, result>>

(* resizePresent: refused once the renderer is down.                        *)
Resize(w) ==
  IF initialized
  THEN \/ ResizePresent(w) /\ UNCHANGED failed
       \/ Shutdown /\ Fails("resize")
  ELSE UNCHANGED <<rendererVars, failed>>

(* One SDL_EVENT_WINDOW_RESIZED of the poll loop.                           *)
PollResize ==
  /\ pc = "poll" /\ events # <<>>
  /\ Resize(Head(events))
  /\ events' = Tail(events)
  /\ UNCHANGED <<pc, mode, texture, frame, quit, next, draws, prevDraws, window, resizes, result>>

(* The rest of the poll loop, where the user may have pressed ESC.          *)
PollInput ==
  /\ pc = "poll" /\ events = <<>>
  /\ quit' \in {quit, TRUE}
  /\ pc' = "wait"
  /\ UNCHANGED <<rendererVars, mode, texture, frame, next, draws, prevDraws,
                 window, events, resizes, failed, result>>

(* beginPresentFrame, step by step; FALSE ends the loop.                    *)
BeginWaits ==
  /\ pc = "wait"
  /\ IF initialized THEN WaitForPrevious /\ pc' = "acquire" ELSE pc' = "stop"
  /\ UNCHANGED <<rendererVars, loopVars>>

BeginAcquires ==
  /\ pc = "acquire"
  /\ \/ \E i \in Images : AcquireImage(i) /\ pc' = "open"
     \/ /\ extent # window     \* VK_ERROR_OUT_OF_DATE_KHR
        /\ pc' = "stop"
        /\ UNCHANGED rendererVars
  /\ UNCHANGED loopVars

BeginOpens ==
  /\ pc = "open"
  /\ \/ OpenPresentFrame(TRUE) /\ pc' = "clean" /\ UNCHANGED failed
     \/ OpenPresentFrame(FALSE) /\ pc' = "stop" /\ Fails("begin")
  /\ UNCHANGED <<mode, texture, frame, quit, next, draws, prevDraws, window,
                 events, resizes, result>>

(* Mutant: the list of the meshes already destroyed is not cleared.         *)
CleanKeepsList ==
  /\ pc = "clean" /\ mode = "interactive"
  /\ meshes' = WithoutMeshes(Handles(prevDraws))
  /\ pc' = "build"
  /\ UNCHANGED <<hostVars, signaled, acquire, gpuVars, engineVars, mode, texture,
                 frame, quit, next, draws, prevDraws, window, events, resizes, failed, result>>

(* The meshes of the previous frame, which its fence has released.          *)
Clean ==
  /\ pc = "clean" /\ mode = "interactive"
  /\ meshes' = WithoutMeshes(Handles(prevDraws))
  /\ prevDraws' = <<>>
  /\ pc' = "build"
  /\ UNCHANGED <<hostVars, signaled, acquire, gpuVars, engineVars, mode, texture,
                 frame, quit, next, draws, window, events, resizes, failed, result>>

(* Draws and endPresentFrame; the engine may report a surface that changed. *)
Submit ==
  /\ pc = "submit"
  /\ \/ /\ EndPresentFrame(Recorded, frame + 1)
        /\ pc' \in {"advance"} \cup (IF extent # window THEN {"rebuild"} ELSE {})
        /\ UNCHANGED failed
     \/ DropPresentFrame /\ pc' = "advance" /\ Fails("submit")
  /\ UNCHANGED <<mode, texture, frame, quit, next, draws, prevDraws, window,
                 events, resizes, result>>

(* The end of endPresentFrame: rebuilt at the size asked for last.          *)
Rebuild ==
  /\ pc = "rebuild"
  /\ Resize(width)
  /\ pc' = "advance"
  /\ UNCHANGED <<mode, texture, frame, quit, next, draws, prevDraws, window,
                 events, resizes, result>>

Advance ==
  /\ pc = "advance"
  /\ prevDraws' = draws /\ draws' = <<>>
  /\ frame' = frame + 1
  /\ pc' = IF frame' = MaxFrames \/ quit THEN "stop" ELSE "poll"
  /\ UNCHANGED <<rendererVars, mode, texture, quit, next, window, events, resizes, failed, result>>

(* shutdown, after either loop.                                             *)
Stop ==
  /\ pc = "stop"
  /\ Shutdown
  /\ pc' = "done"
  /\ UNCHANGED loopVars

Sim  == SimBegin \/ SimDraw \/ SimDrain \/ SimClean \/ SimRead
Present ==
  \/ PollResize \/ PollInput
  \/ BeginWaits \/ BeginAcquires \/ BeginOpens
  \/ Clean \/ Submit \/ Rebuild \/ Advance
Host == Start \/ BuildDraw \/ BuildDone \/ Sim \/ Present \/ Stop
Gpu    == Finish /\ UNCHANGED <<loopVars, pc>>
Screen == Show /\ UNCHANGED <<loopVars, pc>>

Next == Host \/ Gpu \/ Screen \/ WindowResizes

Spec == Init /\ [][Next]_vars

(* The host's thread runs, the GPU finishes what it was given, and the      *)
(* screen shows what is queued; nobody has to resize the window.            *)
FairSpec == Spec /\ WF_vars(Host) /\ WF_vars(Gpu) /\ WF_vars(Screen)

TypeOK ==
  /\ initialized \in BOOLEAN /\ recording \in BOOLEAN
  /\ width \in Sizes /\ extent \in Sizes /\ window \in Sizes
  /\ caps \in [fixed : BOOLEAN, size : Sizes]
  /\ swapchain \in Nat /\ frame \in Nat /\ next \in Nat
  /\ activeImage \in Images \cup {NoImage}
  /\ prevPresentImage \in Images \cup {NoImage}
  /\ signaled \subseteq Fences
  /\ acquire \in {"unsignaled", "signaled", "waited"}
  /\ meshes \in [Kinds -> Seq((Entities \X Nat) \cup {Dead})]
  /\ mode \in {"sim", "interactive"}

(* ------------------------------ properties ------------------------------ *)
(* Nothing the GPU may still read is destroyed: the meshes of every pending *)
(* submission exist, and so does the swapchain it draws into                *)
(* (cell_stage.cpp:764-766 and 1151-1153, VulkanRenderer.cpp:1202).         *)
InFlightIsLive ==
  \A n \in DOMAIN pending :
    /\ pending[n].uses \subseteq Live(meshes)
    /\ pending[n].fence \in Images => pending[n].swapchain = swapchain

(* A handle the loop keeps names the mesh it was given for, though slots    *)
(* are reused (VulkanRenderer.cpp:267-273), and every mesh has one owner:   *)
(* none is lost however long the loop runs.                                 *)
MeshesAreOwned ==
  initialized =>
    /\ Live(meshes) = Owned(draws) \cup Owned(prevDraws)
    /\ \A ds \in {draws, prevDraws} : \A n \in DOMAIN ds :
         /\ ds[n].slot \in DOMAIN meshes[ds[n].kind]
         /\ meshes[ds[n].kind][ds[n].slot] = ds[n].mesh

(* The command buffer is opened again only when no submission uses it, and  *)
(* the one acquire semaphore is signaled again only after a submission has  *)
(* consumed it, unless a submission was refused                             *)
(* (VulkanRenderer.cpp:1278-1279, CELLSTAGE.md:135-138).                    *)
SingletonsAreFree ==
  [][/\ ~recording /\ recording' => pending = <<>>
     /\ pc = "acquire" /\ pc' = "open" /\ "submit" \notin failed
          => acquire = "unsignaled"]_vars

(* Whatever endPresentFrame rebuilds on its own (VulkanRenderer.cpp:1374), no *)
(* resize event is overtaken by an older size: once the queue is empty the   *)
(* size last asked for is the window's, and on a surface that leaves the     *)
(* size free the swapchain has it. No more than that: where the surface      *)
(* capabilities read at start-up pin the size, as on X11, the swapchain      *)
(* keeps the first size for ever (cpp:997), though VulkanRenderer.hpp:65     *)
(* says "at the new size" and cpp:1373 "at its current size".                *)
RequestedSizeFollowsWindow ==
  mode = "interactive" /\ initialized /\ events = <<>> =>
    /\ width = window
    /\ ~caps.fixed => extent = window

(* The picture read back is the last frame of the input, unless a call      *)
(* failed on the way (VulkanRenderer.cpp:380, cell_stage.cpp:803).          *)
PictureIsLast ==
  mode = "sim" /\ pc = "done" /\ failed = {} => result = MaxFrames

(* Either loop ends and shuts the renderer down: no wait is for ever. The   *)
(* exceptions are a refused submission, whose fence nothing signals, and a  *)
(* refused beginFrame, which has reset the fence the next frame waits for.  *)
MayHang == "submit" \in failed \/ (mode = "sim" /\ "begin" \in failed)
LoopEnds == <>(pc = "done" \/ MayHang)
=============================================================================
