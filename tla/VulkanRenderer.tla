----------------------------- MODULE VulkanRenderer -----------------------------
(***************************************************************************)
(* VulkanRenderer.cpp: the host's side of the renderer, the GPU queue it   *)
(* submits to, and the presentation engine that owns the swapchain images. *)
(* The host runs ahead of the GPU: a submission is pending until Finish,   *)
(* and only a fence or an idle wait tells the host that it is over.        *)
(* Every creation either succeeds or cleans up after itself; buffers and   *)
(* images are names.                                                       *)
(***************************************************************************)
EXTENDS Slots

CONSTANTS
  Images,       \* the images of one swapchain
  Kinds,        \* the mesh tables: flat (meshes_) and textured (texMeshes_)
  FrameFence,   \* frameFence_, of the offscreen path
  NoImage       \* prevPresentImage_ = -1

VARIABLES
  initialized, recording,          \* initialized_, recording_
  width,                           \* width_ and height_, as asked for
  extent,                          \* swapWidth_ and swapHeight_, as created
  caps,                            \* [fixed, size]: surfaceCaps_, read once
  swapchain,                       \* how many swapchains were created so far
  activeImage, prevPresentImage,
  signaled,                        \* the fences that are signaled
  acquire,                         \* presentAcquire_
  meshes,                          \* per kind, the slots
  pending,                         \* submissions the GPU has not finished
  picture,                         \* the frame readbackImage_ holds
  acquired, presents, shown        \* the engine's: held by us, queued, on screen

Fences == Images \cup {FrameFence}

hostVars   == <<initialized, recording, width, extent, caps, swapchain,
                activeImage, prevPresentImage>>
gpuVars    == <<pending, picture>>
engineVars == <<acquired, presents, shown>>
rendererVars == <<hostVars, signaled, acquire, meshes, gpuVars, engineVars>>

(* vkDeviceWaitIdle has returned.                                           *)
Idle == pending = <<>>

(* ------------------------------ mesh slots ------------------------------ *)
Live(m) == (UNION {{m[k][i] : i \in DOMAIN m[k]} : k \in Kinds}) \ {Dead}

(* createMesh, createTexMesh: one more mesh of a kind.                      *)
WithMesh(k, b) == [meshes EXCEPT ![k] = Stored(@, b)]

(* destroyMesh, destroyTexMesh: a handle is a kind and a slot.              *)
WithoutMeshes(handles) ==
  [k \in Kinds |-> Without(meshes[k], {h[2] : h \in {h \in handles : h[1] = k}})]

(* ------------------------- set-up and tear-down ------------------------- *)
NotReady ==
  /\ initialized = FALSE /\ recording = FALSE
  /\ swapchain = 0
  /\ activeImage = NoImage /\ prevPresentImage = NoImage
  /\ signaled = {} /\ acquire = "unsignaled"
  /\ meshes = [k \in Kinds |-> <<>>]
  /\ pending = <<>> /\ picture = 0
  /\ acquired = {} /\ presents = <<>> /\ shown = NoImage

(* init: the offscreen targets, and createSync's fence, born signaled.      *)
InitOffscreen ==
  /\ initialized' = TRUE
  /\ signaled' = {FrameFence}
  /\ UNCHANGED <<recording, width, extent, caps, swapchain, activeImage,
                 prevPresentImage, acquire, meshes, gpuVars, engineVars>>

(* createSwapchain: the size asked for, clamped to the capabilities read    *)
(* when the renderer started; new images, all free.                         *)
CreateSwapchain(w) ==
  /\ width' = w
  /\ extent' = IF caps.fixed THEN caps.size ELSE w
  /\ swapchain' = swapchain + 1
  /\ acquired' = {} /\ presents' = <<>> /\ shown' = NoImage

(* Mutant: the fences of new targets are born unsignaled.                   *)
CreatePresentTargetsUnsignaled ==
  /\ prevPresentImage' = NoImage
  /\ signaled' = signaled \ Images

(* createPresentTargets: every image gets a new fence, born signaled. The   *)
(* acquire semaphore is kept.                                               *)
CreatePresentTargets ==
  /\ prevPresentImage' = NoImage
  /\ signaled' = signaled \cup Images

CreateTargets(w) == CreateSwapchain(w) /\ CreatePresentTargets

InitPresent(w) ==
  /\ CreateTargets(w)
  /\ initialized' = TRUE
  /\ UNCHANGED <<recording, caps, activeImage, acquire, meshes, gpuVars>>

(* shutdown; a renderer that is down already is left as it is.              *)
Shutdown ==
  /\ Idle
  /\ initialized' = FALSE /\ recording' = FALSE
  /\ meshes' = [k \in Kinds |-> <<>>]
  /\ prevPresentImage' = NoImage
  /\ signaled' = {} /\ acquire' = "unsignaled"
  /\ acquired' = {} /\ presents' = <<>> /\ shown' = NoImage
  /\ UNCHANGED <<width, extent, caps, swapchain, activeImage, gpuVars>>

(* Mutant: the rebuild clamps to the window the renderer started with.      *)
ResizeToFirst(w) ==
  /\ Idle
  /\ CreateTargets(caps.size)
  /\ UNCHANGED <<initialized, recording, caps, activeImage, acquire, meshes, gpuVars>>

(* Mutant: the rebuild does not wait for the device.                        *)
ResizeAtOnce(w) ==
  /\ CreateTargets(w)
  /\ UNCHANGED <<initialized, recording, caps, activeImage, acquire, meshes, gpuVars>>

(* resizePresent, when every piece is rebuilt; a piece that is not takes    *)
(* the whole renderer down (Shutdown).                                      *)
ResizePresent(w) ==
  /\ Idle
  /\ CreateTargets(w)
  /\ UNCHANGED <<initialized, recording, caps, activeImage, acquire, meshes, gpuVars>>

(* --------------------------------- frames ------------------------------- *)
Submission(fence, uses, frame) ==
  [fence |-> fence, swapchain |-> swapchain, uses |-> uses, frame |-> frame]

(* beginFrame: its wait, then the command buffer; the fence is reset even   *)
(* when vkBeginCommandBuffer refuses and no frame is opened.                *)
BeginFrame(ok) ==
  /\ FrameFence \in signaled
  /\ signaled' = signaled \ {FrameFence}
  /\ recording' = ok
  /\ UNCHANGED <<initialized, width, extent, caps, swapchain, activeImage,
                 prevPresentImage, acquire, meshes, gpuVars, engineVars>>

(* endFrame up to vkQueueSubmit; its own wait follows (frameFence_).        *)
EndFrame(ok, uses, frame) ==
  /\ recording
  /\ recording' = FALSE
  /\ pending' = IF ok THEN Append(pending, Submission(FrameFence, uses, frame))
                ELSE pending
  /\ UNCHANGED <<initialized, width, extent, caps, swapchain, activeImage,
                 prevPresentImage, signaled, acquire, meshes, picture, engineVars>>

(* Mutant: the previous frame's fence is not waited for.                    *)
NoWaitForPrevious == TRUE

(* beginPresentFrame's first wait: the previous frame owns the command      *)
(* buffer and the acquire semaphore until its fence is signaled.            *)
WaitForPrevious == prevPresentImage # NoImage => prevPresentImage \in signaled

(* vkAcquireNextImageKHR: an image that is neither held, queued nor shown.  *)
AcquireImage(i) ==
  /\ i \notin acquired /\ i # shown
  /\ \A n \in DOMAIN presents : presents[n] # i
  /\ activeImage' = i
  /\ acquired' = acquired \cup {i}
  /\ acquire' = "signaled"
  /\ UNCHANGED <<initialized, recording, width, extent, caps, swapchain,
                 prevPresentImage, signaled, meshes, gpuVars, presents, shown>>

(* The rest of beginPresentFrame: wait for the image's own fence, reset it  *)
(* and open the frame.                                                      *)
OpenPresentFrame(ok) ==
  /\ activeImage \in signaled
  /\ signaled' = signaled \ {activeImage}
  /\ recording' = ok
  /\ UNCHANGED <<initialized, width, extent, caps, swapchain, activeImage,
                 prevPresentImage, acquire, meshes, gpuVars, engineVars>>

(* endPresentFrame up to vkQueueSubmit, when it is refused: the frame is    *)
(* dropped, its image is never presented and its fence never signaled.      *)
DropPresentFrame ==
  /\ recording
  /\ recording' = FALSE
  /\ UNCHANGED <<initialized, width, extent, caps, swapchain, activeImage,
                 prevPresentImage, signaled, acquire, meshes, gpuVars, engineVars>>

(* endPresentFrame: submit, waiting for the acquire semaphore, and present. *)
EndPresentFrame(uses, frame) ==
  /\ recording
  /\ recording' = FALSE
  /\ pending' = Append(pending, Submission(activeImage, uses, frame))
  /\ acquire' = "waited"
  /\ prevPresentImage' = activeImage
  /\ acquired' = acquired \ {activeImage}
  /\ presents' = Append(presents, activeImage)
  /\ UNCHANGED <<initialized, width, extent, caps, swapchain, activeImage,
                 signaled, meshes, picture, shown>>

(* ---------------------- the GPU and the screen (external) --------------- *)
(* The GPU finishes its oldest submission and signals its fence.            *)
Finish ==
  /\ pending # <<>>
  /\ pending' = Tail(pending)
  /\ signaled' = signaled \cup {Head(pending).fence}
  /\ IF Head(pending).fence = FrameFence
     THEN picture' = Head(pending).frame /\ UNCHANGED acquire
     ELSE acquire' = "unsignaled" /\ UNCHANGED picture
  /\ UNCHANGED <<hostVars, meshes, engineVars>>

(* The next finished image goes on screen and frees the one it replaces.    *)
Show ==
  /\ presents # <<>>
  /\ \A n \in DOMAIN pending : pending[n].fence # Head(presents)
  /\ shown' = Head(presents)
  /\ presents' = Tail(presents)
  /\ UNCHANGED <<hostVars, signaled, acquire, meshes, gpuVars, acquired>>
=============================================================================
