------------------------------ MODULE D3DHost ------------------------------
(***************************************************************************)
(* mwfl::D3DHost: a child window with a Direct3D device, a swap chain whose *)
(* buffers have the window's size, and a view to render to.  The device may *)
(* be lost at any call that uses it and is then created anew, if that       *)
(* succeeds.                                                                *)
(*                                                                          *)
(* A frame is cut where the render callback runs: the callback may change   *)
(* the window's size, destroy it, discard the device or throw.  It does not *)
(* render another frame, and the callbacks that create and discard          *)
(* resources do not call the host.                                          *)
(***************************************************************************)
EXTENDS Naturals

VARIABLES
  renderState,  \* the state of model_
  gpu,          \* [device, chain: the size of the buffers or "none", target]
  size,         \* client size of the window
  window,       \* does the window exist?
  pending,      \* resize_pending_
  thrown,       \* is there a callback_exception_?
  rendering,    \* is the render callback running?
  discarded     \* has the application discarded the device of this window?

d3dVars == <<renderState, gpu, size, window, pending, thrown, rendering, discarded>>

NoGpu == [device |-> FALSE, chain |-> "none", target |-> FALSE]

Size == {"zero", "small", "large"}

(* A swap chain has buffers of at least one pixel.                          *)
BufferSize(s) == IF s = "zero" THEN "pixel" ELSE s

D3DInit ==
  /\ renderState = "empty"
  /\ gpu = NoGpu
  /\ size = "zero" /\ window = FALSE
  /\ pending = FALSE /\ thrown = FALSE /\ rendering = FALSE /\ discarded = FALSE

-----------------------------------------------------------------------------
(* D3DRenderStateModel.                                                     *)

MarkReady(s) == IF s \in {"rendering", "destroyed"} THEN s ELSE "ready"
MarkMinimized(s) == IF s = "destroyed" THEN s ELSE "minimized"
MarkDeviceLost(s) == IF s = "destroyed" THEN s ELSE "device_lost"

EndFrame(result) ==
  CASE result = "occluded" -> "occluded"
    [] result = "lost" -> "device_lost"
    [] OTHER -> "ready"

-----------------------------------------------------------------------------
(* What is left where CreateDeviceAndSwapChain stops: without a device,     *)
(* swap chain or target, after the application's callback has thrown, or    *)
(* with everything.                                                         *)
Stop == {"device", "chain", "target", "callback", "none"}

DeviceCreated(stop, s) ==
  [device |-> stop # "device",
   chain |-> IF stop \in {"device", "chain"} THEN "none" ELSE BufferSize(s),
   target |-> stop \in {"callback", "none"}]

(* RecoverDevice, in state s: DiscardDevice, whose callback may throw as    *)
(* the one that creates resources may; then creation.                       *)
RecoverDevice(s) ==
  \E stop \in Stop, throws \in BOOLEAN :
    /\ gpu' = DeviceCreated(stop, size)
    /\ renderState' = IF stop = "none" THEN MarkReady(s) ELSE MarkDeviceLost(s)
    /\ thrown' = (thrown \/ stop = "callback" \/ (gpu.device /\ throws))
    /\ pending' = FALSE

(* ResizeSwapChain, in state s, when no frame is running.                   *)
ResizeSwapChain(s, newSize) ==
  IF newSize = "zero"
  THEN renderState' = MarkMinimized(s) /\ UNCHANGED <<gpu, thrown>>
  ELSE IF gpu.chain = "none"
  THEN renderState' = s /\ UNCHANGED <<gpu, thrown>>
  ELSE \/ /\ gpu' = [gpu EXCEPT !.chain = newSize, !.target = TRUE]
          /\ renderState' = MarkReady(s)
          /\ UNCHANGED thrown
       \/ /\ \E resized \in {gpu.chain, newSize} :
               gpu' = [gpu EXCEPT !.chain = resized, !.target = FALSE]
          /\ renderState' = s
          /\ UNCHANGED thrown
       \/ \E stop \in Stop, throws \in BOOLEAN :
            /\ gpu' = DeviceCreated(stop, newSize)
            /\ renderState' = IF stop = "none" THEN MarkReady("device_lost") ELSE "device_lost"
            /\ thrown' = (thrown \/ stop = "callback" \/ throws)

(* Seeded fault: a resize during a frame is dropped.                        *)
ResizeDropped(newSize) ==
  /\ window /\ newSize # size
  /\ size' = newSize
  /\ IF renderState = "rendering" THEN UNCHANGED <<renderState, gpu, pending, thrown>>
     ELSE ResizeSwapChain(renderState, newSize) /\ UNCHANGED pending
  /\ UNCHANGED <<window, rendering, discarded>>

(* WM_SIZE: the size changes, and a frame that runs defers the rest.        *)
Resize(newSize) ==
  /\ window /\ newSize # size
  /\ size' = newSize
  /\ IF renderState = "rendering" THEN pending' = TRUE /\ UNCHANGED <<renderState, gpu, thrown>>
     ELSE ResizeSwapChain(renderState, newSize) /\ UNCHANGED pending
  /\ UNCHANGED <<window, rendering, discarded>>

-----------------------------------------------------------------------------
(* Create; what was created before a failure goes with the window.          *)
CreateHost(s) ==
  /\ ~window /\ ~rendering
  /\ size' = s /\ pending' = FALSE /\ discarded' = FALSE
  /\ \/ /\ gpu' = DeviceCreated("none", s) /\ renderState' = "ready"
        /\ window' = TRUE /\ thrown' = FALSE
     \/ /\ gpu' = NoGpu /\ renderState' = "destroyed"
        /\ window' = FALSE /\ thrown' \in BOOLEAN
  /\ UNCHANGED rendering

(* RenderFrame, from WM_PAINT or the application, up to the callback.       *)
RenderMinimized ==
  /\ window /\ ~rendering /\ size = "zero"
  /\ renderState' = MarkMinimized(renderState)
  /\ UNCHANGED <<gpu, size, window, pending, thrown, rendering, discarded>>

(* Present says whether an occluded window can be seen again.  (A swap      *)
(* chain the application has discarded would be used here.)                 *)
RenderRecovers ==
  /\ window /\ ~rendering /\ size # "zero"
  /\ renderState = "device_lost" \/ (renderState = "occluded" /\ ~discarded)
  /\ RecoverDevice(renderState)
  /\ UNCHANGED <<size, window, rendering, discarded>>

BeginFrame ==
  /\ window /\ ~rendering /\ size # "zero"
  /\ renderState = "ready" \/ (renderState = "occluded" /\ ~discarded)
  /\ IF gpu.device /\ gpu.chain # "none" /\ gpu.target
     THEN renderState' = "rendering" /\ rendering' = TRUE
     ELSE renderState' = "ready" /\ UNCHANGED rendering
  /\ UNCHANGED <<gpu, size, window, pending, thrown, discarded>>

FrameThrows ==
  /\ rendering /\ ~thrown
  /\ thrown' = TRUE
  /\ UNCHANGED <<renderState, gpu, size, window, pending, rendering, discarded>>

(* The rest of RenderFrame.  A frame whose callback has thrown, now or      *)
(* before, is not presented.                                                *)
FrameCancelled ==
  /\ rendering /\ (renderState = "destroyed" \/ gpu.chain = "none")
  /\ rendering' = FALSE
  /\ UNCHANGED <<renderState, gpu, size, window, pending, thrown, discarded>>

FramePresented(result) ==
  /\ rendering /\ renderState # "destroyed" /\ gpu.chain # "none"
  /\ thrown => result = "failed"
  /\ rendering' = FALSE /\ pending' = FALSE
  /\ CASE result = "lost" -> RecoverDevice(EndFrame(result))
       [] result # "lost" /\ pending -> ResizeSwapChain(EndFrame(result), size)
       [] OTHER -> renderState' = EndFrame(result) /\ UNCHANGED <<gpu, thrown>>
  /\ UNCHANGED <<size, window, discarded>>

(* The public DiscardDevice, for an application that lets go of the device. *)
DiscardDevice ==
  /\ window /\ gpu.device
  /\ gpu' = NoGpu
  /\ pending' = FALSE /\ discarded' = TRUE
  /\ thrown' \in {thrown, TRUE}
  /\ UNCHANGED <<renderState, size, window, rendering>>

(* WM_NCDESTROY.                                                            *)
DestroyWindow ==
  /\ window
  /\ window' = FALSE
  /\ gpu' = NoGpu /\ pending' = FALSE
  /\ thrown' \in IF gpu.device THEN {thrown, TRUE} ELSE {thrown}
  /\ renderState' = "destroyed"
  /\ UNCHANGED <<size, rendering, discarded>>

TakeCallbackException ==
  /\ thrown /\ ~rendering
  /\ thrown' = FALSE
  /\ UNCHANGED <<renderState, gpu, size, window, pending, rendering, discarded>>

D3DNext ==
  \/ \E s \in Size : CreateHost(s) \/ Resize(s)
  \/ RenderMinimized \/ RenderRecovers \/ BeginFrame
  \/ FrameThrows \/ FrameCancelled
  \/ \E result \in {"presented", "occluded", "lost", "failed"} : FramePresented(result)
  \/ DiscardDevice \/ DestroyWindow \/ TakeCallbackException

D3DSpec == D3DInit /\ [][D3DNext]_d3dVars

(* A window is painted, and a driver that does not always fail is found     *)
(* working at last.                                                         *)
RecoversAtLast == RenderRecovers /\ renderState' = "ready"

D3DFairSpec == D3DSpec /\ SF_d3dVars(RecoversAtLast)

-----------------------------------------------------------------------------
(* Properties.                                                              *)

(* Between frames the state tells what can be done: no frame is left open,  *)
(* no resize is left waiting, a host that looks ready has its device and    *)
(* swap chain, and where it has a view to render to, the buffers have the   *)
(* window's size.  Whatever the callback did to the window, whatever was    *)
(* lost or failed; only what the application itself discarded is excepted.  *)
BetweenFrames ==
  window /\ ~rendering /\ ~discarded =>
    /\ renderState \in {"ready", "minimized", "occluded", "device_lost"}
    /\ ~pending
    /\ renderState \in {"ready", "occluded"} =>
         /\ gpu.device /\ gpu.chain # "none"
         /\ gpu.target /\ size # "zero" => gpu.chain = size

(* A device that was lost is created again when that is possible, unless    *)
(* the window or the device is given up, or the window is minimized: that   *)
(* makes the host forget the loss, and it then stays without a device.      *)
LossIsRecovered ==
  renderState = "device_lost" ~> gpu.device \/ ~window \/ discarded \/ size = "zero"
=============================================================================
