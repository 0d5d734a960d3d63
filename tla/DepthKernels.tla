---------------------------- MODULE DepthKernels ----------------------------
(***************************************************************************)
(* The label step with either back end of the point-to-pixel mapping: the  *)
(* CPU's single loop, or the CUDA kernels of point_pixel_mapping.cu, whose *)
(* threads run in any order.  A thread of the projection kernel lowers the *)
(* depth of each cell its point's splat covers by one atomic fetch_min;    *)
(* a thread of the visibility kernel only reads the depths, and writes     *)
(* what is its point's own, so its threads are one step.                   *)
(*                                                                         *)
(* Any CUDA call may fail: the function returns -1 and the buffers keep    *)
(* what was copied to them, at first "nothing is visible".  Nothing in the *)
(* pipeline looks at PointPixelMap::ok().                                  *)
(***************************************************************************)
EXTENDS SemanticPipeline

CONSTANT Empty   \* Z_EMPTY, above every depth

ASSUME DepthAssumption ==
  Empty \in Nat /\ \A c \in Cameras : \A v \in Voxels : c.depth[v] + Tau < Empty

VARIABLES
  backend,  \* "cpu" or "cuda"
  kernel,   \* "none", "project", "test" or "copied": how far the device is
  splats,   \* the <<point, pixel>> whose fetch_min is still to come
  zbuf,     \* the z-buffer
  visible,  \* what the host reads in the end
  failed    \* a CUDA call failed

deviceVars == <<kernel, splats, zbuf, visible, failed>>
backendVars == <<vars, backend, deviceVars>>

EmptyBuffer == [px \in Pixels |-> Empty]

BackendInit ==
  /\ Init
  /\ backend \in {"cpu", "cuda"}
  /\ kernel = "none" /\ splats = {} /\ zbuf = EmptyBuffer /\ visible = {} /\ failed = FALSE
-----------------------------------------------------------------------------
InImage == {i \in Candidates : Pixel(i) # Off}

\* fillIntKernel, then the launch of projectKernel.
LaunchProject ==
  /\ backend = "cuda" /\ step = "fuse" /\ kernel = "none" /\ Candidates # {}
  /\ kernel' = "project"
  /\ zbuf' = EmptyBuffer
  /\ splats' = UNION {{i} \X cam.cover[place[i]] : i \in InImage}
  /\ UNCHANGED <<vars, backend, visible, failed>>

\* Mutant: a plain store, the last thread wins.
StoreDepth(px, d) == zbuf' = [zbuf EXCEPT ![px] = d]

\* fetch_min on a cell.
LowerDepth(px, d) == zbuf' = [zbuf EXCEPT ![px] = Min({@, d})]

\* One iteration of some projection thread.
Splat ==
  /\ kernel = "project"
  /\ \E t \in splats :
       /\ LowerDepth(t[2], Depth(t[1]))
       /\ splats' = splats \ {t}
  /\ UNCHANGED <<vars, backend, kernel, visible, failed>>

\* Kernels of one stream run one after the other: the visibility test waits for
\* the last projection thread.
TestVisible ==
  /\ kernel = "project" /\ splats = {}
  /\ kernel' = "test"
  /\ visible' = {i \in InImage : Depth(i) <= zbuf[Pixel(i)] + Tau}
  /\ UNCHANGED <<vars, backend, splats, zbuf, failed>>

CopyBack ==
  /\ kernel = "test"
  /\ kernel' = "copied" /\ zbuf' = EmptyBuffer
  /\ UNCHANGED <<vars, backend, splats, visible, failed>>

\* CUDA_CHECK: the first allocation or any later call fails.  The host gets no
\* visible point; had the flags been copied already it would get them all, as if
\* nothing had failed.
CudaError ==
  /\ backend = "cuda" /\ step = "fuse" /\ kernel # "copied" /\ Candidates # {}
  /\ kernel' = "copied" /\ failed' = TRUE
  /\ visible' = {} /\ splats' = {} /\ zbuf' = EmptyBuffer
  /\ UNCHANGED <<vars, backend>>

\* The host goes on, with the flags it has.  Without a visible point the frame
\* clears the labels and the working set and labels nothing.
Mapped == backend = "cpu" \/ Candidates = {} \/ (kernel = "copied" /\ ~failed)

StampNothing ==
  /\ kernel = "copied" /\ failed
  /\ Relabel({}, [i \in {} |-> None])
  /\ gidx' = {} /\ step' = "next"
  /\ UNCHANGED <<thingsOnly, frames, cam, fr, sightings>>

StampMapped ==
  /\ (Mapped /\ Stamp) \/ StampNothing
  /\ kernel' = "none" /\ visible' = {} /\ failed' = FALSE
  /\ UNCHANGED <<backend, splats, zbuf>>

Device == LaunchProject \/ Splat \/ TestVisible \/ CopyBack \/ CudaError

\* The host does nothing else while it waits for the device.
BackendNext ==
  \/ /\ kernel = "none"
     /\ \/ \E c \in Cameras, f \in Frames2D : Infer(c, f)
        \/ \E v \in Voxels : \E px \in HitPixels(v) : Fuse(v, px)
     /\ UNCHANGED <<backend, deviceVars>>
  \/ Device
  \/ StampMapped

BackendSpec == BackendInit /\ [][BackendNext]_backendVars
-----------------------------------------------------------------------------
\* In whatever order the GPU's threads reach the depth buffer, the host reads the
\* points the CPU's loop finds visible, so that the frame is labelled alike
\* (point_pixel_mapping.cu:32-33 "race-free rasterize the nearest depth").
KernelsAgree ==
  kernel = "copied" /\ ~failed => visible = {i \in Candidates : Visible(i)}
=============================================================================
