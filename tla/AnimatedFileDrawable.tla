------------------------- MODULE AnimatedFileDrawable -------------------------
(***************************************************************************)
(* An image that moves (ui/Components/AnimatedFileDrawable.java, with the   *)
(* decoder of jni/gifvideo.cpp).                                            *)
(*                                                                         *)
(* The main thread draws the image, asks for its next frame and in the end    *)
(* recycles it; the threads of a pool decode a frame and post the main thread  *)
(* the news.  The decoder is native memory: it must not be destroyed while a   *)
(* thread is decoding, and nobody but the drawable can destroy it.            *)
(*                                                                         *)
(* backgroundBitmap is never replaced, so that there is one bitmap, which      *)
(* every bitmap field holds or not.                                         *)
(***************************************************************************)
EXTENDS Integers

CONSTANT Threads    \* of the pool

VARIABLES
    nativePtr,          \* it is not 0
    decoderCreated,     \* it was tried, at least
    decoder,            \* "none", "live" or "gone"
    bitmap,             \* "none", "live" or "gone"
    backgroundBitmap, nextRenderingBitmap, renderingBitmap,     \* they hold it
    loadFrameTask,      \* it is set: a frame has been asked for
    loads,              \* the tasks in the queue of the pool
    phase,              \* what a thread of the pool is doing
    news,               \* the uiRunnables in the main thread's queue
    isRunning, isRecycled, destroyWhenDone,
    secondParentView, recycleWithSecond

(* History variables. *)
VARIABLES
    asked,      \* recycle was called
    misused     \* a decoder was destroyed twice, or a bitmap that is gone drawn

bitmaps == <<bitmap, backgroundBitmap, nextRenderingBitmap, renderingBitmap>>
views   == <<secondParentView, recycleWithSecond>>
vars    == <<nativePtr, decoderCreated, decoder, bitmaps, loadFrameTask, loads, phase,
             news, isRunning, isRecycled, destroyWhenDone, views, asked, misused>>

\* With createDecoder the constructor tries at once.
Init ==
    /\ decoderCreated \in BOOLEAN
    /\ nativePtr \in BOOLEAN /\ (nativePtr => decoderCreated)
    /\ decoder = IF nativePtr THEN "live" ELSE "none"
    /\ bitmap = "none" /\ backgroundBitmap = FALSE
    /\ nextRenderingBitmap = FALSE /\ renderingBitmap = FALSE
    /\ loadFrameTask = FALSE /\ loads = 0 /\ news = 0
    /\ phase = [t \in Threads |-> "idle"]
    /\ isRunning = FALSE /\ isRecycled = FALSE /\ destroyWhenDone = FALSE
    /\ secondParentView = FALSE /\ recycleWithSecond = FALSE
    /\ asked = FALSE /\ misused = FALSE

-----------------------------------------------------------------------------
(* The main thread.                                                        *)

Unwanted == (~nativePtr /\ decoderCreated) \/ destroyWhenDone

\* Mutant: a frame is asked for although one is on its way.
ScheduleAnyway ==
    /\ loadFrameTask' = (loadFrameTask \/ ~Unwanted)
    /\ loads' = IF Unwanted THEN loads ELSE loads + 1

ScheduleNextGetFrame ==
    /\ loadFrameTask' = (loadFrameTask \/ ~Unwanted)
    /\ loads' = IF loadFrameTask \/ Unwanted THEN loads ELSE loads + 1

Start ==
    /\ ~isRunning
    /\ isRunning' = TRUE
    /\ IF renderingBitmap THEN UNCHANGED <<loadFrameTask, loads>> ELSE ScheduleNextGetFrame
    /\ UNCHANGED <<nativePtr, decoderCreated, decoder, bitmaps, phase, news, isRecycled,
                   destroyWhenDone, views, asked, misused>>

Stop ==
    /\ isRunning' = FALSE
    /\ UNCHANGED <<nativePtr, decoderCreated, decoder, bitmaps, loadFrameTask, loads,
                   phase, news, isRecycled, destroyWhenDone, views, asked, misused>>

\* The first frame is asked for, or the next one is shown and the one after it
\* asked for (if it is time to), or nothing but drawing is done.
Draw ==
    /\ ~Unwanted
    /\ \/ /\ isRunning /\ ~renderingBitmap /\ ~nextRenderingBitmap
          /\ ScheduleNextGetFrame
          /\ UNCHANGED <<nextRenderingBitmap, renderingBitmap>>
       \/ /\ isRunning /\ nextRenderingBitmap
          /\ ScheduleNextGetFrame
          /\ renderingBitmap' = TRUE /\ nextRenderingBitmap' = FALSE
       \/ /\ ~isRunning \/ renderingBitmap \/ nextRenderingBitmap
          /\ UNCHANGED <<loadFrameTask, loads, nextRenderingBitmap, renderingBitmap>>
    /\ misused' = (misused \/ (renderingBitmap' /\ bitmap = "gone"))
    /\ UNCHANGED <<nativePtr, decoderCreated, decoder, bitmap, backgroundBitmap, phase,
                   news, isRunning, isRecycled, destroyWhenDone, views, asked>>

\* destroyDecoder(nativePtr); nativePtr = 0.
DestroyDecoder ==
    /\ nativePtr' = FALSE
    /\ decoder' = "gone"
    /\ misused' = (misused \/ decoder # "live")

KeepDecoder == UNCHANGED <<nativePtr, decoder, misused>>

\* Mutant: the decoder is destroyed whatever the pool is doing.
ReleaseAtOnce ==
    /\ isRunning' = FALSE /\ isRecycled' = TRUE
    /\ IF nativePtr THEN DestroyDecoder ELSE KeepDecoder
    /\ nextRenderingBitmap' = FALSE /\ renderingBitmap' = FALSE
    /\ bitmap' = IF nextRenderingBitmap \/ renderingBitmap THEN "gone" ELSE bitmap
    /\ UNCHANGED destroyWhenDone

\* The rest of recycle: what is being decoded is destroyed when that is done.
\* The bitmap that is shown is not waited for, although a frame may just be
\* written into it.
Release ==
    /\ isRunning' = FALSE /\ isRecycled' = TRUE
    /\ renderingBitmap' = FALSE
    /\ \/ /\ ~loadFrameTask
          /\ IF nativePtr THEN DestroyDecoder ELSE KeepDecoder
          /\ nextRenderingBitmap' = FALSE
          /\ bitmap' = IF nextRenderingBitmap \/ renderingBitmap THEN "gone" ELSE bitmap
          /\ UNCHANGED destroyWhenDone
       \/ /\ loadFrameTask
          /\ destroyWhenDone' = TRUE
          /\ bitmap' = IF renderingBitmap THEN "gone" ELSE bitmap
          /\ KeepDecoder /\ UNCHANGED nextRenderingBitmap

KeepAll ==
    /\ KeepDecoder
    /\ UNCHANGED <<bitmap, nextRenderingBitmap, renderingBitmap, isRunning, isRecycled,
                   destroyWhenDone>>

\* By whom the image is shown, or by the finalizer.
Recycle ==
    /\ asked' = TRUE
    /\ IF secondParentView THEN KeepAll ELSE Release
    /\ recycleWithSecond' = (recycleWithSecond \/ secondParentView)
    /\ UNCHANGED <<decoderCreated, backgroundBitmap, loadFrameTask, loads, phase, news,
                   secondParentView>>

SetFrame ==
    UNCHANGED <<decoderCreated, backgroundBitmap, loadFrameTask, loads, phase, news,
                recycleWithSecond, asked>>

\* The photo viewer shows the image, or (FALSE) does not any more.
SetSecondParentView(view) ==
    /\ secondParentView' = view
    /\ IF ~view /\ recycleWithSecond THEN Release ELSE KeepAll
    /\ SetFrame

UiFrame ==
    UNCHANGED <<decoderCreated, renderingBitmap, loads, phase, isRunning, isRecycled,
                destroyWhenDone, views, asked>>

\* Mutant: the decoder is left to a recycling that has already been.
UiRunnableOnly ==
    /\ news > 0
    /\ news' = news - 1
    /\ loadFrameTask' = (loadFrameTask /\ ~nativePtr)
    /\ nextRenderingBitmap' = IF nativePtr THEN backgroundBitmap ELSE nextRenderingBitmap
    /\ KeepDecoder
    /\ UNCHANGED <<bitmap, backgroundBitmap>>
    /\ UiFrame

\* uiRunnable.  Without a decoder loadFrameTask stays set.
UiRunnable ==
    /\ news > 0
    /\ news' = news - 1
    /\ IF destroyWhenDone /\ nativePtr THEN DestroyDecoder ELSE KeepDecoder
    /\ \/ /\ destroyWhenDone \/ ~nativePtr
          /\ bitmap' = IF backgroundBitmap THEN "gone" ELSE bitmap
          /\ backgroundBitmap' = FALSE
          /\ UNCHANGED <<loadFrameTask, nextRenderingBitmap>>
       \/ /\ ~destroyWhenDone /\ nativePtr
          /\ loadFrameTask' = FALSE
          /\ nextRenderingBitmap' = backgroundBitmap
          /\ UNCHANGED <<bitmap, backgroundBitmap>>
    /\ UiFrame

-----------------------------------------------------------------------------
(* loadFrameRunnable, in a thread of the pool.                              *)

LoadFrame ==
    UNCHANGED <<nextRenderingBitmap, renderingBitmap, loadFrameTask, isRunning,
                isRecycled, destroyWhenDone, views, asked, misused>>

Move(t, from, to) == phase[t] = from /\ phase' = [phase EXCEPT ![t] = to]

Begin(t) ==
    /\ loads > 0
    /\ loads' = loads - 1
    /\ IF isRecycled THEN Move(t, "idle", "told") ELSE Move(t, "idle", "begun")
    /\ UNCHANGED <<nativePtr, decoderCreated, decoder, bitmap, backgroundBitmap, news>>
    /\ LoadFrame

\* createDecoder, if it was not tried yet; it may fail.
CreateDecoder(t) ==
    /\ Move(t, "begun", "created")
    /\ \/ /\ ~decoderCreated /\ ~nativePtr
          /\ decoderCreated' = TRUE
          /\ \/ nativePtr' = TRUE /\ decoder' = "live"
             \/ UNCHANGED <<nativePtr, decoder>>
       \/ /\ decoderCreated \/ nativePtr
          /\ UNCHANGED <<nativePtr, decoderCreated, decoder>>
    /\ UNCHANGED <<bitmap, backgroundBitmap, loads, news>>
    /\ LoadFrame

\* The bitmap is created, if it was not yet, which fails for want of memory or
\* of a size; with a bitmap and a decoder getVideoFrame begins.
CreateBitmap(t) ==
    /\ \/ /\ ~backgroundBitmap /\ nativePtr
          /\ bitmap' = "live" /\ backgroundBitmap' = TRUE
       \/ /\ UNCHANGED <<bitmap, backgroundBitmap>>
    /\ Move(t, "created", IF backgroundBitmap' /\ nativePtr THEN "decoding" ELSE "told")
    /\ UNCHANGED <<nativePtr, decoderCreated, decoder, loads, news>>
    /\ LoadFrame

\* getVideoFrame returns.
GetVideoFrame(t) ==
    /\ Move(t, "decoding", "told")
    /\ UNCHANGED <<nativePtr, decoderCreated, decoder, bitmap, backgroundBitmap, loads,
                   news>>
    /\ LoadFrame

Tell(t) ==
    /\ Move(t, "told", "idle")
    /\ news' = news + 1
    /\ UNCHANGED <<nativePtr, decoderCreated, decoder, bitmap, backgroundBitmap, loads>>
    /\ LoadFrame

-----------------------------------------------------------------------------
Load(t) == Begin(t) \/ CreateDecoder(t) \/ CreateBitmap(t) \/ GetVideoFrame(t) \/ Tell(t)

Next ==
    \/ Start \/ Stop \/ Draw \/ Recycle \/ UiRunnable
    \/ \E view \in BOOLEAN : SetSecondParentView(view)
    \/ \E t \in Threads : Load(t)

Spec == Init /\ [][Next]_vars

\* A looper runs what is posted to it, and a thread its task to the end.
FairSpec ==
    /\ Spec
    /\ WF_vars(UiRunnable)
    /\ WF_vars(\E t \in Threads : Begin(t))
    /\ \A t \in Threads : WF_vars(phase[t] # "idle" /\ Load(t))

-----------------------------------------------------------------------------
(* Properties.                                                             *)

Phases == {"idle", "begun", "created", "decoding", "told"}

TypeOK ==
    /\ {nativePtr, decoderCreated, backgroundBitmap, nextRenderingBitmap,
        renderingBitmap, loadFrameTask, isRunning, isRecycled, destroyWhenDone,
        secondParentView, recycleWithSecond, asked, misused} \subseteq BOOLEAN
    /\ {decoder, bitmap} \subseteq {"none", "live", "gone"}
    /\ loads \in 0..1 /\ news \in 0..1
    /\ phase \in [Threads -> Phases]

\* While a thread of the pool is decoding a frame the decoder is there; it is
\* destroyed once, and a bitmap that was recycled is never drawn.  The decoder
\* has no lock: all depends on the order of loadFrameTask, destroyWhenDone and
\* uiRunnable, over two threads.
DecoderIsAlive ==
    /\ \A t \in Threads : phase[t] = "decoding" => decoder = "live"
    /\ ~misused

\* When the image was recycled and the photo viewer does not show it, the
\* decoder and the bitmap are released in the end, and nothing takes them back:
\* not a task of the pool that had begun before, nor one asked for after.
ReleasedInTheEnd ==
    asked /\ ~secondParentView ~> [](decoder # "live" /\ bitmap # "live")
===============================================================================
