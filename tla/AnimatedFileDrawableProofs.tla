---------------------- MODULE AnimatedFileDrawableProofs ----------------------
(***************************************************************************)
(* The decoder of AnimatedFileDrawable is alive while it is used, for      *)
(* every number of threads in the pool.                                    *)
(*                                                                         *)
(* The inductive invariant follows the one frame that is on its way: it is *)
(* a task in the pool's queue, or in the hands of one thread, or news for  *)
(* the main thread, and loadFrameTask is set all that time.                *)
(***************************************************************************)
EXTENDS AnimatedFileDrawable, TLAPS

Idle == \A t \in Threads : phase[t] = "idle"

\* At most one frame is on its way, and none unless it was asked for.
OneFrame ==
    /\ ~loadFrameTask => loads = 0 /\ news = 0 /\ Idle
    /\ loads # 0 => news = 0 /\ Idle
    /\ news # 0 => Idle
    /\ \A t, u \in Threads : phase[t] # "idle" /\ phase[u] # "idle" => t = u

\* nativePtr is the live decoder, and destroyWhenDone is set only while
\* somebody will still read it.
DecoderHeld ==
    /\ nativePtr <=> decoder = "live"
    /\ nativePtr => decoderCreated
    /\ destroyWhenDone => loadFrameTask
    /\ \A t \in Threads : phase[t] = "decoding" => nativePtr

\* A bitmap that is gone is in no field that will be drawn: the image is
\* unwanted from then on.
BitmapHeld ==
    /\ nextRenderingBitmap \/ renderingBitmap => nativePtr \/ destroyWhenDone
    /\ backgroundBitmap => decoderCreated
    /\ bitmap = "gone" =>
        \/ destroyWhenDone
        \/ ~nextRenderingBitmap /\ ~renderingBitmap /\ ~nativePtr /\ decoderCreated

IInv == TypeOK /\ OneFrame /\ DecoderHeld /\ BitmapHeld /\ ~misused

-----------------------------------------------------------------------------
LEMMA InitInv == Init => IInv
<1> SUFFICES ASSUME Init PROVE IInv
  OBVIOUS
<1>1. TypeOK
  <2>1. {decoder, bitmap} \subseteq {"none", "live", "gone"}
    BY DEF Init
  <2>2. loads \in 0..1 /\ news \in 0..1 /\ phase \in [Threads -> Phases]
    BY DEF Init, Phases
  <2>3. /\ {nativePtr, decoderCreated, backgroundBitmap, nextRenderingBitmap,
             renderingBitmap, loadFrameTask} \subseteq BOOLEAN
        /\ {isRunning, isRecycled, destroyWhenDone, secondParentView,
             recycleWithSecond, asked, misused} \subseteq BOOLEAN
    BY Zenon DEF Init
  <2> QED
    BY <2>1, <2>2, <2>3 DEF TypeOK
<1>2. OneFrame
  BY DEF Init, OneFrame, Idle
<1>3. DecoderHeld /\ BitmapHeld /\ ~misused
  BY DEF Init, DecoderHeld, BitmapHeld
<1> QED
  BY <1>1, <1>2, <1>3 DEF IInv

LEMMA NextInv == IInv /\ [Next]_vars => IInv'
<1> SUFFICES ASSUME IInv, [Next]_vars PROVE IInv'
  OBVIOUS
<1> USE DEF IInv, OneFrame, Idle, DecoderHeld, BitmapHeld, TypeOK, Phases
<1>1. CASE Start
  <2>1. TypeOK'
    <3>1. loadFrameTask' \in BOOLEAN /\ isRunning' \in BOOLEAN
      BY <1>1 DEF Start, ScheduleNextGetFrame, Unwanted
    <3>2. loads' \in 0..1
      BY <1>1 DEF Start, ScheduleNextGetFrame, Unwanted
    <3> QED
      BY <1>1, <3>1, <3>2 DEF Start, bitmaps, views
  <2>2. OneFrame'
    BY <1>1 DEF Start, ScheduleNextGetFrame, Unwanted, bitmaps, views
  <2>3. DecoderHeld'
    BY <1>1 DEF Start, ScheduleNextGetFrame, Unwanted, bitmaps, views
  <2>4. BitmapHeld' /\ ~misused'
    BY <1>1 DEF Start, ScheduleNextGetFrame, Unwanted, bitmaps, views
  <2> QED
    BY <2>1, <2>2, <2>3, <2>4
<1>2. CASE Stop
  <2>1. TypeOK'
    BY <1>2 DEF Stop, bitmaps, views
  <2>2. OneFrame'
    BY <1>2 DEF Stop, bitmaps, views
  <2>3. DecoderHeld'
    BY <1>2 DEF Stop, bitmaps, views
  <2>4. BitmapHeld' /\ ~misused'
    BY <1>2 DEF Stop, bitmaps, views
  <2> QED
    BY <2>1, <2>2, <2>3, <2>4
<1>3. CASE Draw
  <2>1. TypeOK'
    <3>1. loadFrameTask' \in BOOLEAN /\ misused' \in BOOLEAN
      BY <1>3 DEF Draw, ScheduleNextGetFrame, Unwanted
    <3>2. loads' \in 0..1
      BY <1>3 DEF Draw, ScheduleNextGetFrame, Unwanted
    <3>3. nextRenderingBitmap' \in BOOLEAN /\ renderingBitmap' \in BOOLEAN
      BY <1>3 DEF Draw
    <3> QED
      BY <1>3, <3>1, <3>2, <3>3 DEF Draw, views
  <2>2. OneFrame'
    BY <1>3 DEF Draw, ScheduleNextGetFrame, Unwanted, views
  <2>3. DecoderHeld'
    BY <1>3 DEF Draw, ScheduleNextGetFrame, Unwanted, views
  <2>4. BitmapHeld' /\ ~misused'
    BY <1>3 DEF Draw, ScheduleNextGetFrame, Unwanted, views
  <2> QED
    BY <2>1, <2>2, <2>3, <2>4
<1>4. CASE Recycle
  <2>1. TypeOK'
    <3>1. nativePtr' \in BOOLEAN /\ misused' \in BOOLEAN
      BY <1>4 DEF Recycle, Release, KeepAll, KeepDecoder, DestroyDecoder
    <3>2. {decoder', bitmap'} \subseteq {"none", "live", "gone"}
      BY <1>4 DEF Recycle, Release, KeepAll, KeepDecoder, DestroyDecoder
    <3>3. nextRenderingBitmap' \in BOOLEAN /\ renderingBitmap' \in BOOLEAN
      BY <1>4 DEF Recycle, Release, KeepAll
    <3>4. isRunning' \in BOOLEAN /\ isRecycled' \in BOOLEAN /\ destroyWhenDone' \in BOOLEAN
      BY <1>4 DEF Recycle, Release, KeepAll
    <3>5. /\ asked' \in BOOLEAN /\ recycleWithSecond' \in BOOLEAN
          /\ secondParentView' \in BOOLEAN
      BY <1>4 DEF Recycle
    <3>6. UNCHANGED <<decoderCreated, backgroundBitmap, loadFrameTask, loads, phase, news>>
      BY <1>4 DEF Recycle
    <3> QED
      BY <3>1, <3>2, <3>3, <3>4, <3>5, <3>6
  <2>2. OneFrame'
    BY <1>4 DEF Recycle, Release, KeepAll, KeepDecoder, DestroyDecoder
  <2>3. DecoderHeld'
    BY <1>4 DEF Recycle, Release, KeepAll, KeepDecoder, DestroyDecoder
  <2>4. BitmapHeld' /\ ~misused'
    BY <1>4 DEF Recycle, Release, KeepAll, KeepDecoder, DestroyDecoder
  <2> QED
    BY <2>1, <2>2, <2>3, <2>4
<1>5. CASE UiRunnable
  <2>1. TypeOK'
    <3>1. nativePtr' \in BOOLEAN /\ misused' \in BOOLEAN
      BY <1>5 DEF UiRunnable, KeepDecoder, DestroyDecoder
    <3>2. /\ backgroundBitmap' \in BOOLEAN /\ nextRenderingBitmap' \in BOOLEAN
          /\ loadFrameTask' \in BOOLEAN
      BY <1>5 DEF UiRunnable
    <3>3. news' \in 0..1 /\ {decoder', bitmap'} \subseteq {"none", "live", "gone"}
      BY <1>5 DEF UiRunnable, KeepDecoder, DestroyDecoder
    <3> QED
      BY <1>5, <3>1, <3>2, <3>3 DEF UiRunnable, UiFrame, views
  <2>2. OneFrame'
    BY <1>5 DEF UiRunnable, KeepDecoder, DestroyDecoder, UiFrame, views
  <2>3. DecoderHeld'
    BY <1>5 DEF UiRunnable, KeepDecoder, DestroyDecoder, UiFrame, views
  <2>4. BitmapHeld' /\ ~misused'
    BY <1>5 DEF UiRunnable, KeepDecoder, DestroyDecoder, UiFrame, views
  <2> QED
    BY <2>1, <2>2, <2>3, <2>4
<1>6. ASSUME NEW view \in BOOLEAN, SetSecondParentView(view) PROVE IInv'
  <2>1. TypeOK'
    <3>1. nativePtr' \in BOOLEAN /\ misused' \in BOOLEAN
      BY <1>6 DEF SetSecondParentView, Release, KeepAll, KeepDecoder, DestroyDecoder
    <3>2. {decoder', bitmap'} \subseteq {"none", "live", "gone"}
      BY <1>6 DEF SetSecondParentView, Release, KeepAll, KeepDecoder, DestroyDecoder
    <3>3. nextRenderingBitmap' \in BOOLEAN /\ renderingBitmap' \in BOOLEAN
      BY <1>6 DEF SetSecondParentView, Release, KeepAll
    <3>4. isRunning' \in BOOLEAN /\ isRecycled' \in BOOLEAN /\ destroyWhenDone' \in BOOLEAN
      BY <1>6 DEF SetSecondParentView, Release, KeepAll
    <3>5. /\ asked' \in BOOLEAN /\ recycleWithSecond' \in BOOLEAN
          /\ secondParentView' \in BOOLEAN
      BY <1>6 DEF SetSecondParentView, SetFrame
    <3>6. UNCHANGED <<decoderCreated, backgroundBitmap, loadFrameTask, loads, phase, news>>
      BY <1>6 DEF SetSecondParentView, SetFrame
    <3> QED
      BY <3>1, <3>2, <3>3, <3>4, <3>5, <3>6
  <2>2. OneFrame'
    BY <1>6 DEF SetSecondParentView, Release, KeepAll, KeepDecoder, DestroyDecoder, SetFrame
  <2>3. DecoderHeld'
    BY <1>6 DEF SetSecondParentView, Release, KeepAll, KeepDecoder, DestroyDecoder, SetFrame
  <2>4. BitmapHeld' /\ ~misused'
    BY <1>6 DEF SetSecondParentView, Release, KeepAll, KeepDecoder, DestroyDecoder, SetFrame
  <2> QED
    BY <2>1, <2>2, <2>3, <2>4
<1>7. ASSUME NEW t \in Threads, Load(t) PROVE IInv'
  <2>1. CASE Begin(t)
    <3>1. TypeOK'
      BY <2>1 DEF Begin, Move, LoadFrame, views
    <3>2. OneFrame'
      BY <2>1 DEF Begin, Move, LoadFrame, views
    <3>3. DecoderHeld'
      BY <2>1 DEF Begin, Move, LoadFrame, views
    <3>4. BitmapHeld' /\ ~misused'
      BY <2>1 DEF Begin, Move, LoadFrame, views
    <3> QED
      BY <3>1, <3>2, <3>3, <3>4
  <2>2. CASE CreateDecoder(t)
    <3>1. TypeOK'
      <4>1. nativePtr' \in BOOLEAN /\ decoderCreated' \in BOOLEAN
        BY <2>2 DEF CreateDecoder
      <4>2. decoder' \in {"none", "live", "gone"}
        BY <2>2 DEF CreateDecoder
      <4>3. phase' \in [Threads -> Phases]
        BY <2>2 DEF CreateDecoder, Move
      <4>4. UNCHANGED <<bitmap, backgroundBitmap, loads, news>> /\ LoadFrame
        BY <2>2 DEF CreateDecoder
      <4> QED
        BY <4>1, <4>2, <4>3, <4>4 DEF LoadFrame, views
    <3>2. OneFrame'
      BY <2>2 DEF CreateDecoder, Move, LoadFrame, views
    <3>3. DecoderHeld'
      BY <2>2 DEF CreateDecoder, Move, LoadFrame, views
    <3>4. BitmapHeld' /\ ~misused'
      BY <2>2 DEF CreateDecoder, Move, LoadFrame, views
    <3> QED
      BY <3>1, <3>2, <3>3, <3>4
  <2>3. CASE CreateBitmap(t)
    <3>1. TypeOK'
      <4>1. bitmap' \in {"none", "live", "gone"} /\ backgroundBitmap' \in BOOLEAN
        BY <2>3 DEF CreateBitmap
      <4>2. phase' \in [Threads -> Phases]
        BY <2>3 DEF CreateBitmap, Move
      <4>3. UNCHANGED <<nativePtr, decoderCreated, decoder, loads, news>> /\ LoadFrame
        BY <2>3 DEF CreateBitmap
      <4> QED
        BY <4>1, <4>2, <4>3 DEF LoadFrame, views
    <3>2. OneFrame'
      BY <2>3 DEF CreateBitmap, Move, LoadFrame, views
    <3>3. DecoderHeld'
      BY <2>3 DEF CreateBitmap, Move, LoadFrame, views
    <3>4. BitmapHeld' /\ ~misused'
      BY <2>3 DEF CreateBitmap, Move, LoadFrame, views
    <3> QED
      BY <3>1, <3>2, <3>3, <3>4
  <2>4. CASE GetVideoFrame(t)
    <3>1. TypeOK'
      BY <2>4 DEF GetVideoFrame, Move, LoadFrame, views
    <3>2. OneFrame'
      BY <2>4 DEF GetVideoFrame, Move, LoadFrame, views
    <3>3. DecoderHeld'
      BY <2>4 DEF GetVideoFrame, Move, LoadFrame, views
    <3>4. BitmapHeld' /\ ~misused'
      BY <2>4 DEF GetVideoFrame, Move, LoadFrame, views
    <3> QED
      BY <3>1, <3>2, <3>3, <3>4
  <2>5. CASE Tell(t)
    <3>1. TypeOK'
      BY <2>5 DEF Tell, Move, LoadFrame, views
    <3>2. OneFrame'
      BY <2>5 DEF Tell, Move, LoadFrame, views
    <3>3. DecoderHeld'
      BY <2>5 DEF Tell, Move, LoadFrame, views
    <3>4. BitmapHeld' /\ ~misused'
      BY <2>5 DEF Tell, Move, LoadFrame, views
    <3> QED
      BY <3>1, <3>2, <3>3, <3>4
  <2> QED
    BY <1>7, <2>1, <2>2, <2>3, <2>4, <2>5 DEF Load
<1>8. CASE UNCHANGED vars
  BY <1>8 DEF vars, bitmaps, views
<1> QED
  BY <1>1, <1>2, <1>3, <1>4, <1>5, <1>6, <1>7, <1>8 DEF Next

LEMMA Invariance == Spec => []IInv
<1> QED
  BY InitInv, NextInv, PTL DEF Spec

\* Every reachable state is well typed; in particular at most one frame is on
\* its way between the main thread and the pool.
THEOREM Typing == Spec => []TypeOK
<1>1. IInv => TypeOK
  BY DEF IInv
<1> QED
  BY <1>1, Invariance, PTL

\* While a thread is decoding a frame the decoder is there, it is destroyed at
\* most once, and no bitmap that is gone is drawn, whatever the pool's size.
THEOREM DecoderIsSafe == Spec => []DecoderIsAlive
<1>1. IInv => DecoderIsAlive
  BY DEF IInv, DecoderHeld, DecoderIsAlive
<1> QED
  BY <1>1, Invariance, PTL
===============================================================================
