--------------------------- MODULE VoicePlayerProofs ---------------------------
(***************************************************************************)
(* The safety properties of VoicePlayer for every number of buffers, every *)
(* length of a message and every number of calls.                          *)
(*                                                                         *)
(* The inductive invariant says where the parts of the message are while   *)
(* its track is there: after the last part that was given comes the fresh  *)
(* buffer that the player holds, then the decoded ones, then the position  *)
(* in the file. That this is the file of the track's own message follows   *)
(* from the order of the tasks of fileDecodingQueue.                       *)
(*                                                                         *)
(* Two more invariants stand on it: what the writes that fell short have   *)
(* cost, with the one that still may; and that whatever says that the      *)
(* message is at its end is right.                                         *)
(***************************************************************************)
EXTENDS VoicePlayer, ListLemmas

TrackTyped ==
    /\ audioTrackPlayer \in OrNone(Messages) /\ marker \in OrNone(Messages)
    /\ trackPlaying \in BOOLEAN /\ isPaused \in BOOLEAN
    /\ audioTrackPlayer = 0 => ~trackPlaying /\ marker = 0

MainTyped ==
    /\ audioProgress \in Places /\ buffersWrited \in 0..2
    /\ opening \in {"no", "wait", "opened", "made"}

CallsTyped == plays \in 0..MaxPlays /\ seeks \in 0..MaxSeeks /\ pauses \in 0..MaxPauses

WriterTyped ==
    /\ playerTasks \in Nat /\ player \in {"idle", "checked", "holds", "writes"}
    /\ held \in Buffer /\ fresh \in BOOLEAN
    /\ into \in OrNone(Messages) /\ rested \in BOOLEAN

FileTyped ==
    /\ opened \in OrNone(Messages) /\ position \in 1..(Length + 1)
    /\ exact \in BOOLEAN /\ finished \in BOOLEAN /\ readFinished \in BOOLEAN
    /\ decodingFinished \in BOOLEAN

LoopTyped == decoding \in BOOLEAN /\ was \in BOOLEAN /\ mute \in BOOLEAN

BuffersTyped ==
    /\ freePlayerBuffers \in Nat /\ usedPlayerBuffers \in Seq(Buffer)
    /\ BuffersKept

GivenTyped ==
    /\ ready \in BOOLEAN /\ given \in 0..Length
    /\ late \in BOOLEAN /\ spoiled \in BOOLEAN /\ unearned \in BOOLEAN
    /\ lost \in Nat /\ early \in BOOLEAN

DecodeTask ==
    [kind : {"check", "reset"}] \cup [kind : {"open"}, play : Messages]
        \cup [kind : {"seek"}, to : Places]

WroteTask ==
    [kind : {"wrote"}, finished : BOOLEAN, first : BOOLEAN, play : OrNone(Messages),
     track : Messages, fresh : BOOLEAN]

MarkerTask ==
    [kind : {"marker"}, play : Messages, track : Messages, fresh : BOOLEAN]

UiTask == WroteTask \cup MarkerTask \cup [kind : {"sought"}]

TasksTyped == decodeTasks \in Seq(DecodeTask) /\ uiTasks \in Seq(UiTask)

\* TypeOK by groups of variables, with the tasks in full.
Typed ==
    /\ TrackTyped /\ MainTyped /\ CallsTyped /\ WriterTyped /\ FileTyped /\ LoopTyped
    /\ BuffersTyped /\ GivenTyped /\ TasksTyped

\* A file is opened while playAudio waits for it, after all that was asked
\* for before, and the buffers are not taken back before its track is there.
OpenIsLast ==
    /\ \A i \in DOMAIN decodeTasks : decodeTasks[i].kind = "open" =>
           /\ opening = "wait" /\ decodeTasks[i].play = plays
           /\ \A j \in DOMAIN decodeTasks :
                  decodeTasks[j].kind \in {"open", "reset"} => j <= i
    /\ opening = "opened" =>
           /\ opened = plays /\ plays # 0 /\ ~ready
           /\ \A i \in DOMAIN decodeTasks : decodeTasks[i].kind # "reset"

\* The track and the file are the last message's.
TrackOfFile ==
    audioTrackPlayer # 0 =>
        audioTrackPlayer = plays /\ opened = plays /\ opening \in {"no", "made"}

\* How many parts of the message the player holds.
Taken == IF fresh THEN 1 ELSE 0

\* What is between the track and the file is the message, part after part.
InOrder ==
    /\ fresh => player \in {"holds", "writes"} /\ ready
    /\ fresh /\ player = "writes" /\ into # 0 => held.play = into
    /\ audioTrackPlayer # 0 /\ ready =>
           /\ fresh => held.play = opened /\ held.part = given + 1
           /\ fresh /\ player = "writes" => into = audioTrackPlayer
           /\ \A i \in DOMAIN usedPlayerBuffers :
                  /\ usedPlayerBuffers[i].play = opened
                  /\ usedPlayerBuffers[i].part = given + Taken + i
           /\ position = given + Taken + Len(usedPlayerBuffers) + 1

\* News of a fresh buffer, and a marker set by it, are the track's own.
OwnNews ==
    /\ \A t \in ToSet(uiTasks) :
           t.kind \in {"wrote", "marker"} /\ t.fresh => t.play = t.track
    /\ audioTrackPlayer # 0 /\ marker # 0 /\ ~late => marker = audioTrackPlayer

\* Nothing but its own sound is given to a track, and no other message ends it.
OwnSound == ~spoiled /\ ~unearned

IInv ==
    Typed /\ OpenIsLast /\ TrackOfFile /\ InOrder /\ OwnNews /\ OwnSound

-----------------------------------------------------------------------------
(* The types.                                                              *)

LEMMA TypedIsTypeOK == Typed => TypeOK
<1> SUFFICES ASSUME Typed PROVE TypeOK
  OBVIOUS
<1> USE DEF Typed
<1>1. {trackPlaying, isPaused, decoding, was, exact, finished, readFinished,
       decodingFinished, rested, ready, fresh, late, spoiled, unearned, early, mute}
          \subseteq BOOLEAN
  BY Zenon DEF TrackTyped, LoopTyped, FileTyped, GivenTyped, WriterTyped
<1>2. /\ \A t \in ToSet(uiTasks) : t.kind \in {"wrote", "marker", "sought"}
      /\ \A t \in ToSet(decodeTasks) : t.kind \in {"check", "open", "reset", "seek"}
  <2>1. /\ \A t \in ToSet(uiTasks) : t \in UiTask
        /\ \A t \in ToSet(decodeTasks) : t \in DecodeTask
    BY DEF TasksTyped, ToSet
  <2> QED
    BY <2>1 DEF UiTask, WroteTask, MarkerTask, DecodeTask
<1>3. freePlayerBuffers \in 0..Buffers
  <2>1. Len(usedPlayerBuffers) \in Nat
    BY DEF BuffersTyped
  <2> QED
    BY <2>1, PlayerAssumption DEF BuffersTyped, BuffersKept
<1> QED
  BY <1>1, <1>2, <1>3 DEF TypeOK, TrackTyped, MainTyped, CallsTyped, WriterTyped, FileTyped,
                          BuffersTyped, GivenTyped

LEMMA DecodeKinds ==
    /\ \A t \in DecodeTask :
           /\ t.kind = "open" => t.play \in Messages
           /\ t.kind = "seek" => t.to \in Places
    /\ CheckTask \in DecodeTask /\ CheckTask.kind = "check"
    /\ ResetTask \in DecodeTask /\ ResetTask.kind = "reset"
    /\ \A p \in Messages :
           /\ OpenTask(p) \in DecodeTask
           /\ OpenTask(p).kind = "open" /\ OpenTask(p).play = p
    /\ \A n \in Places : SeekTask(n) \in DecodeTask /\ SeekTask(n).kind = "seek"
BY DEF DecodeTask, CheckTask, ResetTask, OpenTask, SeekTask

LEMMA UiKinds ==
    /\ \A t \in UiTask :
           /\ t.kind = "wrote" => t \in WroteTask
           /\ t.kind = "marker" => t \in MarkerTask
    /\ SoughtTask \in UiTask /\ SoughtTask.kind = "sought"
BY DEF UiTask, WroteTask, MarkerTask, SoughtTask

LEMMA InitInv == Init => IInv
<1> SUFFICES ASSUME Init PROVE IInv
  OBVIOUS
<1> USE DEF Init
<1>1. ToSet(<<>>) = {} /\ DOMAIN <<>> = {}
  BY DEF ToSet
<1>2. TrackTyped /\ MainTyped /\ CallsTyped /\ LoopTyped
  <2>1. TrackTyped /\ LoopTyped
    BY DEF TrackTyped, LoopTyped, OrNone
  <2>2. MainTyped
    BY PlayerAssumption DEF MainTyped, Places
  <2>3. CallsTyped
    BY PlayerAssumption DEF CallsTyped
  <2> QED
    BY <2>1, <2>2, <2>3
<1>3. WriterTyped /\ FileTyped /\ GivenTyped
  <2>1. WriterTyped
    <3>1. NoBuffer \in Buffer
      BY PlayerAssumption DEF NoBuffer, Buffer, OrNone
    <3> QED
      BY <3>1 DEF WriterTyped, OrNone
  <2>2. FileTyped
    <3>1. 1 \in 1..(Length + 1)
      BY PlayerAssumption
    <3> QED
      BY <3>1 DEF FileTyped, OrNone
  <2>3. GivenTyped
    <3>1. 0 \in 0..Length
      BY PlayerAssumption
    <3> QED
      BY <3>1 DEF GivenTyped
  <2> QED
    BY <2>1, <2>2, <2>3
<1>4. BuffersTyped /\ TasksTyped
  BY PlayerAssumption DEF BuffersTyped, BuffersKept, TasksTyped
<1>5. OpenIsLast /\ TrackOfFile /\ InOrder /\ OwnNews /\ OwnSound
  BY <1>1 DEF OpenIsLast, TrackOfFile, InOrder, OwnNews, OwnSound
<1> QED
  BY <1>2, <1>3, <1>4, <1>5 DEF IInv, Typed

\* A task that neither opens nor takes back is posted.
LEMMA AppendOther ==
    ASSUME IInv, NEW t \in DecodeTask, t.kind \notin {"open", "reset"},
           decodeTasks' = Append(decodeTasks, t), UNCHANGED <<opening, plays, opened, ready>>
    PROVE  decodeTasks' \in Seq(DecodeTask) /\ OpenIsLast'
<1>1. decodeTasks \in Seq(DecodeTask)
  BY DEF IInv, Typed, TasksTyped
<1>2. /\ decodeTasks' \in Seq(DecodeTask)
      /\ DOMAIN decodeTasks = 1..Len(decodeTasks) /\ Len(decodeTasks) \in Nat
      /\ DOMAIN decodeTasks' = 1..(Len(decodeTasks) + 1)
      /\ \A i \in DOMAIN decodeTasks : decodeTasks'[i] = decodeTasks[i]
      /\ decodeTasks'[Len(decodeTasks) + 1] = t
  BY <1>1
<1>3. \A i \in DOMAIN decodeTasks' :
          decodeTasks'[i].kind \in {"open", "reset"} => i \in DOMAIN decodeTasks
  BY <1>2
<1> QED
  BY <1>2, <1>3 DEF IInv, OpenIsLast

\* A task that does not open is taken.
LEMMA TakeOther ==
    ASSUME IInv, NEW kind, kind # "open", FirstDecode(kind)
    PROVE  /\ Head(decodeTasks) \in DecodeTask /\ Head(decodeTasks).kind = kind
           /\ decodeTasks' \in Seq(DecodeTask)
           /\ kind = "reset" => opening # "opened"
           /\ UNCHANGED <<opening, plays, opened>> /\ (opening = "opened" => ~ready') =>
                  OpenIsLast'
<1>1. /\ decodeTasks \in Seq(DecodeTask) /\ decodeTasks # <<>>
      /\ Head(decodeTasks).kind = kind /\ decodeTasks' = Tail(decodeTasks)
  BY DEF IInv, Typed, TasksTyped, FirstDecode
<1>2. /\ decodeTasks' \in Seq(DecodeTask) /\ Head(decodeTasks) \in DecodeTask
      /\ Len(decodeTasks) \in Nat \ {0} /\ Head(decodeTasks) = decodeTasks[1]
      /\ Len(decodeTasks') = Len(decodeTasks) - 1
      /\ \A i \in 1..Len(decodeTasks') : decodeTasks'[i] = decodeTasks[i + 1]
  BY <1>1, HeadTailProperties, EmptySeq
<1>3. /\ DOMAIN decodeTasks = 1..Len(decodeTasks)
      /\ DOMAIN decodeTasks' = 1..(Len(decodeTasks) - 1)
      /\ 1 \in DOMAIN decodeTasks
  BY <1>1, <1>2
<1>4. \A i \in DOMAIN decodeTasks' :
          i \in Int /\ i + 1 \in DOMAIN decodeTasks /\ decodeTasks'[i] = decodeTasks[i + 1]
  BY <1>2, <1>3
<1>5. kind = "reset" => opening # "opened"
  BY <1>1, <1>2, <1>3 DEF IInv, OpenIsLast
<1>6. ASSUME UNCHANGED <<opening, plays, opened>>, opening = "opened" => ~ready'
      PROVE  OpenIsLast'
  <2>1. ASSUME NEW i \in DOMAIN decodeTasks', decodeTasks'[i].kind = "open"
        PROVE  /\ opening' = "wait" /\ decodeTasks'[i].play = plays'
               /\ \A j \in DOMAIN decodeTasks' :
                      decodeTasks'[j].kind \in {"open", "reset"} => j <= i
    <3>1. opening = "wait" /\ decodeTasks[i + 1].play = plays
      BY <1>4, <2>1 DEF IInv, OpenIsLast
    <3>2. ASSUME NEW j \in DOMAIN decodeTasks', decodeTasks'[j].kind \in {"open", "reset"}
          PROVE  j <= i
      <4>1. j + 1 <= i + 1
        BY <1>4, <2>1, <3>2 DEF IInv, OpenIsLast
      <4> QED
        BY <1>4, <4>1
    <3> QED
      BY <1>4, <1>6, <3>1, <3>2
  <2>2. opening' = "opened" =>
            /\ opened' = plays' /\ plays' # 0 /\ ~ready'
            /\ \A i \in DOMAIN decodeTasks' : decodeTasks'[i].kind # "reset"
    BY <1>4, <1>6 DEF IInv, OpenIsLast
  <2> QED
    BY <2>1, <2>2 DEF OpenIsLast
<1> QED
  BY <1>1, <1>2, <1>5, <1>6

\* A track that is gone owes nothing.
LEMMA NoTrackKeeps ==
    ASSUME IInv, NoTrack, UNCHANGED <<uiTasks, fresh, player, held, into, ready>>
    PROVE  TrackTyped' /\ TrackOfFile' /\ InOrder' /\ OwnNews'
BY DEF IInv, NoTrack, TrackTyped, TrackOfFile, InOrder, OwnNews, OrNone

-----------------------------------------------------------------------------
(* The main thread.                                                        *)

LEMMA PlayAudioInv ==
    ASSUME IInv, NEW progress \in Places, PlayAudio(progress)
    PROVE  IInv'
<1>1. UNCHANGED <<uiTasks, playerTasks, player, held, into, rested, fresh, decoding, was,
                  opened, position, exact, finished, readFinished, decodingFinished,
                  freePlayerBuffers, usedPlayerBuffers, seeks, pauses, ready, given, lost,
                  late, spoiled, unearned, early, mute>>
  BY DEF PlayAudio, CleanupPlayer, NoTrack, writer, write, loop, file, buffers, faults
<1>2. /\ NoTrack /\ opening = "no" /\ opening' = "wait"
      /\ buffersWrited' = 0 /\ audioProgress' = progress
      /\ plays < MaxPlays /\ plays' = plays + 1
      /\ decodeTasks' = Append(decodeTasks, OpenTask(plays + 1))
  BY DEF PlayAudio, CleanupPlayer, NoTrack, writer, write, loop, file, buffers, faults
<1>3. /\ WriterTyped' /\ FileTyped' /\ LoopTyped' /\ BuffersTyped' /\ GivenTyped'
      /\ OwnSound'
  BY <1>1 DEF IInv, Typed, WriterTyped, FileTyped, LoopTyped, BuffersTyped,
               BuffersKept, GivenTyped, OwnSound
<1>4. TrackTyped'
  BY <1>1, <1>2, NoTrackKeeps
<1>5. MainTyped'
  BY <1>2 DEF MainTyped
<1>6. CallsTyped'
  BY <1>1, <1>2, PlayerAssumption DEF IInv, Typed, CallsTyped
<1>7. TasksTyped'
  <2>1. plays + 1 \in Messages
    BY <1>2, PlayerAssumption DEF IInv, Typed, CallsTyped, Messages
  <2>2. OpenTask(plays + 1) \in DecodeTask
    BY <2>1, DecodeKinds
  <2> QED
    BY <1>1, <1>2, <2>2 DEF IInv, Typed, TasksTyped
<1>8. OpenIsLast'
  <2>1. plays + 1 \in Messages /\ decodeTasks \in Seq(DecodeTask)
    BY <1>2, PlayerAssumption DEF IInv, Typed, CallsTyped, TasksTyped, Messages
  <2>2. OpenTask(plays + 1).kind = "open" /\ OpenTask(plays + 1).play = plays + 1
    BY <2>1, DecodeKinds
  <2>3. /\ DOMAIN decodeTasks = 1..Len(decodeTasks) /\ Len(decodeTasks) \in Nat
        /\ DOMAIN decodeTasks' = 1..(Len(decodeTasks) + 1)
        /\ \A i \in DOMAIN decodeTasks : decodeTasks'[i] = decodeTasks[i]
        /\ decodeTasks'[Len(decodeTasks) + 1] = OpenTask(plays + 1)
    BY <1>2, <2>1
  <2>4. \A i \in DOMAIN decodeTasks : decodeTasks[i].kind # "open"
    BY <1>2 DEF IInv, OpenIsLast
  <2>5. ASSUME NEW i \in DOMAIN decodeTasks', decodeTasks'[i].kind = "open"
        PROVE  i = Len(decodeTasks) + 1
    BY <2>3, <2>4, <2>5
  <2> QED
    BY <1>2, <2>2, <2>3, <2>5 DEF OpenIsLast
<1>9. TrackOfFile'
  BY <1>1, <1>2, NoTrackKeeps
<1>10. InOrder'
  BY <1>1, <1>2, NoTrackKeeps
<1>11. OwnNews'
  BY <1>1, <1>2, NoTrackKeeps
<1> QED
  BY <1>3, <1>4, <1>5, <1>6, <1>7, <1>8, <1>9, <1>10, <1>11 DEF IInv, Typed

LEMMA MakeTrackInv == IInv /\ MakeTrack => IInv'
<1> SUFFICES ASSUME IInv, MakeTrack PROVE IInv'
  OBVIOUS
<1>1. UNCHANGED <<marker, isPaused, audioProgress, buffersWrited, uiTasks, playerTasks,
                  player, held, into, rested, fresh, decodeTasks, decoding, was, opened,
                  position, exact, finished, readFinished, decodingFinished,
                  freePlayerBuffers, usedPlayerBuffers, plays, seeks, pauses, ready, given,
                  lost, spoiled, unearned, early, mute>>
  BY DEF MakeTrack, QueuesFrame, writer, write, loop, file, buffers, calls
<1>2. /\ opening = "opened" /\ opening' = "made" /\ audioTrackPlayer' = plays
      /\ trackPlaying' = TRUE /\ late' = FALSE
  BY DEF MakeTrack, QueuesFrame, writer, write, loop, file, buffers, calls
<1>3. /\ CallsTyped' /\ WriterTyped' /\ FileTyped' /\ LoopTyped' /\ BuffersTyped'
      /\ TasksTyped' /\ OwnSound'
  BY <1>1 DEF IInv, Typed, CallsTyped, WriterTyped, FileTyped, LoopTyped, BuffersTyped,
               BuffersKept, TasksTyped, OwnSound
<1>4. TrackTyped'
  <2>1. plays \in OrNone(Messages)
    BY PlayerAssumption DEF IInv, Typed, CallsTyped, OrNone, Messages
  <2>2. plays # 0
    BY <1>2 DEF IInv, TrackOfFile, OpenIsLast
  <2> QED
    BY <1>1, <1>2, <2>1, <2>2 DEF IInv, Typed, TrackTyped
<1>5. MainTyped'
  BY <1>1, <1>2 DEF IInv, Typed, MainTyped
<1>6. GivenTyped'
  BY <1>1, <1>2 DEF IInv, Typed, GivenTyped
<1>7. OpenIsLast'
  BY <1>1, <1>2 DEF IInv, OpenIsLast
<1>8. TrackOfFile'
  BY <1>1, <1>2 DEF IInv, OpenIsLast, TrackOfFile
<1>9. InOrder'
  BY <1>1, <1>2 DEF IInv, OpenIsLast, InOrder
<1>10. OwnNews'
  <2>1. audioTrackPlayer = 0
    BY <1>2 DEF IInv, TrackOfFile
  <2> QED
    BY <1>1, <1>2, <2>1 DEF IInv, Typed, TrackTyped, OwnNews
<1> QED
  BY <1>3, <1>4, <1>5, <1>6, <1>7, <1>8, <1>9, <1>10 DEF IInv, Typed

LEMMA TrackFailsInv == IInv /\ TrackFails => IInv'
<1> SUFFICES ASSUME IInv, TrackFails PROVE IInv'
  OBVIOUS
<1>1. UNCHANGED <<audioTrackPlayer, trackPlaying, marker, isPaused, audioProgress,
                  buffersWrited, uiTasks, playerTasks, player, held, into, rested, fresh,
                  decodeTasks, decoding, was, opened, position, exact, finished,
                  readFinished, decodingFinished, freePlayerBuffers, usedPlayerBuffers,
                  plays, seeks, pauses, ready, given, lost, late, spoiled, unearned, early,
                  mute>>
  BY DEF TrackFails, QueuesFrame, track, writer, write, loop, file, buffers, calls, faults
<1>2. opening = "opened" /\ opening' = "no"
  BY DEF TrackFails
<1>3. /\ TrackTyped' /\ CallsTyped' /\ WriterTyped' /\ FileTyped' /\ LoopTyped'
      /\ BuffersTyped' /\ GivenTyped' /\ TasksTyped' /\ InOrder' /\ OwnNews' /\ OwnSound'
  BY <1>1 DEF IInv, Typed, TrackTyped, CallsTyped, WriterTyped, FileTyped, LoopTyped,
              BuffersTyped, BuffersKept, GivenTyped, TasksTyped, InOrder, Taken, OwnNews,
              OwnSound
<1>4. MainTyped' /\ OpenIsLast' /\ TrackOfFile'
  BY <1>1, <1>2 DEF IInv, Typed, MainTyped, OpenIsLast, TrackOfFile
<1> QED
  BY <1>3, <1>4 DEF IInv, Typed

LEMMA PostResetInv == IInv /\ PostReset => IInv'
<1> SUFFICES ASSUME IInv, PostReset PROVE IInv'
  OBVIOUS
<1>1. UNCHANGED <<audioTrackPlayer, trackPlaying, marker, isPaused, audioProgress,
                  buffersWrited, uiTasks, playerTasks, player, held, into, rested, fresh,
                  decoding, was, opened, position, exact, finished, readFinished,
                  decodingFinished, freePlayerBuffers, usedPlayerBuffers, plays, seeks,
                  pauses, ready, given, lost, late, spoiled, unearned, early, mute>>
  BY DEF PostReset, track, writer, write, loop, file, buffers, calls, faults
<1>2. /\ opening = "made" /\ opening' = "no"
      /\ decodeTasks' = Append(decodeTasks, ResetTask)
  BY DEF PostReset, track, writer, write, loop, file, buffers, calls, faults
<1>3. /\ TrackTyped' /\ CallsTyped' /\ WriterTyped' /\ FileTyped' /\ LoopTyped'
      /\ BuffersTyped' /\ GivenTyped' /\ InOrder' /\ OwnNews' /\ OwnSound'
  BY <1>1 DEF IInv, Typed, TrackTyped, CallsTyped, WriterTyped, FileTyped, LoopTyped,
               BuffersTyped, BuffersKept, GivenTyped, InOrder, Taken, OwnNews,
               OwnSound
<1>4. MainTyped'
  BY <1>1, <1>2 DEF IInv, Typed, MainTyped
<1>5. TasksTyped'
  BY <1>1, <1>2, DecodeKinds DEF IInv, Typed, TasksTyped
<1>6. OpenIsLast'
  <2>1. \A i \in DOMAIN decodeTasks : decodeTasks[i].kind # "open"
    BY <1>2 DEF IInv, OpenIsLast
  <2>2. decodeTasks \in Seq(DecodeTask)
    BY DEF IInv, Typed, TasksTyped
  <2>3. \A i \in DOMAIN decodeTasks' : decodeTasks'[i].kind # "open"
    BY <1>2, <2>1, <2>2, DecodeKinds
  <2> QED
    BY <1>2, <2>3 DEF OpenIsLast
<1>7. TrackOfFile'
  BY <1>1, <1>2 DEF IInv, TrackOfFile
<1> QED
  BY <1>3, <1>4, <1>5, <1>6, <1>7 DEF IInv, Typed

LEMMA StopAudioInv == IInv /\ StopAudio => IInv'
<1> SUFFICES ASSUME IInv, StopAudio PROVE IInv'
  OBVIOUS
<1>1. UNCHANGED <<audioProgress, opening, uiTasks, playerTasks, player, held, into, rested,
                  fresh, decodeTasks, decoding, was, opened, position, exact, finished,
                  readFinished, decodingFinished, freePlayerBuffers, usedPlayerBuffers,
                  plays, seeks, pauses, ready, given, lost, late, spoiled, unearned, early,
                  mute>>
  BY DEF StopAudio, QueuesFrame, writer, write, loop, file, buffers, NoTrack, calls, faults
<1>2. NoTrack /\ buffersWrited' \in {0, buffersWrited}
  BY DEF StopAudio, QueuesFrame, writer, write, loop, file, buffers, NoTrack, calls, faults
<1>3. /\ CallsTyped' /\ WriterTyped' /\ FileTyped' /\ LoopTyped' /\ BuffersTyped'
      /\ GivenTyped' /\ TasksTyped' /\ OpenIsLast' /\ OwnSound'
  BY <1>1 DEF IInv, Typed, CallsTyped, WriterTyped, FileTyped, LoopTyped, BuffersTyped,
               BuffersKept, GivenTyped, TasksTyped, OpenIsLast, OwnSound
<1>4. TrackTyped'
  BY <1>1, <1>2, NoTrackKeeps
<1>5. MainTyped'
  BY <1>1, <1>2 DEF IInv, Typed, MainTyped
<1>6. TrackOfFile'
  BY <1>1, <1>2, NoTrackKeeps
<1>7. InOrder'
  BY <1>1, <1>2, NoTrackKeeps
<1>8. OwnNews'
  BY <1>1, <1>2, NoTrackKeeps
<1> QED
  BY <1>3, <1>4, <1>5, <1>6, <1>7, <1>8 DEF IInv, Typed

LEMMA PauseAudioInv == IInv /\ PauseAudio => IInv'
<1> SUFFICES ASSUME IInv, PauseAudio PROVE IInv'
  OBVIOUS
<1>1. UNCHANGED <<audioTrackPlayer, marker, audioProgress, opening, buffersWrited, uiTasks,
                  playerTasks, player, held, into, fresh, decodeTasks, decoding,
                  was, opened, position, exact, finished, readFinished, decodingFinished,
                  freePlayerBuffers, usedPlayerBuffers, plays, seeks, ready, given, lost,
                  late, spoiled, unearned, early, mute>>
  BY DEF PauseAudio, Rest, QueuesFrame, writer, write, loop, file, buffers, faults
<1>2. /\ audioTrackPlayer # 0 /\ trackPlaying' = FALSE
      /\ rested' = (rested \/ player = "writes")
      /\ isPaused' = TRUE
      /\ pauses < MaxPauses /\ pauses' = pauses + 1
  BY DEF PauseAudio, Rest, QueuesFrame, writer, write, loop, file, buffers, faults
<1>3. /\ MainTyped' /\ FileTyped' /\ LoopTyped' /\ BuffersTyped'
      /\ GivenTyped' /\ TasksTyped' /\ OpenIsLast' /\ TrackOfFile' /\ InOrder'
      /\ OwnNews' /\ OwnSound'
  BY <1>1 DEF IInv, Typed, MainTyped, FileTyped, LoopTyped, BuffersTyped,
               BuffersKept, GivenTyped, TasksTyped, OpenIsLast, TrackOfFile, InOrder,
               Taken, OwnNews, OwnSound
<1>4. WriterTyped'
  <2>1. rested' \in BOOLEAN
    BY <1>2 DEF IInv, Typed, WriterTyped
  <2> QED
    BY <1>1, <2>1 DEF IInv, Typed, WriterTyped
<1>5. TrackTyped'
  BY <1>1, <1>2 DEF IInv, Typed, TrackTyped
<1>6. CallsTyped'
  BY <1>1, <1>2, PlayerAssumption DEF IInv, Typed, CallsTyped
<1> QED
  BY <1>3, <1>4, <1>5, <1>6 DEF IInv, Typed

LEMMA ResumeAudioInv == IInv /\ ResumeAudio => IInv'
<1> SUFFICES ASSUME IInv, ResumeAudio PROVE IInv'
  OBVIOUS
<1>1. UNCHANGED <<audioTrackPlayer, marker, audioProgress, opening, buffersWrited, uiTasks,
                  player, held, into, rested, fresh, decodeTasks, decoding, was, opened,
                  position, exact, finished, readFinished, decodingFinished,
                  freePlayerBuffers, usedPlayerBuffers, plays, seeks, pauses, ready, given,
                  lost, late, spoiled, unearned, early, mute>>
  BY DEF ResumeAudio, ResumeFrame, writer, write, loop, file, buffers, calls, faults
<1>2. /\ audioTrackPlayer # 0 /\ trackPlaying' = TRUE /\ isPaused' = FALSE
      /\ playerTasks' = playerTasks + 1
  BY DEF ResumeAudio, ResumeFrame, writer, write, loop, file, buffers, calls, faults
<1>3. /\ MainTyped' /\ CallsTyped' /\ FileTyped' /\ LoopTyped' /\ BuffersTyped'
      /\ GivenTyped' /\ TasksTyped' /\ OpenIsLast' /\ TrackOfFile' /\ InOrder'
      /\ OwnNews' /\ OwnSound'
  BY <1>1 DEF IInv, Typed, MainTyped, CallsTyped, FileTyped, LoopTyped, BuffersTyped,
               BuffersKept, GivenTyped, TasksTyped, OpenIsLast, TrackOfFile, InOrder,
               Taken, OwnNews, OwnSound
<1>4. TrackTyped'
  BY <1>1, <1>2 DEF IInv, Typed, TrackTyped
<1>5. WriterTyped'
  <2>1. playerTasks' \in Nat
    BY <1>2 DEF IInv, Typed, WriterTyped
  <2> QED
    BY <1>1, <2>1 DEF IInv, Typed, WriterTyped
<1> QED
  BY <1>3, <1>4, <1>5 DEF IInv, Typed

LEMMA SeekToProgressInv ==
    ASSUME IInv, NEW to \in Places, SeekToProgress(to)
    PROVE  IInv'
<1>1. UNCHANGED <<audioTrackPlayer, marker, isPaused, audioProgress, opening, buffersWrited,
                  uiTasks, playerTasks, player, held, into, fresh, decoding, was,
                  opened, position, exact, finished, readFinished, decodingFinished,
                  freePlayerBuffers, usedPlayerBuffers, plays, pauses, ready, given, lost,
                  late, spoiled, unearned, early, mute>>
  BY DEF SeekToProgress, Rest, writer, write, loop, file, buffers, faults
<1>2. /\ audioTrackPlayer # 0 /\ trackPlaying' = FALSE
      /\ rested' = (rested \/ player = "writes")
      /\ decodeTasks' = Append(decodeTasks, SeekTask(to))
      /\ seeks < MaxSeeks /\ seeks' = seeks + 1
  BY DEF SeekToProgress, Rest, writer, write, loop, file, buffers, faults
<1>3. /\ MainTyped' /\ FileTyped' /\ LoopTyped' /\ BuffersTyped'
      /\ GivenTyped' /\ TrackOfFile' /\ InOrder' /\ OwnNews' /\ OwnSound'
  BY <1>1 DEF IInv, Typed, MainTyped, FileTyped, LoopTyped, BuffersTyped,
               BuffersKept, GivenTyped, TrackOfFile, InOrder, Taken, OwnNews,
               OwnSound
<1>4. TrackTyped'
  BY <1>1, <1>2 DEF IInv, Typed, TrackTyped
<1>5. CallsTyped'
  BY <1>1, <1>2, PlayerAssumption DEF IInv, Typed, CallsTyped
<1>6. TasksTyped'
  BY <1>1, <1>2, DecodeKinds DEF IInv, Typed, TasksTyped
<1>7. OpenIsLast'
  BY <1>1, <1>2, DecodeKinds, AppendOther
<1>8. WriterTyped'
  <2>1. rested' \in BOOLEAN
    BY <1>2 DEF IInv, Typed, WriterTyped
  <2> QED
    BY <1>1, <2>1 DEF IInv, Typed, WriterTyped
<1> QED
  BY <1>3, <1>4, <1>5, <1>6, <1>7, <1>8 DEF IInv, Typed

LEMMA SoughtInv == IInv /\ Sought => IInv'
<1> SUFFICES ASSUME IInv, Sought PROVE IInv'
  OBVIOUS
<1>1. UNCHANGED <<audioTrackPlayer, marker, isPaused, audioProgress, opening, buffersWrited,
                  player, held, into, rested, fresh, decodeTasks, decoding, was, opened,
                  position, exact, finished, readFinished, decodingFinished,
                  freePlayerBuffers, usedPlayerBuffers, plays, seeks, pauses, ready, given,
                  lost, late, spoiled, unearned, early, mute>>
  BY DEF Sought, FirstUi, writer, write, loop, file, buffers, calls, faults
<1>2. /\ uiTasks # <<>> /\ uiTasks' = Tail(uiTasks)
      /\ \/ UNCHANGED <<trackPlaying, playerTasks>>
         \/ trackPlaying' = (audioTrackPlayer # 0) /\ playerTasks' = playerTasks + 1
  BY DEF Sought, FirstUi, writer, write, loop, file, buffers, calls, faults
<1>3. /\ MainTyped' /\ CallsTyped' /\ FileTyped' /\ LoopTyped' /\ BuffersTyped'
      /\ GivenTyped' /\ OpenIsLast' /\ TrackOfFile' /\ InOrder' /\ OwnSound'
  BY <1>1 DEF IInv, Typed, MainTyped, CallsTyped, FileTyped, LoopTyped, BuffersTyped,
               BuffersKept, GivenTyped, OpenIsLast, TrackOfFile, InOrder, Taken,
               OwnSound
<1>4. TrackTyped'
  <2>1. trackPlaying' \in BOOLEAN
    BY <1>2 DEF IInv, Typed, TrackTyped
  <2>2. audioTrackPlayer = 0 => ~trackPlaying'
    BY <1>2 DEF IInv, Typed, TrackTyped
  <2> QED
    BY <1>1, <2>1, <2>2 DEF IInv, Typed, TrackTyped
<1>5. WriterTyped'
  <2>1. playerTasks' \in Nat
    BY <1>2 DEF IInv, Typed, WriterTyped
  <2> QED
    BY <1>1, <2>1 DEF IInv, Typed, WriterTyped
<1>6. TasksTyped'
  <2>1. uiTasks \in Seq(UiTask) /\ uiTasks # <<>>
    BY <1>2 DEF IInv, Typed, TasksTyped
  <2>2. uiTasks' \in Seq(UiTask)
    BY <1>2, <2>1, ToSetOfTail
  <2> QED
    BY <1>1, <2>2 DEF IInv, Typed, TasksTyped
<1>7. OwnNews'
  <2>1. ToSet(uiTasks') \subseteq ToSet(uiTasks)
    BY <1>2, ToSetOfTail DEF IInv, Typed, TasksTyped
  <2> QED
    BY <1>1, <2>1 DEF IInv, OwnNews
<1> QED
  BY <1>3, <1>4, <1>5, <1>6, <1>7 DEF IInv, Typed

\* A message is ended by news of itself only, if the news is not too late.
LEMMA WroteInv == IInv /\ Wrote => IInv'
<1> SUFFICES ASSUME IInv, Wrote PROVE IInv'
  OBVIOUS
<1> DEFINE t == Head(uiTasks)
           tooLate == late \/ ~t.fresh \/ t.track # audioTrackPlayer
<1>1. UNCHANGED <<audioProgress, opening, playerTasks, player, held, into, rested, fresh,
                  decodeTasks, decoding, was, opened, position, exact, finished,
                  readFinished, decodingFinished, freePlayerBuffers, usedPlayerBuffers,
                  plays, seeks, pauses, ready, given, lost, spoiled, mute>>
  BY DEF Wrote, QueuesFrame, writer, write, loop, file, buffers, calls, faults
<1>2. uiTasks # <<>> /\ uiTasks' = Tail(uiTasks) /\ t.kind = "wrote"
  BY DEF Wrote, FirstUi
<1>3. /\ t \in WroteTask /\ uiTasks' \in Seq(UiTask)
      /\ ToSet(uiTasks) = {t} \cup ToSet(uiTasks')
      /\ ~tooLate => t.play = t.track /\ t.track = audioTrackPlayer
  BY <1>2, UiKinds, ToSetOfTail DEF IInv, Typed, TasksTyped, OwnNews
<1>4. TasksTyped'
  BY <1>1, <1>3 DEF IInv, Typed, TasksTyped
<1>5. /\ CallsTyped' /\ WriterTyped' /\ FileTyped' /\ LoopTyped' /\ BuffersTyped'
      /\ OpenIsLast'
  BY <1>1 DEF IInv, Typed, CallsTyped, WriterTyped, FileTyped, LoopTyped, BuffersTyped,
              BuffersKept, OpenIsLast
<1>6. CASE UNCHANGED <<track, buffersWrited, faults>>
  <2>1. TrackTyped' /\ MainTyped' /\ GivenTyped' /\ TrackOfFile' /\ InOrder' /\ OwnSound'
    BY <1>1, <1>6 DEF IInv, Typed, TrackTyped, MainTyped, GivenTyped, TrackOfFile, InOrder,
                      Taken, OwnSound, track, faults
  <2>2. OwnNews'
    BY <1>3, <1>6 DEF IInv, OwnNews, track, faults
  <2> QED
    BY <1>4, <1>5, <2>1, <2>2 DEF IInv, Typed
<1>7. CASE /\ marker' = IF audioTrackPlayer = 0 THEN 0 ELSE t.play
           /\ late' = tooLate
           /\ UNCHANGED <<audioTrackPlayer, trackPlaying, isPaused, buffersWrited, unearned,
                          early>>
  <2>1. TrackTyped'
    BY <1>1, <1>3, <1>7 DEF IInv, Typed, TrackTyped, WroteTask, OrNone
  <2>2. MainTyped' /\ TrackOfFile' /\ InOrder' /\ OwnSound'
    BY <1>1, <1>7 DEF IInv, Typed, MainTyped, TrackOfFile, InOrder, Taken, OwnSound
  <2>3. GivenTyped'
    <3>1. late' \in BOOLEAN
      BY <1>7
    <3> QED
      BY <1>1, <1>7, <3>1 DEF IInv, Typed, GivenTyped
  <2>4. OwnNews'
    BY <1>3, <1>7 DEF IInv, OwnNews
  <2> QED
    BY <1>4, <1>5, <2>1, <2>2, <2>3, <2>4 DEF IInv, Typed
<1>8. CASE /\ End(t.play, tooLate)
           /\ UNCHANGED late
  <2>1. NoTrack /\ buffersWrited' = 0
    BY <1>8 DEF End, CleanupPlayer
  <2>2. ~unearned'
    BY <1>3, <1>8 DEF End, IInv, OwnSound
  <2>3. TrackTyped' /\ TrackOfFile' /\ InOrder'
    BY <1>1, <2>1
       DEF IInv, NoTrack, TrackTyped, TrackOfFile, InOrder, OrNone
  <2>4. OwnNews'
    BY <1>3, <2>1 DEF IInv, OwnNews, NoTrack
  <2>5. MainTyped'
    BY <1>1, <2>1 DEF IInv, Typed, MainTyped
  <2>6. GivenTyped'
    <3>1. unearned' \in BOOLEAN /\ early' \in BOOLEAN
      BY <1>8 DEF End
    <3> QED
      BY <1>1, <1>8, <3>1 DEF IInv, Typed, GivenTyped
  <2>7. OwnSound'
    BY <1>1, <2>2 DEF IInv, OwnSound
  <2> QED
    BY <1>4, <1>5, <2>3, <2>4, <2>5, <2>6, <2>7 DEF IInv, Typed
<1> QED
  BY <1>6, <1>7, <1>8 DEF Wrote

LEMMA ReachMarkerInv == IInv /\ ReachMarker => IInv'
<1> SUFFICES ASSUME IInv, ReachMarker PROVE IInv'
  OBVIOUS
<1> DEFINE t == [kind |-> "marker", play |-> marker, track |-> audioTrackPlayer,
                 fresh |-> ~late]
<1>1. UNCHANGED <<audioTrackPlayer, trackPlaying, isPaused, audioProgress, opening,
                  buffersWrited, playerTasks, player, held, into, rested, fresh, decodeTasks,
                  decoding, was, opened, position, exact, finished, readFinished,
                  decodingFinished, freePlayerBuffers, usedPlayerBuffers, plays, seeks,
                  pauses, ready, given, lost, late, spoiled, unearned, early, mute>>
  BY DEF ReachMarker, QueuesFrame, writer, write, loop, file, buffers, calls, faults
<1>2. trackPlaying /\ marker # 0 /\ marker' = 0 /\ uiTasks' = Append(uiTasks, t)
  BY DEF ReachMarker
<1>3. /\ audioTrackPlayer \in Messages /\ marker \in Messages
      /\ ~late => marker = audioTrackPlayer
  BY <1>2 DEF IInv, Typed, TrackTyped, OrNone, OwnNews
<1>4. /\ t \in UiTask /\ t.kind = "marker" /\ t.play = marker
      /\ t.track = audioTrackPlayer /\ t.fresh = ~late
  BY <1>3 DEF UiTask, MarkerTask, IInv, Typed, GivenTyped
<1> HIDE DEF t
<1>5. /\ MainTyped' /\ CallsTyped' /\ WriterTyped' /\ FileTyped' /\ LoopTyped'
      /\ BuffersTyped' /\ GivenTyped' /\ OpenIsLast' /\ TrackOfFile' /\ InOrder'
      /\ OwnSound'
  BY <1>1 DEF IInv, Typed, MainTyped, CallsTyped, WriterTyped, FileTyped, LoopTyped,
              BuffersTyped, BuffersKept, GivenTyped, OpenIsLast, TrackOfFile, InOrder,
              Taken, OwnSound
<1>6. TrackTyped'
  BY <1>1, <1>2 DEF IInv, Typed, TrackTyped, OrNone
<1>7. uiTasks' \in Seq(UiTask) /\ ToSet(uiTasks') = ToSet(uiTasks) \cup {t}
  BY <1>2, <1>4, ToSetOfAppend DEF IInv, Typed, TasksTyped
<1>8. TasksTyped'
  BY <1>1, <1>7 DEF IInv, Typed, TasksTyped
<1>9. OwnNews'
  BY <1>2, <1>3, <1>4, <1>7 DEF IInv, OwnNews
<1> QED
  BY <1>5, <1>6, <1>8, <1>9 DEF IInv, Typed

LEMMA OnMarkerReachedInv == IInv /\ OnMarkerReached => IInv'
<1> SUFFICES ASSUME IInv, OnMarkerReached PROVE IInv'
  OBVIOUS
<1> DEFINE t == Head(uiTasks)
           tooLate == late \/ ~t.fresh \/ t.track # audioTrackPlayer
<1>1. UNCHANGED <<audioProgress, opening, playerTasks, player, held, into, rested, fresh,
                  decodeTasks, decoding, was, opened, position, exact, finished,
                  readFinished, decodingFinished, freePlayerBuffers, usedPlayerBuffers,
                  plays, seeks, pauses, ready, given, lost, late, spoiled, mute>>
  BY DEF OnMarkerReached, QueuesFrame, writer, write, loop, file, buffers, calls
<1>2. /\ uiTasks # <<>> /\ uiTasks' = Tail(uiTasks) /\ t.kind = "marker"
      /\ End(t.play, tooLate)
  BY DEF OnMarkerReached, FirstUi
<1>3. /\ uiTasks' \in Seq(UiTask) /\ ToSet(uiTasks) = {t} \cup ToSet(uiTasks')
      /\ ~tooLate => t.play = audioTrackPlayer
  BY <1>2, ToSetOfTail DEF IInv, Typed, TasksTyped, OwnNews
<1>4. NoTrack /\ buffersWrited' = 0
  BY <1>2 DEF End, CleanupPlayer
<1>5. ~unearned' /\ unearned' \in BOOLEAN /\ early' \in BOOLEAN
  BY <1>2, <1>3 DEF End, IInv, OwnSound
<1>6. /\ CallsTyped' /\ WriterTyped' /\ FileTyped' /\ LoopTyped' /\ BuffersTyped'
      /\ OpenIsLast'
  BY <1>1 DEF IInv, Typed, CallsTyped, WriterTyped, FileTyped, LoopTyped, BuffersTyped,
              BuffersKept, OpenIsLast
<1>7. TrackTyped' /\ TrackOfFile' /\ InOrder'
  BY <1>1, <1>4 DEF IInv, NoTrack, TrackTyped, TrackOfFile, InOrder, OrNone
<1>8. MainTyped' /\ TasksTyped'
  BY <1>1, <1>3, <1>4 DEF IInv, Typed, MainTyped, TasksTyped
<1>9. GivenTyped'
  BY <1>1, <1>5 DEF IInv, Typed, GivenTyped
<1>10. OwnNews' /\ OwnSound'
  BY <1>1, <1>3, <1>4, <1>5 DEF IInv, OwnNews, OwnSound, NoTrack
<1> QED
  BY <1>6, <1>7, <1>8, <1>9, <1>10 DEF IInv, Typed

-----------------------------------------------------------------------------
(* playerQueue.                                                            *)

LEMMA PlayerCheckInv == IInv /\ PlayerCheck => IInv'
<1> SUFFICES ASSUME IInv, PlayerCheck PROVE IInv'
  OBVIOUS
<1>1. UNCHANGED <<audioTrackPlayer, trackPlaying, marker, isPaused, audioProgress, opening,
                  buffersWrited, uiTasks, held, into, rested, fresh, decodeTasks, decoding,
                  was, opened, position, exact, finished, readFinished, decodingFinished,
                  freePlayerBuffers, usedPlayerBuffers, plays, seeks, pauses, ready, given,
                  lost, late, spoiled, unearned, early, mute>>
  BY DEF PlayerCheck, PlayerFrame, write, main, track, loop, file, calls, buffers, faults
<1>2. /\ player = "idle" /\ playerTasks > 0 /\ playerTasks' = playerTasks - 1
      /\ player' \in {"checked", "idle"}
  BY DEF PlayerCheck, PlayerFrame, write, main, track, loop, file, calls, buffers, faults
<1>3. /\ TrackTyped' /\ MainTyped' /\ CallsTyped' /\ FileTyped' /\ LoopTyped'
      /\ GivenTyped' /\ TasksTyped' /\ OpenIsLast' /\ TrackOfFile' /\ OwnNews'
      /\ OwnSound'
  BY <1>1 DEF IInv, Typed, TrackTyped, MainTyped, CallsTyped, FileTyped, LoopTyped,
               GivenTyped, TasksTyped, OpenIsLast, TrackOfFile, OwnNews, OwnSound
<1>4. WriterTyped'
  <2>1. playerTasks' \in Nat
    BY <1>2 DEF IInv, Typed, WriterTyped
  <2> QED
    BY <1>1, <1>2, <2>1 DEF IInv, Typed, WriterTyped
<1>5. BuffersTyped'
  <2>1. player \notin {"holds", "writes"} /\ player' \notin {"holds", "writes"}
    BY <1>2
  <2> QED
    BY <1>1, <2>1 DEF IInv, Typed, BuffersTyped, BuffersKept
<1>6. InOrder'
  BY <1>1, <1>2 DEF IInv, InOrder, Taken
<1> QED
  BY <1>3, <1>4, <1>5, <1>6 DEF IInv, Typed

LEMMA PlayerTakeInv == IInv /\ PlayerTake => IInv'
<1> SUFFICES ASSUME IInv, PlayerTake PROVE IInv'
  OBVIOUS
<1>1. UNCHANGED <<audioTrackPlayer, trackPlaying, marker, isPaused, audioProgress, opening,
                  buffersWrited, uiTasks, playerTasks, into, rested, decoding, was, opened, position,
                  exact, finished, readFinished, decodingFinished, freePlayerBuffers, plays,
                  seeks, pauses, ready, given, lost, late, spoiled, unearned, early, mute>>
  BY DEF PlayerTake, PlayerFrame, write, main, track, loop, file, calls, faults
<1>2. player = "checked" /\ ~fresh
  BY DEF PlayerTake, IInv, Typed, WriterTyped, InOrder
<1>3. /\ TrackTyped' /\ MainTyped' /\ CallsTyped' /\ FileTyped' /\ LoopTyped' /\ GivenTyped'
      /\ TrackOfFile' /\ OwnNews' /\ OwnSound'
  BY <1>1 DEF IInv, Typed, TrackTyped, MainTyped, CallsTyped, FileTyped, LoopTyped,
              GivenTyped, TrackOfFile, OwnNews, OwnSound
<1>4. CASE /\ usedPlayerBuffers # <<>> /\ player' = "holds" /\ held' = Head(usedPlayerBuffers)
           /\ usedPlayerBuffers' = Tail(usedPlayerBuffers) /\ fresh' = ready
           /\ UNCHANGED decodeTasks
  <2>1. /\ usedPlayerBuffers \in Seq(Buffer) /\ freePlayerBuffers \in Nat
        /\ Head(usedPlayerBuffers) = usedPlayerBuffers[1]
        /\ Head(usedPlayerBuffers) \in Buffer /\ usedPlayerBuffers' \in Seq(Buffer)
        /\ Len(usedPlayerBuffers) \in Nat \ {0}
        /\ Len(usedPlayerBuffers') = Len(usedPlayerBuffers) - 1
        /\ \A i \in 1..Len(usedPlayerBuffers') :
               usedPlayerBuffers'[i] = usedPlayerBuffers[i + 1]
    BY <1>4, HeadTailProperties, EmptySeq DEF IInv, Typed, BuffersTyped
  <2>2. WriterTyped'
    BY <1>1, <1>4, <2>1 DEF IInv, Typed, WriterTyped, GivenTyped
  <2>3. BuffersTyped'
    <3>1. freePlayerBuffers + Len(usedPlayerBuffers) = Buffers
      BY <1>2, <2>1, PlayerAssumption DEF IInv, Typed, BuffersTyped, BuffersKept
    <3>2. freePlayerBuffers + Len(usedPlayerBuffers') + 1 = Buffers
      BY <2>1, <3>1, PlayerAssumption
    <3> QED
      BY <1>1, <1>4, <2>1, <3>2 DEF BuffersTyped, BuffersKept
  <2>4. TasksTyped' /\ OpenIsLast'
    BY <1>1, <1>4 DEF IInv, Typed, TasksTyped, OpenIsLast
  <2>5. InOrder'
    <3> SUFFICES ASSUME audioTrackPlayer # 0, ready
                 PROVE  /\ held'.play = opened /\ held'.part = given + 1
                        /\ \A i \in DOMAIN usedPlayerBuffers' :
                               /\ usedPlayerBuffers'[i].play = opened
                               /\ usedPlayerBuffers'[i].part = given + 1 + i
                        /\ position = given + 1 + Len(usedPlayerBuffers') + 1
      BY <1>1, <1>4 DEF InOrder, Taken
    <3>1. /\ \A i \in DOMAIN usedPlayerBuffers :
                 /\ usedPlayerBuffers[i].play = opened
                 /\ usedPlayerBuffers[i].part = given + 0 + i
          /\ position = given + 0 + Len(usedPlayerBuffers) + 1
          /\ given \in Int
      BY <1>2 DEF IInv, Typed, GivenTyped, InOrder, Taken
    <3>2. DOMAIN usedPlayerBuffers = 1..Len(usedPlayerBuffers)
      BY <2>1
    <3>3. held'.play = opened /\ held'.part = given + 1
      BY <1>4, <2>1, <3>1, <3>2
    <3>4. ASSUME NEW i \in DOMAIN usedPlayerBuffers'
          PROVE  /\ usedPlayerBuffers'[i].play = opened
                 /\ usedPlayerBuffers'[i].part = given + 1 + i
      <4>1. i + 1 \in DOMAIN usedPlayerBuffers /\ i \in Int
            /\ usedPlayerBuffers'[i] = usedPlayerBuffers[i + 1]
        BY <2>1, <3>2, <3>4
      <4> QED
        BY <3>1, <4>1
    <3> QED
      BY <2>1, <3>1, <3>3, <3>4
  <2> QED
    BY <1>3, <2>2, <2>3, <2>4, <2>5 DEF IInv, Typed
<1>5. CASE /\ player' = "idle" /\ decodeTasks' = Append(decodeTasks, CheckTask)
           /\ UNCHANGED <<held, usedPlayerBuffers, fresh>>
  <2>1. WriterTyped'
    BY <1>1, <1>5 DEF IInv, Typed, WriterTyped
  <2>2. BuffersTyped'
    BY <1>1, <1>2, <1>5 DEF IInv, Typed, BuffersTyped, BuffersKept
  <2>3. decodeTasks' \in Seq(DecodeTask) /\ OpenIsLast'
    BY <1>1, <1>5, DecodeKinds, AppendOther
  <2>4. TasksTyped'
    BY <1>1, <2>3 DEF IInv, Typed, TasksTyped
  <2>5. InOrder'
    BY <1>1, <1>2, <1>5 DEF IInv, InOrder, Taken
  <2> QED
    BY <1>3, <2>1, <2>2, <2>3, <2>4, <2>5 DEF IInv, Typed
<1> QED
  BY <1>4, <1>5 DEF PlayerTake

LEMMA BeginWriteInv == IInv /\ BeginWrite => IInv'
<1> SUFFICES ASSUME IInv, BeginWrite PROVE IInv'
  OBVIOUS
<1>1. UNCHANGED <<audioTrackPlayer, trackPlaying, marker, isPaused, audioProgress, opening,
                  buffersWrited, uiTasks, playerTasks, held, fresh, decodeTasks, decoding,
                  was, opened, position, exact, finished, readFinished, decodingFinished,
                  freePlayerBuffers, usedPlayerBuffers, plays, seeks, pauses, ready, given,
                  lost, late, spoiled, unearned, early, mute>>
  BY DEF BeginWrite, PlayerFrame, main, track, loop, file, calls, buffers, faults
<1>2. /\ player = "holds" /\ player' = "writes"
      /\ into' = audioTrackPlayer /\ rested' = ~trackPlaying
  BY DEF BeginWrite
<1>3. /\ TrackTyped' /\ MainTyped' /\ CallsTyped' /\ FileTyped' /\ LoopTyped'
      /\ GivenTyped' /\ TasksTyped' /\ OpenIsLast' /\ TrackOfFile' /\ OwnNews'
      /\ OwnSound'
  BY <1>1 DEF IInv, Typed, TrackTyped, MainTyped, CallsTyped, FileTyped, LoopTyped,
              GivenTyped, TasksTyped, OpenIsLast, TrackOfFile, OwnNews, OwnSound
<1>4. WriterTyped'
  <2>1. into' \in OrNone(Messages) /\ rested' \in BOOLEAN
    BY <1>2 DEF IInv, Typed, TrackTyped
  <2> QED
    BY <1>1, <1>2, <2>1 DEF IInv, Typed, WriterTyped
<1>5. BuffersTyped'
  BY <1>1, <1>2 DEF IInv, Typed, BuffersTyped, BuffersKept
<1>6. InOrder'
  BY <1>1, <1>2 DEF IInv, InOrder, Taken, TrackOfFile
<1> QED
  BY <1>3, <1>4, <1>5, <1>6 DEF IInv, Typed

LEMMA PlayerWriteInv ==
    ASSUME IInv, NEW count, PlayerWrite(count)
    PROVE  IInv'
<1> DEFINE own == fresh /\ audioTrackPlayer = into /\ into # 0
<1>1. UNCHANGED <<audioTrackPlayer, trackPlaying, marker, isPaused, audioProgress, opening,
                  decoding, was, opened, position, exact, finished, readFinished,
                  decodingFinished, usedPlayerBuffers, plays, seeks, pauses, ready, late,
                  unearned, early>>
  BY DEF PlayerWrite, PlayerFrame, main, track, loop, file, calls
<1>2. /\ player = "writes" /\ player' = "idle" /\ held' = NoBuffer /\ fresh' = FALSE
      /\ into' = 0 /\ rested' = FALSE
      /\ buffersWrited' = IF buffersWrited = 0 THEN 1 ELSE 2
      /\ freePlayerBuffers' = freePlayerBuffers + 1
  BY DEF PlayerWrite
<1>3. \/ UNCHANGED <<playerTasks, decodeTasks>>
      \/ playerTasks' = playerTasks + 1 /\ decodeTasks' = Append(decodeTasks, CheckTask)
  BY DEF PlayerWrite
<1>4. /\ count \in Counts
      /\ uiTasks' = IF count = "none" THEN uiTasks ELSE Append(uiTasks, News)
      /\ given' = IF own THEN held.part ELSE given
      /\ lost' = IF own /\ count # "all" THEN lost + 1 ELSE lost
      /\ spoiled' = (spoiled \/ (own /\ (held.play # into \/ held.part # given + 1)))
      /\ mute' = (mute \/ (own /\ held.finished /\ count = "none"))
  BY DEF PlayerWrite
<1>5. /\ audioTrackPlayer # 0 /\ fresh =>
             own /\ held.play = audioTrackPlayer /\ held.part = given + 1
      /\ own => audioTrackPlayer # 0
      /\ fresh /\ into # 0 => held.play = into
  BY <1>2 DEF IInv, InOrder, TrackOfFile
<1>6. /\ held \in Buffer /\ fresh \in BOOLEAN /\ given \in 0..Length /\ lost \in Nat
      /\ into \in OrNone(Messages) /\ mute \in BOOLEAN
  BY DEF IInv, Typed, WriterTyped, GivenTyped, LoopTyped
<1> HIDE DEF own
<1>7. /\ TrackTyped' /\ CallsTyped' /\ FileTyped' /\ TrackOfFile'
  BY <1>1 DEF IInv, Typed, TrackTyped, CallsTyped, FileTyped, TrackOfFile
<1>8. MainTyped'
  BY <1>1, <1>2 DEF IInv, Typed, MainTyped
<1>9. WriterTyped'
  <2>1. playerTasks' \in Nat
    BY <1>3 DEF IInv, Typed, WriterTyped
  <2>2. NoBuffer \in Buffer
    BY PlayerAssumption DEF NoBuffer, Buffer, OrNone
  <2> QED
    BY <1>2, <2>1, <2>2 DEF WriterTyped, OrNone
<1>10. BuffersTyped'
  <2>1. /\ freePlayerBuffers \in Nat /\ Len(usedPlayerBuffers) \in Nat
        /\ freePlayerBuffers + Len(usedPlayerBuffers) + 1 = Buffers
    BY <1>2 DEF IInv, Typed, BuffersTyped, BuffersKept
  <2>2. freePlayerBuffers + 1 + Len(usedPlayerBuffers) + 0 = Buffers
    BY <2>1
  <2> QED
    BY <1>1, <1>2, <2>1, <2>2 DEF IInv, Typed, BuffersTyped, BuffersKept
<1>11. ~spoiled' /\ spoiled' \in BOOLEAN /\ given' \in 0..Length /\ lost' \in Nat
  <2>1. ~spoiled'
    <3>1. own => held.play = into /\ held.part = given + 1
      BY <1>5 DEF own
    <3> QED
      BY <1>4, <3>1 DEF IInv, OwnSound
  <2>2. held.part \in 0..Length
    BY <1>6 DEF Buffer
  <2> QED
    BY <1>4, <1>6, <2>1, <2>2
<1>12. GivenTyped' /\ OwnSound'
  BY <1>1, <1>11 DEF IInv, Typed, GivenTyped, OwnSound
<1>13. LoopTyped'
  <2>1. mute' \in BOOLEAN
    BY <1>4, <1>6
  <2> QED
    BY <1>1, <2>1 DEF IInv, Typed, LoopTyped
<1>14. /\ count # "none" => into # 0 /\ News \in UiTask
       /\ News.fresh = fresh /\ News.play = held.play /\ News.track = into
  BY <1>4, <1>6 DEF Counts, News, UiTask, WroteTask, Buffer, OrNone
<1>15. /\ uiTasks' \in Seq(UiTask)
       /\ \A t \in ToSet(uiTasks') : t \in ToSet(uiTasks) \/ (t = News /\ into # 0)
  <2>1. uiTasks \in Seq(UiTask)
    BY DEF IInv, Typed, TasksTyped
  <2>2. CASE uiTasks' = uiTasks
    BY <2>1, <2>2
  <2>3. CASE count # "none" /\ uiTasks' = Append(uiTasks, News)
    BY <1>14, <2>1, <2>3, ToSetOfAppend
  <2> QED
    BY <1>4, <2>2, <2>3
<1>16. decodeTasks' \in Seq(DecodeTask) /\ OpenIsLast'
  <2>1. CASE decodeTasks' = decodeTasks
    BY <1>1, <2>1 DEF IInv, Typed, TasksTyped, OpenIsLast
  <2>2. CASE decodeTasks' = Append(decodeTasks, CheckTask)
    BY <1>1, <2>2, DecodeKinds, AppendOther
  <2> QED
    BY <1>3, <2>1, <2>2
<1>17. TasksTyped'
  BY <1>15, <1>16 DEF TasksTyped
<1>18. OwnNews'
  BY <1>1, <1>5, <1>14, <1>15 DEF IInv, OwnNews
<1>19. InOrder'
  <2> SUFFICES ASSUME audioTrackPlayer # 0, ready
               PROVE  /\ \A i \in DOMAIN usedPlayerBuffers :
                             /\ usedPlayerBuffers[i].play = opened
                             /\ usedPlayerBuffers[i].part = given' + 0 + i
                      /\ position = given' + 0 + Len(usedPlayerBuffers) + 1
    BY <1>1, <1>2 DEF InOrder, Taken
  <2>1. /\ \A i \in DOMAIN usedPlayerBuffers :
               /\ usedPlayerBuffers[i].play = opened
               /\ usedPlayerBuffers[i].part = given + Taken + i
        /\ position = given + Taken + Len(usedPlayerBuffers) + 1
    BY DEF IInv, InOrder
  <2>2. given' = given + Taken /\ given \in Int /\ Taken \in Int
    BY <1>4, <1>5, <1>6 DEF Taken, own, Buffer
  <2> QED
    BY <2>1, <2>2
<1> QED
  BY <1>7, <1>8, <1>9, <1>10, <1>12, <1>13, <1>16, <1>17, <1>18, <1>19 DEF IInv, Typed

-----------------------------------------------------------------------------
(* fileDecodingQueue.                                                      *)

\* The buffers that were decoded are given back; the next part to be given is the
\* one at the file's position.
LEMMA TakeBackKeeps ==
    ASSUME IInv, TakeBack, UNCHANGED player, position' \in 1..(Length + 1)
    PROVE  /\ BuffersTyped' /\ given' \in 0..Length /\ fresh' = FALSE
           /\ InOrder'
<1>1. /\ freePlayerBuffers \in Nat /\ Len(usedPlayerBuffers) \in Nat
      /\ freePlayerBuffers + Len(usedPlayerBuffers)
             + (IF player \in {"holds", "writes"} THEN 1 ELSE 0) = Buffers
  BY DEF IInv, Typed, BuffersTyped, BuffersKept
<1>2. /\ freePlayerBuffers' = freePlayerBuffers + Len(usedPlayerBuffers)
      /\ usedPlayerBuffers' = <<>> /\ fresh' = FALSE /\ given' = position' - 1
  BY DEF TakeBack
<1>3. Len(usedPlayerBuffers') = 0 /\ DOMAIN usedPlayerBuffers' = {}
      /\ usedPlayerBuffers' \in Seq(Buffer)
  BY <1>2
<1>4. BuffersTyped'
  <2>1. freePlayerBuffers' \in Nat
    BY <1>1, <1>2
  <2>2. freePlayerBuffers' + Len(usedPlayerBuffers')
            + (IF player' \in {"holds", "writes"} THEN 1 ELSE 0) = Buffers
    BY <1>1, <1>2, <1>3
  <2> QED
    BY <1>3, <2>1, <2>2 DEF BuffersTyped, BuffersKept
<1>5. given' \in 0..Length /\ position' = given' + 0 + 0 + 1
  <2>1. position' \in Nat /\ 1 <= position' /\ position' <= Length + 1
    BY PlayerAssumption
  <2>2. \A p \in Nat : 1 <= p /\ p <= Length + 1
                          => p - 1 \in 0..Length /\ p = (p - 1) + 0 + 0 + 1
    BY PlayerAssumption
  <2>3. position' - 1 \in 0..Length /\ position' = (position' - 1) + 0 + 0 + 1
    BY <2>1, <2>2
  <2>4. given' = position' - 1
    BY <1>2
  <2> QED
    BY <2>3, <2>4
<1>6. InOrder'
  BY <1>2, <1>3, <1>5 DEF InOrder, Taken
<1> QED
  BY <1>2, <1>4, <1>5, <1>6

LEMMA OpenFileInv == IInv /\ OpenFile => IInv'
<1> SUFFICES ASSUME IInv, OpenFile PROVE IInv'
  OBVIOUS
<1>1. UNCHANGED <<audioTrackPlayer, trackPlaying, marker, isPaused, audioProgress,
                  buffersWrited, uiTasks, playerTasks, player, held, into, rested, decoding,
                  was, readFinished, decodingFinished, freePlayerBuffers, usedPlayerBuffers,
                  plays, seeks, pauses, given, lost, late, spoiled, unearned, early>>
  BY DEF OpenFile, DecodeFrame, write, track, loop, buffers, calls, faults
<1>2. /\ decodeTasks # <<>> /\ Head(decodeTasks).kind = "open"
      /\ decodeTasks' = Tail(decodeTasks)
      /\ position' = 1 /\ finished' = FALSE /\ exact' \in BOOLEAN
      /\ ready' = FALSE /\ fresh' = FALSE /\ mute' = FALSE
      /\ \/ opened' = Head(decodeTasks).play /\ opening' = "opened"
         \/ opened' = 0 /\ opening' = "no"
  BY DEF OpenFile, FirstDecode
<1>3. /\ decodeTasks' \in Seq(DecodeTask) /\ Head(decodeTasks) \in DecodeTask
      /\ Len(decodeTasks) \in Nat \ {0} /\ Head(decodeTasks) = decodeTasks[1]
      /\ Len(decodeTasks') = Len(decodeTasks) - 1
      /\ \A i \in 1..Len(decodeTasks') : decodeTasks'[i] = decodeTasks[i + 1]
  BY <1>2, HeadTailProperties, EmptySeq DEF IInv, Typed, TasksTyped
<1>4. 1 \in DOMAIN decodeTasks /\ DOMAIN decodeTasks' = 1..(Len(decodeTasks) - 1)
      /\ DOMAIN decodeTasks = 1..Len(decodeTasks)
  BY <1>3 DEF IInv, Typed, TasksTyped
<1>5. opening = "wait" /\ Head(decodeTasks).play = plays /\ plays \in Messages
  BY <1>2, <1>3, <1>4, DecodeKinds DEF IInv, OpenIsLast
<1>6. audioTrackPlayer = 0
  BY <1>5 DEF IInv, TrackOfFile
<1>7. \A i \in DOMAIN decodeTasks' : decodeTasks'[i].kind \notin {"open", "reset"}
  <2> SUFFICES ASSUME NEW i \in DOMAIN decodeTasks',
                      decodeTasks'[i].kind \in {"open", "reset"}
               PROVE  FALSE
    OBVIOUS
  <2>1. /\ i \in Int /\ 1 <= i
        /\ i + 1 \in DOMAIN decodeTasks /\ decodeTasks'[i] = decodeTasks[i + 1]
    BY <1>3, <1>4
  <2>2. i + 1 <= 1
    BY <1>2, <1>3, <1>4, <2>1 DEF IInv, OpenIsLast
  <2> QED
    BY <2>1, <2>2
<1>8. TrackTyped' /\ CallsTyped' /\ BuffersTyped' /\ OwnSound' /\ OwnNews'
  BY <1>1 DEF IInv, Typed, TrackTyped, CallsTyped, BuffersTyped, BuffersKept, OwnSound,
              OwnNews
<1>9. MainTyped' /\ WriterTyped' /\ LoopTyped' /\ GivenTyped'
  BY <1>1, <1>2 DEF IInv, Typed, MainTyped, WriterTyped, LoopTyped, GivenTyped
<1>10. FileTyped'
  <2>1. 1 \in 1..(Length + 1)
    BY PlayerAssumption
  <2>2. opened' \in OrNone(Messages)
    BY <1>2, <1>5 DEF OrNone
  <2> QED
    BY <1>1, <1>2, <2>1, <2>2 DEF IInv, Typed, FileTyped
<1>11. TasksTyped'
  BY <1>1, <1>3 DEF IInv, Typed, TasksTyped
<1>12. OpenIsLast'
  <2>1. plays # 0
    BY <1>5 DEF Messages
  <2> QED
    BY <1>1, <1>2, <1>5, <1>7, <2>1 DEF OpenIsLast
<1>13. TrackOfFile' /\ InOrder'
  BY <1>1, <1>2, <1>6 DEF TrackOfFile, InOrder
<1> QED
  BY <1>8, <1>9, <1>10, <1>11, <1>12, <1>13 DEF IInv, Typed

LEMMA ResetInv == IInv /\ Reset => IInv'
<1> SUFFICES ASSUME IInv, Reset PROVE IInv'
  OBVIOUS
<1>1. UNCHANGED <<audioTrackPlayer, trackPlaying, marker, isPaused, audioProgress, opening,
                  buffersWrited, uiTasks, player, held, into, rested, decoding, was, opened,
                  finished, readFinished, plays, seeks, pauses, late, lost, spoiled, unearned,
                  early, mute>>
  BY DEF Reset, FirstDecode, DecodeFrame, write, TakeBack, track, loop, calls, faults,
         SeekOpusFile
<1>2. /\ TakeBack /\ decodingFinished' = FALSE /\ ready' = TRUE
      /\ playerTasks' = playerTasks + 1
      /\ \/ position' = audioProgress + 1 /\ exact' \in BOOLEAN
         \/ UNCHANGED <<position, exact>>
  BY DEF Reset, FirstDecode, DecodeFrame, write, TakeBack, track, loop, calls, faults,
         SeekOpusFile
<1>3. /\ TrackTyped' /\ MainTyped' /\ CallsTyped' /\ LoopTyped' /\ TrackOfFile'
      /\ OwnNews' /\ OwnSound'
  BY <1>1 DEF IInv, Typed, TrackTyped, MainTyped, CallsTyped, LoopTyped, TrackOfFile,
               OwnNews, OwnSound
<1>4. WriterTyped'
  <2>1. playerTasks' \in Nat
    BY <1>2 DEF IInv, Typed, WriterTyped
  <2> QED
    BY <1>1, <1>2, <2>1 DEF IInv, Typed, WriterTyped, TakeBack
<1>5. FileTyped'
  <2>1. position' \in 1..(Length + 1)
    BY <1>2, PlayerAssumption DEF IInv, Typed, FileTyped, MainTyped, Places
  <2> QED
    BY <1>1, <1>2, <2>1 DEF IInv, Typed, FileTyped
<1>6. BuffersTyped'
  BY <1>1, <1>2, <1>5, TakeBackKeeps DEF FileTyped
<1>7. GivenTyped'
  <2>1. given' \in 0..Length
    BY <1>1, <1>2, <1>5, TakeBackKeeps DEF FileTyped
  <2> QED
    BY <1>1, <1>2, <2>1 DEF IInv, Typed, GivenTyped
<1>8. TasksTyped'
  BY <1>1, TakeOther DEF IInv, Typed, TasksTyped, Reset
<1>9. OpenIsLast'
  BY <1>1, TakeOther DEF Reset
<1>10. InOrder'
  BY <1>1, <1>2, <1>5, TakeBackKeeps DEF FileTyped
<1> QED
  BY <1>3, <1>4, <1>5, <1>6, <1>7, <1>8, <1>9, <1>10 DEF IInv, Typed

LEMMA SeekFileInv == IInv /\ SeekFile => IInv'
<1> SUFFICES ASSUME IInv, SeekFile PROVE IInv'
  OBVIOUS
<1>1. UNCHANGED <<audioTrackPlayer, trackPlaying, marker, isPaused, audioProgress, opening,
                  buffersWrited, playerTasks, player, held, into, rested, decoding, was,
                  opened, finished, readFinished, decodingFinished, plays, seeks, pauses,
                  ready, late, lost, spoiled, unearned, early>>
  BY DEF SeekFile, FirstDecode, DecodeFrame, write, TakeBack, track, loop, calls, faults,
         SeekOpusFile
<1>2. /\ TakeBack /\ mute' = (mute \/ decodingFinished)
      /\ uiTasks' = Append(uiTasks, SoughtTask)
      /\ \/ position' = Head(decodeTasks).to + 1 /\ exact' \in BOOLEAN
         \/ UNCHANGED <<position, exact>>
  BY DEF SeekFile, FirstDecode, DecodeFrame, write, TakeBack, track, loop, calls, faults,
         SeekOpusFile
<1>3. TrackTyped' /\ MainTyped' /\ CallsTyped' /\ TrackOfFile' /\ OwnSound'
  BY <1>1 DEF IInv, Typed, TrackTyped, MainTyped, CallsTyped, TrackOfFile, OwnSound
<1>4. WriterTyped'
  BY <1>1, <1>2 DEF IInv, Typed, WriterTyped, TakeBack
<1>5. FileTyped'
  <2>1. Head(decodeTasks).to \in Places
    BY TakeOther, DecodeKinds DEF SeekFile
  <2>2. position' \in 1..(Length + 1)
    BY <1>2, <2>1, PlayerAssumption DEF Places, IInv, Typed, FileTyped
  <2> QED
    BY <1>1, <1>2, <2>2 DEF IInv, Typed, FileTyped
<1>6. LoopTyped'
  BY <1>1, <1>2 DEF IInv, Typed, LoopTyped
<1>7. BuffersTyped'
  BY <1>1, <1>2, <1>5, TakeBackKeeps DEF FileTyped
<1>8. GivenTyped'
  <2>1. given' \in 0..Length
    BY <1>1, <1>2, <1>5, TakeBackKeeps DEF FileTyped
  <2> QED
    BY <1>1, <2>1 DEF IInv, Typed, GivenTyped
<1>9. TasksTyped'
  <2>1. decodeTasks' \in Seq(DecodeTask)
    BY TakeOther DEF SeekFile
  <2>2. uiTasks' \in Seq(UiTask)
    BY <1>2, UiKinds DEF IInv, Typed, TasksTyped
  <2> QED
    BY <2>1, <2>2 DEF TasksTyped
<1>10. OpenIsLast'
  <2>1. opening = "opened" => ~ready
    BY DEF IInv, OpenIsLast
  <2> QED
    BY <1>1, <2>1, TakeOther DEF SeekFile
<1>11. InOrder'
  BY <1>1, <1>2, <1>5, TakeBackKeeps DEF FileTyped
<1>12. OwnNews'
  <2>1. ToSet(uiTasks') = ToSet(uiTasks) \cup {SoughtTask}
    BY <1>2, UiKinds, ToSetOfAppend DEF IInv, Typed, TasksTyped
  <2> QED
    BY <1>1, <2>1, UiKinds DEF IInv, OwnNews
<1> QED
  BY <1>3, <1>4, <1>5, <1>6, <1>7, <1>8, <1>9, <1>10, <1>11, <1>12 DEF IInv, Typed

LEMMA DecodeCheckInv == IInv /\ DecodeCheck => IInv'
<1> SUFFICES ASSUME IInv, DecodeCheck PROVE IInv'
  OBVIOUS
<1>1. UNCHANGED <<audioTrackPlayer, trackPlaying, marker, isPaused, audioProgress, opening,
                  buffersWrited, uiTasks, player, held, into, rested, fresh, opened,
                  position, exact, finished, readFinished, decodingFinished,
                  freePlayerBuffers, usedPlayerBuffers, plays, seeks, pauses, ready, given,
                  lost, late, spoiled, unearned, early, mute>>
  BY DEF DecodeCheck, FirstDecode, DecodeFrame, write, track, file, buffers, calls, faults
<1>2. /\ decoding' = ~decodingFinished /\ was' = FALSE
      /\ playerTasks' \in {playerTasks, playerTasks + 1}
  BY DEF DecodeCheck, FirstDecode, DecodeFrame, write, track, file, buffers, calls, faults
<1>3. /\ TrackTyped' /\ MainTyped' /\ CallsTyped' /\ FileTyped' /\ BuffersTyped'
      /\ GivenTyped' /\ TrackOfFile' /\ InOrder' /\ OwnNews' /\ OwnSound'
  BY <1>1 DEF IInv, Typed, TrackTyped, MainTyped, CallsTyped, FileTyped, BuffersTyped,
               BuffersKept, GivenTyped, TrackOfFile, InOrder, Taken, OwnNews,
               OwnSound
<1>4. WriterTyped'
  <2>1. playerTasks' \in Nat
    BY <1>2 DEF IInv, Typed, WriterTyped
  <2> QED
    BY <1>1, <2>1 DEF IInv, Typed, WriterTyped
<1>5. LoopTyped'
  BY <1>1, <1>2 DEF IInv, Typed, LoopTyped
<1>6. TasksTyped'
  BY <1>1, TakeOther DEF IInv, Typed, TasksTyped, DecodeCheck
<1>7. OpenIsLast'
  <2>1. opening = "opened" => ~ready
    BY DEF IInv, OpenIsLast
  <2> QED
    BY <1>1, <2>1, TakeOther DEF DecodeCheck
<1> QED
  BY <1>3, <1>4, <1>5, <1>6, <1>7 DEF IInv, Typed

LEMMA DecodeFullInv == IInv /\ DecodeFull => IInv'
<1> SUFFICES ASSUME IInv, DecodeFull PROVE IInv'
  OBVIOUS
<1>1. UNCHANGED <<audioTrackPlayer, trackPlaying, marker, isPaused, audioProgress, opening,
                  buffersWrited, uiTasks, player, held, into, rested, fresh, decodeTasks,
                  opened, position, exact, finished, readFinished, decodingFinished,
                  freePlayerBuffers, usedPlayerBuffers, plays, seeks, pauses, ready, given,
                  lost, late, spoiled, unearned, early, mute>>
  BY DEF DecodeFull, DecodeDone, LoopFrame, DecodeFrame, write, track, file, buffers, calls,
         faults
<1>2. /\ decoding' = FALSE /\ was' = FALSE
      /\ playerTasks' \in {playerTasks, playerTasks + 1}
  BY DEF DecodeFull, DecodeDone, LoopFrame, DecodeFrame, write, track, file, buffers, calls,
         faults
<1>3. /\ TrackTyped' /\ MainTyped' /\ CallsTyped' /\ FileTyped' /\ BuffersTyped'
      /\ GivenTyped' /\ TasksTyped' /\ OpenIsLast' /\ TrackOfFile' /\ InOrder'
      /\ OwnNews' /\ OwnSound'
  BY <1>1 DEF IInv, Typed, TrackTyped, MainTyped, CallsTyped, FileTyped, BuffersTyped,
               BuffersKept, GivenTyped, TasksTyped, OpenIsLast, TrackOfFile, InOrder,
               Taken, OwnNews, OwnSound
<1>4. WriterTyped'
  <2>1. playerTasks' \in Nat
    BY <1>2 DEF IInv, Typed, WriterTyped
  <2> QED
    BY <1>1, <2>1 DEF IInv, Typed, WriterTyped
<1>5. LoopTyped'
  BY <1>1, <1>2 DEF IInv, Typed, LoopTyped
<1> QED
  BY <1>3, <1>4, <1>5 DEF IInv, Typed

\* A free buffer is filled.
LEMMA FillKeeps ==
    ASSUME IInv, NEW b \in Buffer, Fill(b), freePlayerBuffers > 0
    PROVE  /\ BuffersTyped' /\ LoopTyped' /\ TasksTyped'
           /\ Len(usedPlayerBuffers) \in Nat /\ usedPlayerBuffers \in Seq(Buffer)
           /\ usedPlayerBuffers' = Append(usedPlayerBuffers, b)
           /\ readFinished' \in BOOLEAN /\ decodingFinished' \in BOOLEAN
           /\ UNCHANGED <<audioTrackPlayer, trackPlaying, marker, isPaused, audioProgress,
                          opening, buffersWrited, uiTasks, playerTasks, player, held, into,
                          rested, fresh, decodeTasks, opened, exact, plays, seeks, pauses,
                          ready, given, lost, late, spoiled, unearned, early>>
<1>1. /\ freePlayerBuffers' = freePlayerBuffers - 1
      /\ usedPlayerBuffers' = Append(usedPlayerBuffers, b)
      /\ readFinished' = b.finished
      /\ decodingFinished' = (decodingFinished \/ b.finished)
      /\ was' = TRUE
      /\ UNCHANGED <<opened, exact, decoding, playerTasks, mute>>
  BY DEF Fill
<1>2. UNCHANGED <<audioTrackPlayer, trackPlaying, marker, isPaused, audioProgress, opening,
                  buffersWrited, uiTasks, player, held, into, rested, fresh, decodeTasks,
                  plays, seeks, pauses, ready, given, lost, late, spoiled, unearned, early>>
  BY DEF Fill, LoopFrame, DecodeFrame, write, track, calls, faults
<1>3. /\ freePlayerBuffers \in Nat /\ usedPlayerBuffers \in Seq(Buffer)
      /\ Len(usedPlayerBuffers) \in Nat
      /\ freePlayerBuffers + Len(usedPlayerBuffers)
             + (IF player \in {"holds", "writes"} THEN 1 ELSE 0) = Buffers
  BY DEF IInv, Typed, BuffersTyped, BuffersKept
<1>4. BuffersTyped'
  <2>1. freePlayerBuffers' \in Nat
    BY <1>1, <1>3
  <2>2. usedPlayerBuffers' \in Seq(Buffer)
        /\ Len(usedPlayerBuffers') = Len(usedPlayerBuffers) + 1
    BY <1>1, <1>3
  <2>3. freePlayerBuffers' + Len(usedPlayerBuffers')
            + (IF player' \in {"holds", "writes"} THEN 1 ELSE 0) = Buffers
    BY <1>1, <1>2, <1>3, <2>2
  <2> QED
    BY <2>1, <2>2, <2>3 DEF BuffersTyped, BuffersKept
<1>5. LoopTyped' /\ TasksTyped'
  BY <1>1, <1>2 DEF IInv, Typed, LoopTyped, TasksTyped
<1>6. b.finished \in BOOLEAN /\ decodingFinished \in BOOLEAN
  BY DEF Buffer, IInv, Typed, FileTyped
<1> QED
  BY <1>1, <1>2, <1>3, <1>4, <1>5, <1>6

LEMMA DecodePartInv == IInv /\ DecodePart => IInv'
<1> SUFFICES ASSUME IInv, DecodePart PROVE IInv'
  OBVIOUS
<1> DEFINE b == [play |-> opened, part |-> position, finished |-> finished']
<1>1. /\ freePlayerBuffers > 0 /\ opened # 0 /\ position <= Length
      /\ finished' = (position = LastPart)
      /\ position' = position + 1
      /\ Fill(b)
  BY DEF DecodePart
<1>2. opened \in OrNone(Messages) /\ position \in 1..(Length + 1) /\ given \in 0..Length
  BY DEF IInv, Typed, FileTyped, GivenTyped
<1>3. b \in Buffer
  BY <1>1, <1>2, PlayerAssumption DEF Buffer
<1>4. b.play = opened /\ b.part = position
  OBVIOUS
<1> HIDE DEF b
<1>5. /\ BuffersTyped' /\ LoopTyped' /\ TasksTyped'
      /\ Len(usedPlayerBuffers) \in Nat /\ usedPlayerBuffers \in Seq(Buffer)
      /\ usedPlayerBuffers' = Append(usedPlayerBuffers, b)
      /\ readFinished' \in BOOLEAN /\ decodingFinished' \in BOOLEAN
      /\ UNCHANGED <<audioTrackPlayer, trackPlaying, marker, isPaused, audioProgress,
                     opening, buffersWrited, uiTasks, playerTasks, player, held, into,
                     rested, fresh, decodeTasks, opened, exact, plays, seeks, pauses, ready,
                     given, lost, late, spoiled, unearned, early>>
  BY <1>1, <1>3, FillKeeps
<1>6. TrackTyped' /\ MainTyped' /\ CallsTyped' /\ WriterTyped' /\ GivenTyped'
  BY <1>5 DEF IInv, Typed, TrackTyped, MainTyped, CallsTyped, WriterTyped, GivenTyped
<1>7. FileTyped'
  <2>1. position' \in 1..(Length + 1)
    BY <1>1, <1>2, PlayerAssumption
  <2>2. finished' \in BOOLEAN
    BY <1>1
  <2> QED
    BY <1>5, <2>1, <2>2 DEF IInv, Typed, FileTyped
<1>8. OpenIsLast' /\ TrackOfFile' /\ OwnNews' /\ OwnSound'
  BY <1>5 DEF IInv, OpenIsLast, TrackOfFile, OwnNews, OwnSound
<1>9. InOrder'
  <2>1. fresh' => player' \in {"holds", "writes"} /\ ready'
    BY <1>5 DEF IInv, InOrder
  <2>2. ASSUME audioTrackPlayer # 0, ready
        PROVE  /\ fresh => held.play = opened /\ held.part = given + 1
               /\ fresh /\ player = "writes" => into = audioTrackPlayer
               /\ \A i \in DOMAIN usedPlayerBuffers' :
                      /\ usedPlayerBuffers'[i].play = opened
                      /\ usedPlayerBuffers'[i].part = given + Taken + i
               /\ position' = given + Taken + Len(usedPlayerBuffers') + 1
    <3>1. /\ fresh => held.play = opened /\ held.part = given + 1
          /\ fresh /\ player = "writes" => into = audioTrackPlayer
          /\ \A i \in DOMAIN usedPlayerBuffers :
                 /\ usedPlayerBuffers[i].play = opened
                 /\ usedPlayerBuffers[i].part = given + Taken + i
          /\ position = given + Taken + Len(usedPlayerBuffers) + 1
      BY <2>2 DEF IInv, InOrder
    <3>2. /\ DOMAIN usedPlayerBuffers = 1..Len(usedPlayerBuffers)
          /\ DOMAIN usedPlayerBuffers' = 1..(Len(usedPlayerBuffers) + 1)
          /\ Len(usedPlayerBuffers') = Len(usedPlayerBuffers) + 1
          /\ \A i \in 1..Len(usedPlayerBuffers) :
                 usedPlayerBuffers'[i] = usedPlayerBuffers[i]
          /\ usedPlayerBuffers'[Len(usedPlayerBuffers) + 1] = b
      BY <1>3, <1>5
    <3>3. Taken \in Int /\ given \in Int
      BY <1>2 DEF Taken
    <3>4. ASSUME NEW i \in DOMAIN usedPlayerBuffers'
          PROVE  /\ usedPlayerBuffers'[i].play = opened
                 /\ usedPlayerBuffers'[i].part = given + Taken + i
      <4>1. CASE i \in 1..Len(usedPlayerBuffers)
        BY <3>1, <3>2, <4>1
      <4>2. CASE i = Len(usedPlayerBuffers) + 1
        BY <1>4, <1>5, <3>1, <3>2, <3>3, <4>2
      <4> QED
        BY <1>5, <3>2, <4>1, <4>2
    <3>5. position' = given + Taken + Len(usedPlayerBuffers') + 1
      BY <1>1, <1>5, <3>1, <3>2, <3>3
    <3> QED
      BY <3>1, <3>4, <3>5
  <2>3. Taken' = Taken
    BY <1>5 DEF Taken
  <2> QED
    BY <1>5, <2>1, <2>2, <2>3 DEF IInv, InOrder
<1> QED
  BY <1>5, <1>6, <1>7, <1>8, <1>9 DEF IInv, Typed

LEMMA DecodeSilenceInv == IInv /\ DecodeSilence => IInv'
<1> SUFFICES ASSUME IInv, DecodeSilence PROVE IInv'
  OBVIOUS
<1> DEFINE b == [play |-> 0, part |-> 0, finished |-> readFinished]
<1>1. freePlayerBuffers > 0 /\ opened = 0 /\ Fill(b) /\ UNCHANGED <<position, finished>>
  BY DEF DecodeSilence
<1>2. b \in Buffer
  BY PlayerAssumption DEF Buffer, OrNone, IInv, Typed, FileTyped
<1> HIDE DEF b
<1>3. /\ BuffersTyped' /\ LoopTyped' /\ TasksTyped'
      /\ readFinished' \in BOOLEAN /\ decodingFinished' \in BOOLEAN
      /\ UNCHANGED <<audioTrackPlayer, trackPlaying, marker, isPaused, audioProgress,
                     opening, buffersWrited, uiTasks, playerTasks, player, held, into,
                     rested, fresh, decodeTasks, opened, exact, plays, seeks, pauses, ready,
                     given, lost, late, spoiled, unearned, early>>
  BY <1>1, <1>2, FillKeeps
<1>4. TrackTyped' /\ MainTyped' /\ CallsTyped' /\ WriterTyped' /\ GivenTyped'
  BY <1>3 DEF IInv, Typed, TrackTyped, MainTyped, CallsTyped, WriterTyped, GivenTyped
<1>5. FileTyped'
  BY <1>1, <1>3 DEF IInv, Typed, FileTyped
<1>6. OpenIsLast' /\ TrackOfFile' /\ OwnNews' /\ OwnSound'
  BY <1>3 DEF IInv, OpenIsLast, TrackOfFile, OwnNews, OwnSound
<1>7. audioTrackPlayer = 0
  <2>1. audioTrackPlayer # 0 => plays = audioTrackPlayer /\ opened = plays
    BY DEF IInv, TrackOfFile
  <2> QED
    BY <1>1, <2>1
<1>8. InOrder'
  BY <1>3, <1>7 DEF IInv, InOrder
<1> QED
  BY <1>3, <1>4, <1>5, <1>6, <1>8 DEF IInv, Typed

LEMMA DecodeNothingInv == IInv /\ DecodeNothing => IInv'
<1> SUFFICES ASSUME IInv, DecodeNothing PROVE IInv'
  OBVIOUS
<1>1. UNCHANGED <<audioTrackPlayer, trackPlaying, marker, isPaused, audioProgress, opening,
                  buffersWrited, uiTasks, player, held, into, rested, fresh, decodeTasks,
                  opened, position, exact, freePlayerBuffers, usedPlayerBuffers, plays,
                  seeks, pauses, ready, given, lost, late, spoiled, unearned, early>>
  BY DEF DecodeNothing, DecodeDone, LoopFrame, DecodeFrame, write, track, buffers, calls,
         faults
<1>2. /\ finished' = TRUE /\ readFinished' = TRUE /\ decodingFinished' = TRUE
      /\ mute' = (mute \/ ~decodingFinished) /\ decoding' = FALSE /\ was' = FALSE
      /\ playerTasks' \in {playerTasks, playerTasks + 1}
  BY DEF DecodeNothing, DecodeDone, LoopFrame, DecodeFrame, write, track, buffers, calls,
         faults
<1>3. /\ TrackTyped' /\ MainTyped' /\ CallsTyped' /\ BuffersTyped' /\ GivenTyped'
      /\ TasksTyped' /\ OpenIsLast' /\ TrackOfFile' /\ InOrder' /\ OwnNews'
      /\ OwnSound'
  BY <1>1 DEF IInv, Typed, TrackTyped, MainTyped, CallsTyped, BuffersTyped,
               BuffersKept, GivenTyped, TasksTyped, OpenIsLast, TrackOfFile, InOrder,
               Taken, OwnNews, OwnSound
<1>4. WriterTyped'
  <2>1. playerTasks' \in Nat
    BY <1>2 DEF IInv, Typed, WriterTyped
  <2> QED
    BY <1>1, <2>1 DEF IInv, Typed, WriterTyped
<1>5. FileTyped'
  BY <1>1, <1>2 DEF IInv, Typed, FileTyped
<1>6. LoopTyped'
  BY <1>1, <1>2 DEF IInv, Typed, LoopTyped
<1> QED
  BY <1>3, <1>4, <1>5, <1>6 DEF IInv, Typed

-----------------------------------------------------------------------------
LEMMA StutterInv == IInv /\ UNCHANGED vars => IInv'
<1> SUFFICES ASSUME IInv, UNCHANGED vars PROVE IInv'
  OBVIOUS
<1>1. UNCHANGED <<main, buffersWrited, uiTasks, playerTasks, writer, decodeTasks, loop,
                  file, buffers, calls, ready, given, lost, faults, mute>>
  BY DEF vars
<1>2. /\ TrackTyped' /\ MainTyped' /\ CallsTyped' /\ WriterTyped' /\ FileTyped'
      /\ LoopTyped' /\ BuffersTyped' /\ GivenTyped' /\ TasksTyped'
  BY <1>1 DEF IInv, Typed, TrackTyped, MainTyped, CallsTyped, WriterTyped, FileTyped,
              LoopTyped, BuffersTyped, BuffersKept, GivenTyped, TasksTyped, main, track,
              writer, write, loop, file, buffers, calls, faults
<1>3. OpenIsLast' /\ TrackOfFile' /\ InOrder' /\ OwnNews' /\ OwnSound'
  BY <1>1 DEF IInv, OpenIsLast, TrackOfFile, InOrder, Taken, OwnNews, OwnSound, main,
              track, writer, write, loop, file, buffers, calls, faults
<1> QED
  BY <1>2, <1>3 DEF IInv, Typed

LEMMA NextInv == IInv /\ [Next]_vars => IInv'
<1> SUFFICES ASSUME IInv, [Next]_vars PROVE IInv'
  OBVIOUS
<1>1. CASE Calls
  BY <1>1, StopAudioInv, PauseAudioInv, ResumeAudioInv, PlayAudioInv, SeekToProgressInv
     DEF Calls
<1>2. CASE MainThread
  BY <1>2, MakeTrackInv, TrackFailsInv, PostResetInv, SoughtInv, WroteInv, OnMarkerReachedInv
     DEF MainThread
<1>3. CASE ReachMarker
  BY <1>3, ReachMarkerInv
<1>4. CASE PlayerQueue
  BY <1>4, PlayerCheckInv, PlayerTakeInv, BeginWriteInv, PlayerWriteInv DEF PlayerQueue
<1>5. CASE FileDecodingQueue
  BY <1>5, OpenFileInv, ResetInv, SeekFileInv, DecodeCheckInv, DecodeFullInv, DecodePartInv,
     DecodeSilenceInv, DecodeNothingInv DEF FileDecodingQueue
<1>6. CASE UNCHANGED vars
  BY <1>6, StutterInv
<1> QED
  BY <1>1, <1>2, <1>3, <1>4, <1>5, <1>6 DEF Next

LEMMA Invariance == Spec => []IInv
<1> QED
  BY InitInv, NextInv, PTL DEF Spec

-----------------------------------------------------------------------------
(* What a pause or a seek costs.                                           *)

\* The buffer on its way to the track, if it may be cut: the write of it goes on and
\* the track has rested, or is still to come and the track does not play.
AtRisk ==
    IF \/ player = "writes" /\ into # 0 /\ rested
       \/ player \in {"checked", "holds"} /\ audioTrackPlayer # 0 /\ ~trackPlaying
    THEN 1 ELSE 0

CostInv == lost + AtRisk <= pauses + seeks

CostFrame == UNCHANGED <<lost, player, into, rested, audioTrackPlayer, trackPlaying>>

LEMMA CostInit == Init => CostInv
BY DEF Init, CostInv, AtRisk

LEMMA CostNext == IInv /\ CostInv /\ [Next]_vars => CostInv'
<1> SUFFICES ASSUME IInv, CostInv, [Next]_vars PROVE CostInv'
  OBVIOUS
<1>1. /\ lost \in Nat /\ pauses \in Nat /\ seeks \in Nat /\ AtRisk \in {0, 1}
      /\ audioTrackPlayer = 0 => ~trackPlaying
  <2>1. AtRisk \in {0, 1}
    BY DEF AtRisk
  <2> QED
    BY <2>1, PlayerAssumption DEF IInv, Typed, GivenTyped, CallsTyped, TrackTyped
<1>2. ASSUME AtRisk' = 0 \/ AtRisk' = AtRisk, UNCHANGED <<lost, pauses, seeks>>
      PROVE  CostInv'
  <2>1. PICK r \in {0, 1} : r = AtRisk
    BY <1>1
  <2>2. PICK q : q = AtRisk'
    OBVIOUS
  <2>3. lost + r <= pauses + seeks /\ q \in {0, r}
    BY <1>2, <2>1, <2>2 DEF CostInv
  <2>4. lost + q <= pauses + seeks
    BY <1>1, <2>3
  <2> QED
    BY <1>2, <2>2, <2>4 DEF CostInv
<1>3. ASSUME CostFrame, UNCHANGED <<pauses, seeks>>
      PROVE  CostInv'
  <2>1. AtRisk' = AtRisk
    BY <1>3 DEF CostFrame, AtRisk
  <2> QED
    BY <1>2, <1>3, <2>1 DEF CostFrame
<1>4. ASSUME NoTrack, UNCHANGED <<lost, player, into, rested, pauses, seeks>>
      PROVE  CostInv'
  <2>1. AtRisk' = 0 \/ AtRisk' = AtRisk
    BY <1>4 DEF NoTrack, AtRisk
  <2> QED
    BY <1>2, <1>4, <2>1
<1>5. ASSUME Rest, pauses' + seeks' = pauses + seeks + 1,
             UNCHANGED <<lost, player, into, audioTrackPlayer>>
      PROVE  CostInv'
  <2>1. PICK r \in {0, 1} : r = AtRisk
    BY <1>1
  <2>2. PICK q \in {0, 1} : q = AtRisk'
    BY DEF AtRisk
  <2>3. PICK c : c = pauses' + seeks'
    OBVIOUS
  <2>4. lost + r <= pauses + seeks /\ c = pauses + seeks + 1
    BY <1>5, <2>1, <2>3 DEF CostInv
  <2>5. lost + q <= c
    BY <1>1, <2>4
  <2> QED
    BY <1>5, <2>2, <2>3, <2>5 DEF CostInv
<1>6. CASE Calls
  <2>1. CASE StopAudio
    BY <1>4, <2>1 DEF StopAudio, QueuesFrame, writer, write, calls
  <2>2. CASE PauseAudio
    <3>1. pauses' + seeks' = pauses + seeks + 1
      BY <1>1, <2>2 DEF PauseAudio
    <3> QED
      BY <1>5, <2>2, <3>1 DEF PauseAudio
  <2>3. CASE ResumeAudio
    <3>1. UNCHANGED <<lost, player, into, rested, audioTrackPlayer, pauses, seeks>>
          /\ trackPlaying'
      BY <2>3 DEF ResumeAudio, ResumeFrame, writer, write, calls
    <3>2. AtRisk' = 0 \/ AtRisk' = AtRisk
      BY <1>1, <3>1 DEF AtRisk
    <3> QED
      BY <1>2, <3>1, <3>2
  <2>4. ASSUME NEW n \in Places, PlayAudio(n) PROVE CostInv'
    BY <1>4, <2>4 DEF PlayAudio, CleanupPlayer, writer, write
  <2>5. ASSUME NEW n \in Places, SeekToProgress(n) PROVE CostInv'
    <3>1. pauses' + seeks' = pauses + seeks + 1
      BY <1>1, <2>5 DEF SeekToProgress
    <3> QED
      BY <1>5, <2>5, <3>1 DEF SeekToProgress
  <2> QED
    BY <1>6, <2>1, <2>2, <2>3, <2>4, <2>5 DEF Calls
<1>7. CASE MainThread
  <2>1. CASE MakeTrack
    <3>1. UNCHANGED <<lost, player, into, rested, pauses, seeks>> /\ trackPlaying'
      BY <2>1 DEF MakeTrack, QueuesFrame, writer, write, calls
    <3>2. AtRisk' = 0 \/ AtRisk' = AtRisk
      BY <1>1, <3>1 DEF AtRisk
    <3> QED
      BY <1>2, <3>1, <3>2
  <2>2. CASE TrackFails
    BY <1>3, <2>2 DEF CostFrame, TrackFails, QueuesFrame, track, writer, write, calls
  <2>3. CASE PostReset
    BY <1>3, <2>3 DEF CostFrame, PostReset, track, writer, write, calls
  <2>4. CASE Sought
    <3>1. UNCHANGED <<lost, player, into, rested, audioTrackPlayer, pauses, seeks>>
          /\ (UNCHANGED trackPlaying \/ trackPlaying' \/ audioTrackPlayer = 0)
      BY <2>4 DEF Sought, writer, write, calls
    <3>2. AtRisk' = 0 \/ AtRisk' = AtRisk
      BY <1>1, <3>1 DEF AtRisk
    <3> QED
      BY <1>2, <3>1, <3>2
  <2>5. CASE Wrote
    <3>1. UNCHANGED <<lost, player, into, rested, pauses, seeks>>
      BY <2>5 DEF Wrote, QueuesFrame, writer, write, calls
    <3>2. UNCHANGED <<audioTrackPlayer, trackPlaying>> \/ NoTrack
      BY <2>5 DEF Wrote, End, CleanupPlayer, track
    <3> QED
      BY <1>3, <1>4, <3>1, <3>2 DEF CostFrame
  <2>6. CASE OnMarkerReached
    BY <1>4, <2>6 DEF OnMarkerReached, End, CleanupPlayer, QueuesFrame, writer, write, calls
  <2> QED
    BY <1>7, <2>1, <2>2, <2>3, <2>4, <2>5, <2>6 DEF MainThread
<1>8. CASE ReachMarker
  BY <1>3, <1>8 DEF CostFrame, ReachMarker, QueuesFrame, writer, write, calls
<1>9. CASE PlayerQueue
  <2> USE DEF PlayerFrame, main, track, calls
  <2>1. CASE PlayerCheck
    <3>1. /\ UNCHANGED <<lost, into, rested, audioTrackPlayer, trackPlaying, pauses, seeks>>
          /\ player' \in {"checked", "idle"} /\ (player' = "checked" => trackPlaying)
      BY <2>1 DEF PlayerCheck, write
    <3>2. AtRisk' = 0 \/ AtRisk' = AtRisk
      BY <1>1, <3>1 DEF AtRisk
    <3> QED
      BY <1>2, <3>1, <3>2
  <2>2. CASE PlayerTake
    <3>1. /\ UNCHANGED <<lost, into, rested, audioTrackPlayer, trackPlaying, pauses, seeks>>
          /\ player = "checked" /\ player' \in {"holds", "idle"}
      BY <2>2 DEF PlayerTake, write
    <3>2. AtRisk' = 0 \/ AtRisk' = AtRisk
      BY <1>1, <3>1 DEF AtRisk
    <3> QED
      BY <1>2, <3>1, <3>2
  <2>3. CASE BeginWrite
    <3>1. /\ UNCHANGED <<lost, audioTrackPlayer, trackPlaying, pauses, seeks>>
          /\ player = "holds" /\ player' = "writes"
          /\ into' = audioTrackPlayer /\ rested' = ~trackPlaying
      BY <2>3 DEF BeginWrite
    <3>2. AtRisk' = 0 \/ AtRisk' = AtRisk
      BY <1>1, <3>1 DEF AtRisk
    <3> QED
      BY <1>2, <3>1, <3>2
  <2>4. ASSUME NEW count, PlayerWrite(count) PROVE CostInv'
    <3>1. /\ UNCHANGED <<audioTrackPlayer, trackPlaying, pauses, seeks>>
          /\ player = "writes" /\ player' = "idle" /\ count \in Counts
          /\ lost' = IF (fresh /\ audioTrackPlayer = into /\ into # 0) /\ count # "all"
                     THEN lost + 1 ELSE lost
      BY <2>4 DEF PlayerWrite
    <3>2. into # 0 /\ audioTrackPlayer = into /\ count # "all" => rested
      BY <3>1 DEF Counts
    <3>3. AtRisk' = 0 /\ (lost' = lost \/ (lost' = lost + 1 /\ AtRisk = 1))
      BY <1>1, <3>1, <3>2 DEF AtRisk
    <3>4. PICK l : l = lost'
      OBVIOUS
    <3>5. l + 0 <= pauses + seeks
      BY <1>1, <3>3, <3>4 DEF CostInv
    <3> QED
      BY <3>1, <3>3, <3>4, <3>5 DEF CostInv
  <2> QED
    BY <1>9, <2>1, <2>2, <2>3, <2>4 DEF PlayerQueue
<1>10. CASE FileDecodingQueue
  <2> SUFFICES CostFrame /\ UNCHANGED <<pauses, seeks>>
    BY <1>3
  <2> USE DEF CostFrame, DecodeFrame, track, write, calls
  <2>1. CASE OpenFile \/ Reset \/ SeekFile \/ DecodeCheck
    BY <2>1 DEF OpenFile, Reset, SeekFile, DecodeCheck
  <2>2. CASE DecodeFull \/ DecodeNothing
    BY <2>2 DEF DecodeFull, DecodeNothing, LoopFrame
  <2>3. CASE DecodePart \/ DecodeSilence
    BY <2>3 DEF DecodePart, DecodeSilence, Fill, LoopFrame
  <2> QED
    BY <1>10, <2>1, <2>2, <2>3 DEF FileDecodingQueue
<1>11. CASE UNCHANGED vars
  BY <1>3, <1>11 DEF CostFrame, vars, main, track, writer, write, calls
<1> QED
  BY <1>6, <1>7, <1>8, <1>9, <1>10, <1>11 DEF Next

-----------------------------------------------------------------------------
(* The end of a message.                                                   *)

\* News is of a track that there was: of none that is still to be made.
NewsOfThePast ==
    /\ into <= plays
    /\ \A t \in ToSet(uiTasks) : t.kind \in {"wrote", "marker"} => t.track <= plays
    /\ opening \in {"wait", "opened"} =>
           /\ plays # 0 /\ into # plays
           /\ \A t \in ToSet(uiTasks) : t.kind \in {"wrote", "marker"} => t.track # plays

\* The buffers are taken back once for a track.
OneReset ==
    /\ opening = "made" =>
           /\ audioTrackPlayer # 0 /\ ~ready
           /\ \A i \in DOMAIN decodeTasks : decodeTasks[i].kind # "reset"
    /\ audioTrackPlayer # 0 =>
           \A i \in DOMAIN decodeTasks : decodeTasks[i].kind = "reset" =>
               /\ ~ready
               /\ \A j \in DOMAIN decodeTasks : decodeTasks[j].kind = "reset" => i = j

\* The track has got all parts, and the decoder has found the end.
Over == ready /\ decodingFinished /\ given >= LastPart

OfTheEnd(t) == t.kind = "marker" \/ (t.kind = "wrote" /\ t.finished)

\* What says that the message is at its end is right, wherever it is: in a decoded
\* buffer, in that of the player, in news of it, in the marker or in its message.
DecodedEnds ==
    ready => \A b \in ToSet(usedPlayerBuffers) :
        b.finished => decodingFinished /\ b.part = LastPart

HeldEnds == fresh /\ held.finished => decodingFinished /\ held.part = LastPart

NewsEnds ==
    \A t \in ToSet(uiTasks) :
        OfTheEnd(t) /\ t.fresh /\ t.track = audioTrackPlayer => Over

MarkerEnds == marker # 0 /\ ~late => Over

\* A message is not ended by its own news before its last part was given.
EndsAtTheEnd == ~early

EndKnown ==
    audioTrackPlayer # 0 /\ ~mute => DecodedEnds /\ HeldEnds /\ NewsEnds /\ MarkerEnds

LEMMA EndInit == Init => NewsOfThePast /\ OneReset /\ EndKnown /\ EndsAtTheEnd
<1> SUFFICES ASSUME Init PROVE NewsOfThePast /\ OneReset /\ EndKnown /\ EndsAtTheEnd
  OBVIOUS
<1>1. ToSet(<<>>) = {} /\ DOMAIN <<>> = {}
  BY DEF ToSet
<1> QED
  BY <1>1 DEF Init, NewsOfThePast, OneReset, EndKnown, EndsAtTheEnd

\* What the queue of the main thread is after a task of it is done or posted.
LEMMA UiTail ==
    ASSUME IInv, NEW kind, FirstUi(kind), uiTasks' = Tail(uiTasks)
    PROVE  ToSet(uiTasks) = {Head(uiTasks)} \cup ToSet(uiTasks')
BY ToSetOfTail DEF IInv, Typed, TasksTyped, FirstUi

LEMMA NewsNext == IInv /\ NewsOfThePast /\ [Next]_vars => NewsOfThePast'
<1> SUFFICES ASSUME IInv, NewsOfThePast, [Next]_vars PROVE NewsOfThePast'
  OBVIOUS
<1>1. /\ plays \in Nat /\ audioTrackPlayer \in Nat /\ into \in Nat
      /\ uiTasks \in Seq(UiTask)
      /\ \A t \in UiTask : t.kind \in {"wrote", "marker"} => t.track \in Nat
  BY DEF IInv, Typed, CallsTyped, TrackTyped, WriterTyped, TasksTyped, OrNone, Messages,
         UiTask, WroteTask, MarkerTask
<1>2. \A t \in ToSet(uiTasks) : t.kind \in {"wrote", "marker"} => t.track \in Nat
  BY <1>1 DEF ToSet
<1>3. ASSUME UNCHANGED <<into, plays, uiTasks, opening>>
      PROVE  NewsOfThePast'
  BY <1>3 DEF NewsOfThePast
<1>4. ASSUME UNCHANGED <<into, plays>>, ToSet(uiTasks') \subseteq ToSet(uiTasks),
             opening' \in {"wait", "opened"} => opening \in {"wait", "opened"}
      PROVE  NewsOfThePast'
  BY <1>4 DEF NewsOfThePast
<1>5. CASE Calls
  <2>1. CASE StopAudio \/ PauseAudio \/ ResumeAudio
    BY <1>3, <2>1 DEF StopAudio, PauseAudio, ResumeAudio, ResumeFrame, QueuesFrame, writer,
                      write, calls
  <2>2. ASSUME NEW n \in Places, SeekToProgress(n) PROVE NewsOfThePast'
    BY <1>3, <2>2 DEF SeekToProgress
  <2>3. ASSUME NEW n \in Places, PlayAudio(n) PROVE NewsOfThePast'
    <3>1. plays' = plays + 1 /\ UNCHANGED <<into, uiTasks>>
      BY <2>3 DEF PlayAudio, writer, write
    <3>2. \A k \in Nat : k <= plays => k <= plays + 1 /\ k # plays + 1
      BY <1>1
    <3>3. plays + 1 # 0
      BY <1>1
    <3> QED
      BY <1>1, <1>2, <3>1, <3>2, <3>3 DEF NewsOfThePast
  <2> QED
    BY <1>5, <2>1, <2>2, <2>3 DEF Calls
<1>6. CASE MainThread
  <2> USE DEF QueuesFrame, writer, write, calls
  <2>1. CASE MakeTrack \/ TrackFails \/ PostReset
    BY <1>4, <2>1 DEF MakeTrack, TrackFails, PostReset
  <2>2. CASE Sought \/ Wrote \/ OnMarkerReached
    <3>1. ToSet(uiTasks') \subseteq ToSet(uiTasks)
      BY <2>2, UiTail DEF Sought, Wrote, OnMarkerReached
    <3> QED
      BY <1>4, <2>2, <3>1 DEF Sought, Wrote, OnMarkerReached
  <2> QED
    BY <1>6, <2>1, <2>2 DEF MainThread
<1>7. CASE ReachMarker
  <2> DEFINE t == [kind |-> "marker", play |-> marker, track |-> audioTrackPlayer,
                   fresh |-> ~late]
  <2>1. UNCHANGED <<into, plays, opening>> /\ uiTasks' = Append(uiTasks, t)
        /\ trackPlaying
    BY <1>7 DEF ReachMarker, QueuesFrame, writer, write, calls
  <2>2. t.track = plays /\ opening \in {"no", "made"}
    BY <2>1 DEF IInv, Typed, TrackTyped, TrackOfFile
  <2>3. t \in UiTask
    BY <1>7 DEF ReachMarker, IInv, Typed, TrackTyped, OrNone, GivenTyped, UiTask, MarkerTask
  <2> HIDE DEF t
  <2>4. ToSet(uiTasks') = ToSet(uiTasks) \cup {t}
    BY <1>1, <2>1, <2>3, ToSetOfAppend
  <2> QED
    BY <1>1, <2>1, <2>2, <2>4 DEF NewsOfThePast
<1>8. CASE PlayerQueue
  <2> USE DEF PlayerFrame, main, calls
  <2>1. CASE PlayerCheck \/ PlayerTake
    BY <1>3, <2>1 DEF PlayerCheck, PlayerTake, write
  <2>2. CASE BeginWrite
    <3>1. into' = audioTrackPlayer /\ UNCHANGED <<plays, uiTasks, opening>>
      BY <2>2 DEF BeginWrite
    <3>2. audioTrackPlayer <= plays
          /\ (opening \in {"wait", "opened"} => audioTrackPlayer = 0)
      BY <1>1 DEF IInv, TrackOfFile
    <3> QED
      BY <3>1, <3>2 DEF NewsOfThePast
  <2>3. ASSUME NEW count, PlayerWrite(count) PROVE NewsOfThePast'
    <3>1. /\ into' = 0 /\ UNCHANGED <<plays, opening>> /\ count \in Counts
          /\ uiTasks' = IF count = "none" THEN uiTasks ELSE Append(uiTasks, News)
      BY <2>3 DEF PlayerWrite
    <3>2. News.track = into /\ (count # "none" => News \in UiTask)
      BY <3>1 DEF News, Counts, UiTask, WroteTask, Buffer, OrNone, IInv, Typed, WriterTyped
    <3>3. \A t \in ToSet(uiTasks') : t \in ToSet(uiTasks) \/ t = News
      BY <1>1, <3>1, <3>2, ToSetOfAppend
    <3> QED
      BY <1>1, <3>1, <3>2, <3>3 DEF NewsOfThePast
  <2> QED
    BY <1>8, <2>1, <2>2, <2>3 DEF PlayerQueue
<1>9. CASE FileDecodingQueue
  <2> USE DEF DecodeFrame, LoopFrame, write, calls
  <2>1. CASE DecodeCheck \/ Reset
    BY <1>3, <2>1 DEF DecodeCheck, Reset
  <2>2. CASE DecodeFull \/ DecodeNothing \/ DecodePart \/ DecodeSilence
    BY <1>3, <2>2 DEF DecodeFull, DecodeNothing, DecodePart, DecodeSilence, Fill
  <2>3. CASE OpenFile
    <3>1. opening = "wait"
      <4>1. 1 \in DOMAIN decodeTasks /\ Head(decodeTasks) = decodeTasks[1]
            /\ decodeTasks[1].kind = "open"
        <5>1. decodeTasks \in Seq(DecodeTask) /\ decodeTasks # <<>>
              /\ Head(decodeTasks).kind = "open"
          BY <2>3 DEF OpenFile, FirstDecode, IInv, Typed, TasksTyped
        <5> QED
          BY <5>1, HeadTailProperties, EmptySeq
      <4> QED
        BY <4>1 DEF IInv, OpenIsLast
    <3> QED
      BY <1>4, <2>3, <3>1 DEF OpenFile
  <2>4. CASE SeekFile
    <3>1. UNCHANGED <<into, plays, opening>> /\ uiTasks' = Append(uiTasks, SoughtTask)
      BY <2>4 DEF SeekFile
    <3>2. ToSet(uiTasks') = ToSet(uiTasks) \cup {SoughtTask}
      BY <1>1, <3>1, UiKinds, ToSetOfAppend
    <3> QED
      BY <3>1, <3>2, UiKinds DEF NewsOfThePast
  <2> QED
    BY <1>9, <2>1, <2>2, <2>3, <2>4 DEF FileDecodingQueue
<1>10. CASE UNCHANGED vars
  BY <1>3, <1>10 DEF vars, main, writer, write, calls
<1> QED
  BY <1>5, <1>6, <1>7, <1>8, <1>9, <1>10 DEF Next

\* A task is posted that does not take the buffers back.
LEMMA ResetAppend ==
    ASSUME IInv, OneReset, NEW t \in DecodeTask, t.kind # "reset",
           decodeTasks' = Append(decodeTasks, t), UNCHANGED ready,
           opening' = "made" => opening = "made" /\ audioTrackPlayer' # 0,
           audioTrackPlayer' # 0 => audioTrackPlayer # 0
    PROVE  OneReset'
<1>1. /\ DOMAIN decodeTasks = 1..Len(decodeTasks) /\ Len(decodeTasks) \in Nat
      /\ DOMAIN decodeTasks' = 1..(Len(decodeTasks) + 1)
      /\ \A i \in DOMAIN decodeTasks : decodeTasks'[i] = decodeTasks[i]
      /\ decodeTasks'[Len(decodeTasks) + 1] = t
  BY DEF IInv, Typed, TasksTyped
<1>2. \A i \in DOMAIN decodeTasks' :
          decodeTasks'[i].kind = "reset" =>
              i \in DOMAIN decodeTasks /\ decodeTasks[i].kind = "reset"
  BY <1>1
<1> QED
  BY <1>2 DEF OneReset

\* A task is taken.
LEMMA ResetTail ==
    ASSUME IInv, OneReset, NEW kind, FirstDecode(kind), UNCHANGED audioTrackPlayer,
           opening' = "made" => opening = "made",
           ready' => ready \/ kind = "reset" \/ audioTrackPlayer = 0
    PROVE  OneReset'
<1>1. /\ decodeTasks \in Seq(DecodeTask) /\ decodeTasks # <<>>
      /\ Head(decodeTasks).kind = kind /\ decodeTasks' = Tail(decodeTasks)
  BY DEF IInv, Typed, TasksTyped, FirstDecode
<1>2. /\ Len(decodeTasks) \in Nat \ {0} /\ Head(decodeTasks) = decodeTasks[1]
      /\ Len(decodeTasks') = Len(decodeTasks) - 1 /\ decodeTasks' \in Seq(DecodeTask)
      /\ \A i \in 1..Len(decodeTasks') : decodeTasks'[i] = decodeTasks[i + 1]
  BY <1>1, HeadTailProperties, EmptySeq
<1>3. /\ \A i \in DOMAIN decodeTasks' :
             i + 1 \in DOMAIN decodeTasks /\ decodeTasks'[i] = decodeTasks[i + 1] /\ i \in Nat
                /\ i + 1 # 1
      /\ 1 \in DOMAIN decodeTasks
  BY <1>1, <1>2
<1>4. kind = "reset" => opening # "made"
  BY <1>1, <1>2, <1>3 DEF OneReset
<1>5. kind = "reset" /\ audioTrackPlayer # 0 =>
          \A i \in DOMAIN decodeTasks' : decodeTasks'[i].kind # "reset"
  <2> SUFFICES ASSUME kind = "reset", audioTrackPlayer # 0, NEW i \in DOMAIN decodeTasks',
                      decodeTasks'[i].kind = "reset"
               PROVE  FALSE
    OBVIOUS
  <2>1. decodeTasks[1].kind = "reset" /\ decodeTasks[i + 1].kind = "reset"
    BY <1>1, <1>2, <1>3
  <2> QED
    BY <1>3, <2>1 DEF OneReset
<1>6. ASSUME opening' = "made"
      PROVE  /\ audioTrackPlayer' # 0 /\ ~ready'
             /\ \A i \in DOMAIN decodeTasks' : decodeTasks'[i].kind # "reset"
  <2>1. opening = "made" /\ ~ready /\ audioTrackPlayer # 0
    BY <1>6 DEF OneReset
  <2>2. \A i \in DOMAIN decodeTasks' : decodeTasks'[i].kind # "reset"
    BY <1>3, <2>1 DEF OneReset
  <2> QED
    BY <1>4, <2>1, <2>2
<1>7. ASSUME audioTrackPlayer' # 0, NEW i \in DOMAIN decodeTasks',
             decodeTasks'[i].kind = "reset"
      PROVE  /\ ~ready'
             /\ \A j \in DOMAIN decodeTasks' : decodeTasks'[j].kind = "reset" => i = j
  <2>1. audioTrackPlayer # 0 /\ kind # "reset" /\ decodeTasks[i + 1].kind = "reset"
    BY <1>3, <1>5, <1>7
  <2>2. ~ready /\ ~ready'
    BY <1>3, <1>7, <2>1 DEF OneReset
  <2>3. ASSUME NEW j \in DOMAIN decodeTasks', decodeTasks'[j].kind = "reset"
        PROVE  i = j
    <3>1. i + 1 = j + 1
      BY <1>3, <1>7, <2>1, <2>3 DEF OneReset
    <3> QED
      BY <1>3, <1>7, <3>1
  <2> QED
    BY <2>2, <2>3
<1> QED
  BY <1>6, <1>7 DEF OneReset

LEMMA ResetNext == IInv /\ OneReset /\ [Next]_vars => OneReset'
<1> SUFFICES ASSUME IInv, OneReset, [Next]_vars PROVE OneReset'
  OBVIOUS
<1>1. ASSUME UNCHANGED <<decodeTasks, ready>>,
             opening' = "made" => opening = "made" /\ audioTrackPlayer' # 0,
             audioTrackPlayer' # 0 => audioTrackPlayer # 0
      PROVE  OneReset'
  BY <1>1 DEF OneReset
<1>2. opening = "made" => audioTrackPlayer # 0
  BY DEF OneReset
<1>3. CASE Calls
  <2>1. CASE StopAudio \/ PauseAudio \/ ResumeAudio
    BY <1>1, <1>2, <2>1 DEF StopAudio, NoTrack, PauseAudio, ResumeAudio, ResumeFrame,
                            QueuesFrame
  <2>2. ASSUME NEW n \in Places, SeekToProgress(n) PROVE OneReset'
    <3>1. SeekTask(n) \in DecodeTask /\ SeekTask(n).kind # "reset"
      BY DecodeKinds
    <3>2. decodeTasks' = Append(decodeTasks, SeekTask(n))
          /\ UNCHANGED <<ready, opening, audioTrackPlayer>>
      BY <2>2 DEF SeekToProgress
    <3> QED
      BY <1>2, <3>1, <3>2, ResetAppend
  <2>3. ASSUME NEW n \in Places, PlayAudio(n) PROVE OneReset'
    <3>1. plays + 1 \in Messages
      BY <2>3, PlayerAssumption DEF PlayAudio, IInv, Typed, CallsTyped, Messages
    <3>2. OpenTask(plays + 1) \in DecodeTask /\ OpenTask(plays + 1).kind # "reset"
      BY <3>1, DecodeKinds
    <3>3. /\ decodeTasks' = Append(decodeTasks, OpenTask(plays + 1)) /\ UNCHANGED ready
          /\ opening' = "wait" /\ audioTrackPlayer' = 0
      BY <2>3 DEF PlayAudio, CleanupPlayer, NoTrack
    <3> QED
      BY <3>2, <3>3, ResetAppend
  <2> QED
    BY <1>3, <2>1, <2>2, <2>3 DEF Calls
<1>4. CASE MainThread
  <2> USE DEF QueuesFrame
  <2>1. CASE MakeTrack
    <3>1. /\ opening = "opened" /\ opening' = "made" /\ audioTrackPlayer' = plays
          /\ UNCHANGED <<decodeTasks, ready>>
      BY <2>1 DEF MakeTrack
    <3>2. plays # 0 /\ ~ready /\ \A i \in DOMAIN decodeTasks : decodeTasks[i].kind # "reset"
      BY <3>1 DEF IInv, OpenIsLast
    <3> QED
      BY <3>1, <3>2 DEF OneReset
  <2>2. CASE PostReset
    <3>1. /\ opening = "made" /\ opening' = "no" /\ UNCHANGED <<audioTrackPlayer, ready>>
          /\ decodeTasks' = Append(decodeTasks, ResetTask)
      BY <2>2 DEF PostReset, track
    <3>2. ~ready /\ \A i \in DOMAIN decodeTasks : decodeTasks[i].kind # "reset"
      BY <3>1 DEF OneReset
    <3>3. /\ DOMAIN decodeTasks = 1..Len(decodeTasks) /\ Len(decodeTasks) \in Nat
          /\ DOMAIN decodeTasks' = 1..(Len(decodeTasks) + 1)
          /\ \A i \in DOMAIN decodeTasks : decodeTasks'[i] = decodeTasks[i]
      BY <3>1 DEF IInv, Typed, TasksTyped
    <3>4. \A i \in DOMAIN decodeTasks' : decodeTasks'[i].kind = "reset" =>
              i = Len(decodeTasks) + 1
      BY <3>2, <3>3
    <3> QED
      BY <3>1, <3>2, <3>4 DEF OneReset
  <2>3. CASE TrackFails \/ Sought
    BY <1>1, <1>2, <2>3 DEF TrackFails, Sought, FirstUi, track
  <2>4. CASE Wrote \/ OnMarkerReached
    BY <1>1, <1>2, <2>4 DEF Wrote, OnMarkerReached, FirstUi, End, CleanupPlayer, NoTrack,
                            track
  <2> QED
    BY <1>4, <2>1, <2>2, <2>3, <2>4 DEF MainThread
<1>5. CASE ReachMarker
  BY <1>1, <1>2, <1>5 DEF ReachMarker, QueuesFrame
<1>6. CASE PlayerQueue
  <2> USE DEF PlayerFrame, main, track
  <2>1. ASSUME decodeTasks' = Append(decodeTasks, CheckTask),
               UNCHANGED <<ready, opening, audioTrackPlayer>>
        PROVE  OneReset'
    <3>1. CheckTask \in DecodeTask /\ CheckTask.kind # "reset"
      BY DecodeKinds
    <3> QED
      BY <1>2, <2>1, <3>1, ResetAppend
  <2>2. CASE PlayerCheck \/ BeginWrite
    BY <1>1, <1>2, <2>2 DEF PlayerCheck, BeginWrite
  <2>3. CASE PlayerTake
    BY <1>1, <1>2, <2>1, <2>3 DEF PlayerTake
  <2>4. ASSUME NEW count, PlayerWrite(count) PROVE OneReset'
    BY <1>1, <1>2, <2>1, <2>4 DEF PlayerWrite
  <2> QED
    BY <1>6, <2>2, <2>3, <2>4 DEF PlayerQueue
<1>7. CASE FileDecodingQueue
  <2> USE DEF DecodeFrame, LoopFrame, track
  <2>1. CASE OpenFile
    <3>1. FirstDecode("open") /\ UNCHANGED audioTrackPlayer /\ opening' # "made" /\ ~ready'
      BY <2>1 DEF OpenFile
    <3> QED
      BY <3>1, ResetTail
  <2>2. CASE Reset
    <3>1. FirstDecode("reset") /\ UNCHANGED <<audioTrackPlayer, opening>>
      BY <2>2 DEF Reset
    <3> QED
      BY <3>1, ResetTail
  <2>3. CASE SeekFile
    <3>1. FirstDecode("seek") /\ UNCHANGED <<audioTrackPlayer, opening, ready>>
      BY <2>3 DEF SeekFile
    <3> QED
      BY <3>1, ResetTail
  <2>4. CASE DecodeCheck
    <3>1. FirstDecode("check") /\ UNCHANGED <<audioTrackPlayer, opening, ready>>
      BY <2>4 DEF DecodeCheck
    <3> QED
      BY <3>1, ResetTail
  <2>5. CASE DecodeFull \/ DecodeNothing \/ DecodePart \/ DecodeSilence
    BY <1>1, <1>2, <2>5 DEF DecodeFull, DecodeNothing, DecodePart, DecodeSilence, Fill
  <2> QED
    BY <1>7, <2>1, <2>2, <2>3, <2>4, <2>5 DEF FileDecodingQueue
<1>8. CASE UNCHANGED vars
  BY <1>1, <1>2, <1>8 DEF vars, main, track
<1> QED
  BY <1>3, <1>4, <1>5, <1>6, <1>7, <1>8 DEF Next

LEMMA EndNext ==
    ASSUME IInv, NewsOfThePast, OneReset, EndKnown, EndsAtTheEnd, [Next]_vars
    PROVE  EndKnown' /\ EndsAtTheEnd'
<1>1. /\ uiTasks \in Seq(UiTask) /\ usedPlayerBuffers \in Seq(Buffer)
      /\ given \in Nat /\ LastPart \in Int
      /\ exact \in BOOLEAN
  BY PlayerAssumption
     DEF IInv, Typed, TasksTyped, BuffersTyped, GivenTyped, LastPart, FileTyped
<1> DEFINE Same == UNCHANGED <<held, fresh, usedPlayerBuffers, decodingFinished, exact, given,
                               ready>>
           Quiet == UNCHANGED <<audioTrackPlayer, mute, early>>
<1>2. ASSUME audioTrackPlayer' = 0, UNCHANGED early
      PROVE  EndKnown' /\ EndsAtTheEnd'
  BY <1>2 DEF EndKnown, EndsAtTheEnd
<1>3. ASSUME Same, Quiet, UNCHANGED marker, UNCHANGED late,
             ToSet(uiTasks') \subseteq ToSet(uiTasks)
      PROVE  EndKnown' /\ EndsAtTheEnd'
  BY <1>3 DEF EndKnown, EndsAtTheEnd, DecodedEnds, HeldEnds, NewsEnds, MarkerEnds, Over,
              LastPart
<1>4. ASSUME NEW kind \in {"wrote", "marker"}, FirstUi(kind), OfTheEnd(Head(uiTasks)),
             End(Head(uiTasks).play,
                 late \/ ~Head(uiTasks).fresh \/ Head(uiTasks).track # audioTrackPlayer)
      PROVE  EndKnown' /\ EndsAtTheEnd'
  <2>1. Head(uiTasks) \in ToSet(uiTasks)
    BY <1>1, <1>4, ToSetOfTail DEF FirstUi
  <2>2. /\ audioTrackPlayer' = 0
        /\ early' = (early \/ (/\ audioTrackPlayer # 0
                               /\ ~(\/ late \/ ~Head(uiTasks).fresh
                                    \/ Head(uiTasks).track # audioTrackPlayer)
                               /\ given < LastPart /\ ~mute))
    BY <1>4 DEF End, CleanupPlayer, NoTrack
  <2>3. audioTrackPlayer # 0 /\ ~mute /\ Head(uiTasks).fresh
            /\ Head(uiTasks).track = audioTrackPlayer => given >= LastPart
    BY <1>4, <2>1 DEF EndKnown, NewsEnds, Over
  <2>4. given >= LastPart => ~(given < LastPart)
    BY <1>1
  <2>5. ~early'
    BY <2>2, <2>3, <2>4 DEF EndsAtTheEnd
  <2> QED
    BY <2>2, <2>5 DEF EndKnown, EndsAtTheEnd
<1>5. CASE Calls
  <2>1. CASE StopAudio
    BY <1>2, <2>1 DEF StopAudio, NoTrack, faults
  <2>2. CASE PauseAudio \/ ResumeAudio
    BY <1>3, <2>2 DEF PauseAudio, ResumeAudio, ResumeFrame, file, buffers, faults, writer
  <2>3. ASSUME NEW n \in Places, SeekToProgress(n) PROVE EndKnown' /\ EndsAtTheEnd'
    BY <1>3, <2>3 DEF SeekToProgress, file, buffers, faults
  <2>4. ASSUME NEW n \in Places, PlayAudio(n) PROVE EndKnown' /\ EndsAtTheEnd'
    BY <1>2, <2>4 DEF PlayAudio, CleanupPlayer, NoTrack, faults
  <2> QED
    BY <1>5, <2>1, <2>2, <2>3, <2>4 DEF Calls
<1>6. CASE MainThread
  <2> USE DEF QueuesFrame, writer, file, buffers, faults
  <2>1. CASE MakeTrack
    <3>1. /\ opening = "opened" /\ audioTrackPlayer' = plays
          /\ UNCHANGED <<uiTasks, marker, fresh, ready, early>>
      BY <2>1 DEF MakeTrack
    <3>2. ~ready /\ ~fresh /\ marker = 0
      BY <3>1 DEF IInv, OpenIsLast, InOrder, TrackOfFile, Typed, TrackTyped
    <3>3. \A t \in ToSet(uiTasks') : OfTheEnd(t) => t.track # audioTrackPlayer'
      BY <3>1 DEF NewsOfThePast, OfTheEnd
    <3>4. DecodedEnds' /\ HeldEnds' /\ MarkerEnds'
      BY <3>1, <3>2 DEF DecodedEnds, HeldEnds, MarkerEnds
    <3>5. NewsEnds'
      BY <3>3 DEF NewsEnds
    <3> QED
      BY <3>1, <3>4, <3>5 DEF EndKnown, EndsAtTheEnd
  <2>2. CASE TrackFails \/ PostReset
    BY <1>3, <2>2 DEF TrackFails, PostReset, track
  <2>3. CASE Sought
    BY <1>3, <2>3, UiTail DEF Sought
  <2>4. CASE OnMarkerReached
    <3>1. FirstUi("marker") /\ OfTheEnd(Head(uiTasks))
      BY <2>4 DEF OnMarkerReached, FirstUi, OfTheEnd
    <3> QED
      BY <1>4, <2>4, <3>1 DEF OnMarkerReached
  <2>5. CASE Wrote
    <3> DEFINE t == Head(uiTasks)
               tooLate == late \/ ~t.fresh \/ t.track # audioTrackPlayer
    <3>1. FirstUi("wrote") /\ uiTasks' = Tail(uiTasks) /\ Same /\ UNCHANGED mute
      BY <2>5 DEF Wrote
    <3>2. ToSet(uiTasks) = {t} \cup ToSet(uiTasks')
      BY <3>1, UiTail
    <3>3. CASE UNCHANGED <<track, buffersWrited, faults>>
      BY <1>3, <3>1, <3>2, <3>3 DEF track
    <3>4. CASE /\ t.finished /\ late' = tooLate
               /\ UNCHANGED <<audioTrackPlayer, early>>
      <4>1. t \in ToSet(uiTasks) /\ OfTheEnd(t)
        BY <3>1, <3>2, <3>4 DEF FirstUi, OfTheEnd
      <4>2. audioTrackPlayer # 0 /\ ~mute /\ ~late' => Over
        BY <3>4, <4>1 DEF EndKnown, NewsEnds
      <4>3. Over' = Over
        BY <3>1 DEF Over, LastPart
      <4>4. audioTrackPlayer # 0 /\ ~mute => DecodedEnds' /\ HeldEnds' /\ NewsEnds'
        BY <3>1, <3>2, <3>4, <4>3 DEF EndKnown, DecodedEnds, HeldEnds, NewsEnds, LastPart
      <4> QED
        BY <3>1, <3>4, <4>2, <4>3, <4>4 DEF EndKnown, MarkerEnds, EndsAtTheEnd
    <3>5. CASE t.finished /\ End(t.play, tooLate)
      <4>1. OfTheEnd(t)
        BY <3>1, <3>5 DEF FirstUi, OfTheEnd
      <4> QED
        BY <1>4, <3>1, <3>5, <4>1
    <3> QED
      BY <2>5, <3>3, <3>4, <3>5 DEF Wrote
  <2> QED
    BY <1>6, <2>1, <2>2, <2>3, <2>4, <2>5 DEF MainThread
<1>7. CASE ReachMarker
  <2> DEFINE t == [kind |-> "marker", play |-> marker, track |-> audioTrackPlayer,
                   fresh |-> ~late]
  <2>1. /\ trackPlaying /\ marker # 0 /\ marker' = 0 /\ Same /\ Quiet
        /\ uiTasks' = Append(uiTasks, t)
    BY <1>7 DEF ReachMarker, QueuesFrame, writer, file, buffers, faults
  <2>2. t \in UiTask
    BY <2>1 DEF IInv, Typed, TrackTyped, OrNone, GivenTyped, UiTask, MarkerTask
  <2>3. t.fresh = ~late
    OBVIOUS
  <2> HIDE DEF t
  <2>4. ToSet(uiTasks') = ToSet(uiTasks) \cup {t}
    BY <1>1, <2>1, <2>2, ToSetOfAppend
  <2>5. Over' = Over
    BY <2>1 DEF Over, LastPart
  <2>6. ASSUME audioTrackPlayer # 0, ~mute
        PROVE  DecodedEnds' /\ HeldEnds' /\ NewsEnds'
    <3>1. t.fresh => Over
      BY <2>1, <2>3, <2>6 DEF EndKnown, MarkerEnds
    <3> QED
      BY <2>1, <2>4, <2>5, <2>6, <3>1
         DEF EndKnown, DecodedEnds, HeldEnds, NewsEnds, LastPart
  <2> QED
    BY <2>1, <2>6 DEF EndKnown, MarkerEnds, EndsAtTheEnd
<1>8. CASE PlayerQueue
  <2> USE DEF PlayerFrame, main, track, file, faults
  <2>1. CASE PlayerCheck \/ BeginWrite
    BY <1>3, <2>1 DEF PlayerCheck, BeginWrite, buffers
  <2>2. CASE PlayerTake
    <3>1. /\ UNCHANGED <<audioTrackPlayer, mute, early, marker, late, uiTasks,
                         decodingFinished, exact, given, ready>>
          /\ \/ /\ usedPlayerBuffers # <<>> /\ held' = Head(usedPlayerBuffers)
                /\ usedPlayerBuffers' = Tail(usedPlayerBuffers) /\ fresh' = ready
             \/ UNCHANGED <<held, usedPlayerBuffers, fresh>>
      BY <2>2 DEF PlayerTake
    <3>2. CASE UNCHANGED <<held, usedPlayerBuffers, fresh>>
      BY <1>3, <3>1, <3>2
    <3>3. CASE /\ usedPlayerBuffers # <<>> /\ held' = Head(usedPlayerBuffers)
               /\ usedPlayerBuffers' = Tail(usedPlayerBuffers) /\ fresh' = ready
      <4>1. ToSet(usedPlayerBuffers) = {held'} \cup ToSet(usedPlayerBuffers')
        BY <1>1, <3>3, ToSetOfTail
      <4>2. Over' = Over /\ LastPart' = LastPart
        BY <3>1 DEF Over, LastPart
      <4>3. audioTrackPlayer # 0 /\ ~mute =>
                DecodedEnds' /\ HeldEnds' /\ NewsEnds' /\ MarkerEnds'
        BY <3>1, <3>3, <4>1, <4>2 DEF EndKnown, DecodedEnds, HeldEnds, NewsEnds, MarkerEnds
      <4> QED
        BY <3>1, <4>3 DEF EndKnown, EndsAtTheEnd
    <3> QED
      BY <3>1, <3>2, <3>3
  <2>3. ASSUME NEW count, PlayerWrite(count) PROVE EndKnown' /\ EndsAtTheEnd'
    <3> DEFINE own == fresh /\ audioTrackPlayer = into /\ into # 0
    <3>1. /\ UNCHANGED <<audioTrackPlayer, early, marker, late, usedPlayerBuffers,
                         decodingFinished, exact, ready>>
          /\ player = "writes" /\ fresh' = FALSE /\ count \in Counts
          /\ uiTasks' = IF count = "none" THEN uiTasks ELSE Append(uiTasks, News)
          /\ given' = IF own THEN held.part ELSE given
          /\ mute' = (mute \/ (own /\ held.finished /\ count = "none"))
      BY <2>3 DEF PlayerWrite
    <3>2. /\ (count # "none" => News \in UiTask) /\ News.track = into /\ News.fresh = fresh
          /\ News.finished = held.finished /\ News.kind = "wrote"
      BY <3>1 DEF News, Counts, UiTask, WroteTask, Buffer, OrNone, IInv, Typed, WriterTyped
    <3>3. \A t \in ToSet(uiTasks') : t \in ToSet(uiTasks) \/ t = News
      BY <1>1, <3>1, <3>2, ToSetOfAppend
    <3>4. LastPart' = LastPart
      BY <3>1 DEF LastPart
    <3>5. ASSUME audioTrackPlayer # 0, ~mute
          PROVE  DecodedEnds' /\ HeldEnds' /\ NewsEnds' /\ MarkerEnds'
      <4>1. ready /\ own => held.part = given + 1
        BY <3>1, <3>5 DEF IInv, InOrder
      <4>2. Over => Over'
        <5>1. ready => given' \in {given, given + 1}
          BY <3>1, <4>1
        <5>2. ready /\ given >= LastPart => given' >= LastPart
          BY <1>1, <5>1
        <5> QED
          BY <3>1, <3>4, <5>2 DEF Over
      <4>3. own /\ held.finished => Over'
        <5>1. own => ready
          BY DEF IInv, InOrder
        <5>2. own /\ held.finished => given' = LastPart /\ decodingFinished
          BY <3>1, <3>5 DEF EndKnown, HeldEnds
        <5> QED
          BY <1>1, <3>1, <3>4, <5>1, <5>2 DEF Over
      <4>4. DecodedEnds' /\ HeldEnds'
        BY <3>1, <3>4, <3>5 DEF EndKnown, DecodedEnds, HeldEnds
      <4>5. NewsEnds'
        <5> SUFFICES ASSUME NEW t \in ToSet(uiTasks'), OfTheEnd(t), t.fresh,
                            t.track = audioTrackPlayer
                     PROVE  Over'
          BY <3>1 DEF NewsEnds
        <5>1. CASE t \in ToSet(uiTasks)
          BY <3>5, <4>2, <5>1 DEF EndKnown, NewsEnds
        <5>2. CASE t = News
          BY <3>2, <3>5, <4>3, <5>2 DEF OfTheEnd
        <5> QED
          BY <3>3, <5>1, <5>2
      <4>6. MarkerEnds'
        BY <3>1, <3>5, <4>2 DEF EndKnown, MarkerEnds
      <4> QED
        BY <4>4, <4>5, <4>6
    <3> QED
      BY <3>1, <3>5 DEF EndKnown, EndsAtTheEnd
  <2> QED
    BY <1>8, <2>1, <2>2, <2>3 DEF PlayerQueue
<1>9. CASE FileDecodingQueue
  <2> USE DEF DecodeFrame, LoopFrame, track, faults
  <2>1. CASE OpenFile
    <3>1. audioTrackPlayer = 0
      <4>1. decodeTasks \in Seq(DecodeTask) /\ decodeTasks # <<>>
            /\ Head(decodeTasks).kind = "open"
        BY <2>1 DEF OpenFile, FirstDecode, IInv, Typed, TasksTyped
      <4>2. 1 \in DOMAIN decodeTasks /\ Head(decodeTasks) = decodeTasks[1]
        BY <4>1, HeadTailProperties, EmptySeq
      <4>3. opening = "wait"
        BY <4>1, <4>2 DEF IInv, OpenIsLast
      <4> QED
        BY <4>3 DEF IInv, TrackOfFile
    <3> QED
      BY <1>2, <2>1, <3>1 DEF OpenFile
  <2>2. CASE Reset
    <3>1. /\ decodeTasks \in Seq(DecodeTask) /\ decodeTasks # <<>>
          /\ Head(decodeTasks).kind = "reset"
      BY <2>2 DEF Reset, FirstDecode, IInv, Typed, TasksTyped
    <3>2. 1 \in DOMAIN decodeTasks /\ Head(decodeTasks) = decodeTasks[1]
      BY <3>1, HeadTailProperties, EmptySeq
    <3>3. audioTrackPlayer # 0 => ~ready
      BY <3>1, <3>2 DEF OneReset
    <3>4. /\ UNCHANGED <<audioTrackPlayer, mute, early, marker, late, uiTasks>>
          /\ usedPlayerBuffers' = <<>> /\ fresh' = FALSE
      BY <2>2 DEF Reset, TakeBack
    <3>5. ToSet(usedPlayerBuffers') = {}
      BY <3>4 DEF ToSet
    <3>6. audioTrackPlayer # 0 /\ ~mute =>
              DecodedEnds' /\ HeldEnds' /\ NewsEnds' /\ MarkerEnds'
      BY <3>3, <3>4, <3>5
         DEF EndKnown, DecodedEnds, HeldEnds, NewsEnds, MarkerEnds, Over
    <3> QED
      BY <3>4, <3>6 DEF EndKnown, EndsAtTheEnd
  <2>3. CASE SeekFile
    <3>1. /\ UNCHANGED <<audioTrackPlayer, early, marker, late>>
          /\ mute' = (mute \/ decodingFinished)
          /\ uiTasks' = Append(uiTasks, SoughtTask)
          /\ usedPlayerBuffers' = <<>> /\ fresh' = FALSE
      BY <2>3 DEF SeekFile, TakeBack
    <3>2. /\ ToSet(usedPlayerBuffers') = {}
          /\ ToSet(uiTasks') = ToSet(uiTasks) \cup {SoughtTask} /\ ~OfTheEnd(SoughtTask)
      BY <1>1, <3>1, UiKinds, ToSetOfAppend DEF ToSet, OfTheEnd
    <3>3. audioTrackPlayer # 0 /\ ~mute' =>
              DecodedEnds' /\ HeldEnds' /\ NewsEnds' /\ MarkerEnds'
      BY <3>1, <3>2 DEF EndKnown, DecodedEnds, HeldEnds, NewsEnds, MarkerEnds, Over
    <3> QED
      BY <3>1, <3>3 DEF EndKnown, EndsAtTheEnd
  <2>4. CASE DecodeCheck \/ DecodeFull
    BY <1>3, <2>4 DEF DecodeCheck, DecodeFull, file, buffers
  <2>5. CASE DecodeNothing
    <3>1. /\ UNCHANGED <<audioTrackPlayer, early, marker, late, uiTasks, held, fresh,
                         usedPlayerBuffers, exact, given, ready>>
          /\ mute' = (mute \/ ~decodingFinished) /\ decodingFinished' = TRUE
      BY <2>5 DEF DecodeNothing, buffers
    <3>2. audioTrackPlayer # 0 /\ ~mute' =>
              DecodedEnds' /\ HeldEnds' /\ NewsEnds' /\ MarkerEnds'
      BY <3>1 DEF EndKnown, DecodedEnds, HeldEnds, NewsEnds, MarkerEnds, Over, LastPart
    <3> QED
      BY <3>1, <3>2 DEF EndKnown, EndsAtTheEnd
  <2>6. CASE DecodePart
    <3> DEFINE b == [play |-> opened, part |-> position, finished |-> finished']
    <3>1. /\ finished' = (position = LastPart) /\ Fill(b)
          /\ freePlayerBuffers > 0 /\ position <= Length
      BY <2>6 DEF DecodePart
    <3>2. b \in Buffer /\ b.part = position /\ b.finished = finished'
      BY <3>1, PlayerAssumption DEF Buffer, IInv, Typed, FileTyped
    <3> HIDE DEF b
    <3>3. /\ UNCHANGED <<audioTrackPlayer, mute, early, marker, late, uiTasks, held, fresh,
                         exact, given, ready>>
          /\ usedPlayerBuffers' = Append(usedPlayerBuffers, b)
          /\ decodingFinished' = (decodingFinished \/ b.finished)
      BY <3>1 DEF Fill
    <3>4. ToSet(usedPlayerBuffers') = ToSet(usedPlayerBuffers) \cup {b}
      BY <1>1, <3>2, <3>3, ToSetOfAppend
    <3>5. LastPart' = LastPart /\ (b.finished => b.part = LastPart)
      BY <3>1, <3>2, <3>3 DEF LastPart
    <3>6. audioTrackPlayer # 0 /\ ~mute =>
              DecodedEnds' /\ HeldEnds' /\ NewsEnds' /\ MarkerEnds'
      BY <3>3, <3>4, <3>5 DEF EndKnown, DecodedEnds, HeldEnds, NewsEnds, MarkerEnds, Over
    <3> QED
      BY <3>3, <3>6 DEF EndKnown, EndsAtTheEnd
  <2>7. CASE DecodeSilence
    <3>1. audioTrackPlayer = 0
      <4>1. opened = 0
        BY <2>7 DEF DecodeSilence
      <4> QED
        BY <4>1 DEF IInv, TrackOfFile
    <3> QED
      BY <1>2, <2>7, <3>1 DEF DecodeSilence, Fill
  <2> QED
    BY <1>9, <2>1, <2>2, <2>3, <2>4, <2>5, <2>6, <2>7 DEF FileDecodingQueue
<1>10. CASE UNCHANGED vars
  BY <1>3, <1>10 DEF vars, main, track, writer, file, buffers, faults
<1> QED
  BY <1>5, <1>6, <1>7, <1>8, <1>9, <1>10 DEF Next

\* Every reachable state is well typed, and no buffer is lost or doubled between
\* the decoder's queue and the player's.
THEOREM Typing == Spec => []TypeOK
<1>1. IInv => TypeOK
  BY TypedIsTypeOK DEF IInv
<1> QED
  BY <1>1, Invariance, PTL

\* A message that its own news ends has been given to the track up to the part that
\* says that it is the last, unless no buffer could say so.
LEMMA NotBeforeTheEnd == Spec => []EndsAtTheEnd
<1>1. IInv /\ NewsOfThePast /\ OneReset /\ EndKnown /\ EndsAtTheEnd /\ [Next]_vars
          => EndKnown' /\ EndsAtTheEnd'
  BY EndNext
<1>2. Spec => []NewsOfThePast /\ []OneReset
  BY Invariance, EndInit, NewsNext, ResetNext, PTL DEF Spec
<1> QED
  BY <1>1, <1>2, Invariance, EndInit, PTL DEF Spec

\* However long the messages and however many calls: a buffer that was taken after
\* the buffers were given back and is given to the track is the next part of the
\* track's own message; a message is ended by no news of another one, unless by
\* that of a buffer taken before or that was on its way when the message changed;
\* and by its own news only after its last part was given.  This says what the track
\* is given, not what it takes of it: see the next theorem.
THEOREM PlaysTheMessage == Spec => []PlayedAsItIs
<1>1. IInv /\ EndsAtTheEnd => PlayedAsItIs
  BY DEF IInv, OwnSound, EndsAtTheEnd, PlayedAsItIs
<1> QED
  BY <1>1, NotBeforeTheEnd, Invariance, PTL

\* However many tasks of the two queues a pause or a seek meets, the write of one
\* buffer at most falls short for each of them.
THEOREM APauseCostsOnePart == Spec => []PausesCostOnePart
<1>1. IInv /\ CostInv => PausesCostOnePart
  <2> SUFFICES ASSUME IInv, CostInv PROVE PausesCostOnePart
    OBVIOUS
  <2>1. lost \in Nat /\ pauses \in Nat /\ seeks \in Nat
    BY PlayerAssumption DEF IInv, Typed, GivenTyped, CallsTyped
  <2>2. PICK r \in {0, 1} : r = AtRisk
    BY DEF AtRisk
  <2>3. lost + r <= pauses + seeks
    BY <2>2 DEF CostInv
  <2> QED
    BY <2>1, <2>3 DEF PausesCostOnePart
<1>2. Spec => []CostInv
  BY Invariance, CostInit, CostNext, PTL DEF Spec
<1> QED
  BY <1>1, <1>2, Invariance, PTL

===============================================================================
