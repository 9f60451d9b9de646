-------------------------- MODULE VoiceRecorderProofs --------------------------
(***************************************************************************)
(* The safety properties of VoiceRecorder for every number of recordings,  *)
(* stops and chunks.                                                       *)
(*                                                                         *)
(* The inductive invariant says what holds as long as no recording is      *)
(* overtaken (the tasks of the encoder are about the one recording whose   *)
(* chat is kept, and a close is the last of them) and what holds as long   *)
(* as no start is crossed (recordStartRunnable is the only start that is   *)
(* pending). Both need that a start which waits has left no trace yet.     *)
(***************************************************************************)
EXTENDS VoiceRecorder, ListLemmas

\* The start of r waits for its delay or for its turn.
Pending(r) == r \in delayed \/ StartTask(r) \in ToSet(recordTasks)

\* Nothing has been done for r, and nothing is going to be said of it.
Untouched(r) ==
    /\ chunks[r] = 0 /\ r \notin wrong
    /\ r \notin {audioRecorder, recordDialogId}
    /\ \A t \in ToSet(encodeTasks) : t.recording # r
    /\ \A t \in ToSet(uiTasks) : t.recording # r

\* Every start is posted once, and runs once.
StartsOnce ==
    /\ \A r \in Recordings :
           /\ OnceIn(recordTasks, StartTask(r))
           /\ Pending(r) => r <= starts
           /\ ~ (r \in delayed /\ StartTask(r) \in ToSet(recordTasks))
           /\ Pending(r) \/ r > starts => Untouched(r)

\* recordingAudio is the recorder's recording, or the file was not opened.
OneRunning ==
    /\ audioRecorder # 0 => recordingAudio = audioRecorder
    /\ recordingAudio # 0 => audioRecorder = recordingAudio \/ recordingAudio \in unopened

HasClose == \E t \in ToSet(encodeTasks) : t.kind = "close"

\* The chunks that are not written yet.
Unwritten == IF HasClose THEN Len(encodeTasks) - 1 ELSE Len(encodeTasks)

\* The encoder's tasks are about its own recording, which is the kept one; the
\* last of them closes it.
EncodesTheKept ==
    /\ audioRecorder # 0 => audioRecorder \in {encoder} \cap {recordDialogId} /\ ~HasClose
    /\ \A t \in ToSet(encodeTasks) : t.recording \in {encoder} \cap {recordDialogId}
    /\ \A i \in DOMAIN encodeTasks : encodeTasks[i].kind = "close" => i = Len(encodeTasks)

\* The duration and the samples are the kept recording's, and it is handed over
\* when nothing of it is left to write.
CountsTheKept ==
    /\ recordDialogId # 0 =>
           /\ recordTimeCount + Unwritten = chunks[recordDialogId]
           /\ chunks[recordDialogId] > 0 => recordSamples = recordDialogId
    /\ SentTask(recordDialogId) \in ToSet(uiTasks) =>
           encodeTasks = <<>> /\ audioRecorder # recordDialogId
    /\ recordDialogId \notin wrong

UnlessOvertaken ==
    ~overtaken => ~crashed /\ mixed = {} /\ EncodesTheKept /\ CountsTheKept

\* recordStartRunnable is the start that is pending, and after a stop none is.
UnlessCrossed ==
    /\ ~wanted => recordStartRunnable = 0
    /\ ~crossed => \A r \in Recordings : Pending(r) => r = recordStartRunnable
    /\ ~crossed /\ ~wanted /\ ~PendingStop => ~recording

IInv ==
    TypeOK /\ StartsOnce /\ OneRunning /\ UnlessOvertaken /\ UnlessCrossed

-----------------------------------------------------------------------------
(* The tasks.                                                              *)

EncodeTask == [kind : {"write", "close"}, recording : Recordings]
UiTask     == [kind : {"started", "sent"}, recording : Recordings]

LEMMA NoneIsNoRecording == 0 \notin Recordings
BY DEF Recordings

LEMMA TaskKinds ==
    /\ \A t \in RecordTask :
           /\ t.kind = "start" => t.recording \in Recordings /\ t = StartTask(t.recording)
           /\ t.kind = "stop" => t.send \in Sends
    /\ \A r \in Recordings :
           /\ StartTask(r) \in RecordTask
           /\ StartTask(r).kind = "start" /\ StartTask(r).recording = r
    /\ ReadTask \in RecordTask /\ ReadTask.kind = "read"
    /\ \A send \in Sends :
           /\ StopTask(send) \in RecordTask
           /\ StopTask(send).kind = "stop" /\ StopTask(send).send = send
BY DEF RecordTask, StartTask, ReadTask, StopTask

LEMMA EncodeKinds ==
    /\ \A t \in EncodeTask : t.recording \in Recordings /\ t.kind \in {"write", "close"}
    /\ \A r \in Recordings :
           /\ WriteTask(r) \in EncodeTask /\ CloseTask(r) \in EncodeTask
           /\ WriteTask(r).kind = "write" /\ WriteTask(r).recording = r
           /\ CloseTask(r).kind = "close" /\ CloseTask(r).recording = r
BY DEF EncodeTask, WriteTask, CloseTask

LEMMA UiKinds ==
    /\ \A t \in UiTask :
           /\ t.recording \in Recordings
           /\ t.kind = "started" => t = StartedTask(t.recording)
           /\ t.kind = "sent" => t = SentTask(t.recording)
    /\ \A r \in Recordings :
           /\ StartedTask(r) \in UiTask /\ SentTask(r) \in UiTask
           /\ StartedTask(r).recording = r /\ SentTask(r).recording = r
    /\ \A r, q \in OrNone(Recordings) :
           StartedTask(r) # SentTask(q) /\ (SentTask(r) = SentTask(q) => r = q)
BY DEF UiTask, StartedTask, SentTask, OrNone

\* The head of recordQueue is taken.
LEMMA NextRecordTask ==
    ASSUME recordTasks \in Seq(RecordTask), recordTasks # <<>>, StartsOnce
    PROVE  /\ Head(recordTasks) \in RecordTask
           /\ Tail(recordTasks) \in Seq(RecordTask)
           /\ ToSet(recordTasks) = {Head(recordTasks)} \cup ToSet(Tail(recordTasks))
           /\ \A r \in Recordings :
                  /\ OnceIn(Tail(recordTasks), StartTask(r))
                  /\ Head(recordTasks) = StartTask(r) =>
                         StartTask(r) \notin ToSet(Tail(recordTasks))
<1>1. \A r \in Recordings : OnceIn(recordTasks, StartTask(r))
  BY DEF StartsOnce
<1>2. ASSUME NEW r \in Recordings
      PROVE  /\ OnceIn(Tail(recordTasks), StartTask(r))
             /\ Head(recordTasks) = StartTask(r) =>
                    StartTask(r) \notin ToSet(Tail(recordTasks))
  BY <1>1, OnceInTail
<1> QED
  BY <1>2, ToSetOfTail

\* The list of recordQueue after an append of something that is no start.
LEMMA AppendNoStart ==
    ASSUME NEW s \in Seq(RecordTask), NEW t \in RecordTask, t.kind # "start",
           \A r \in Recordings : OnceIn(s, StartTask(r))
    PROVE  /\ Append(s, t) \in Seq(RecordTask)
           /\ ToSet(Append(s, t)) = ToSet(s) \cup {t}
           /\ \A r \in Recordings : OnceIn(Append(s, t), StartTask(r))
<1>1. ASSUME NEW r \in Recordings PROVE OnceIn(Append(s, t), StartTask(r))
  <2>1. t # StartTask(r)
    BY TaskKinds
  <2> QED
    BY <2>1, OnceAfterAppend
<1> QED
  BY <1>1, ToSetOfAppend

LEMMA InitInv == Init => IInv
<1> SUFFICES ASSUME Init PROVE IInv
  OBVIOUS
<1>1. ToSet(<<>>) = {} /\ DOMAIN <<>> = {}
  BY DEF ToSet
<1>2. TypeOK
  <2>1. /\ starts \in 0..MaxStarts /\ stops \in 0..MaxStops
        /\ chunks \in [Recordings -> 0..MaxChunks]
    BY RecorderAssumption DEF Init
  <2>2. /\ recordTasks \in Seq(RecordTask)
        /\ encodeTasks \in Seq([kind : {"write", "close"}, recording : Recordings])
        /\ uiTasks \in Seq([kind : {"started", "sent"}, recording : Recordings])
    BY DEF Init
  <2> QED
    BY <2>1, <2>2 DEF Init, TypeOK, OrNone, Sends
<1>3. StartsOnce
  BY <1>1 DEF Init, StartsOnce, Pending, Untouched, OnceIn, Recordings
<1>4. OneRunning /\ UnlessOvertaken /\ UnlessCrossed
  BY <1>1 DEF Init, OneRunning, UnlessOvertaken, UnlessCrossed, EncodesTheKept,
              CountsTheKept, HasClose, Pending
<1> QED
  BY <1>2, <1>3, <1>4 DEF IInv

LEMMA StartRecordingInv == IInv /\ StartRecording => IInv'
<1> SUFFICES ASSUME IInv, StartRecording PROVE IInv'
  OBVIOUS
<1> USE DEF IInv, StartRecording, fields, counts
<1>1. starts + 1 \in Recordings
  BY RecorderAssumption DEF TypeOK, Recordings
<1>2. TypeOK'
  BY <1>1, RecorderAssumption DEF TypeOK, OrNone, Recordings
<1>3. StartsOnce'
  BY <1>1, RecorderAssumption DEF TypeOK, StartsOnce, Pending, Untouched, Recordings
<1>4. OneRunning' /\ UnlessOvertaken'
  BY DEF OneRunning, UnlessOvertaken, EncodesTheKept, CountsTheKept, HasClose, Unwritten
<1>5. UnlessCrossed'
  BY <1>1, NoneIsNoRecording DEF UnlessCrossed, Pending
<1> QED
  BY <1>2, <1>3, <1>4, <1>5

LEMMA StopRecordingInv ==
    ASSUME IInv, NEW send \in Sends, StopRecording(send)
    PROVE  IInv'
<1> USE DEF IInv, StopRecording, fields, counts
<1> DEFINE t == RemoveFirst(recordTasks, StartTask(recordStartRunnable))
<1>1. /\ t \in Seq(RecordTask)
      /\ ToSet(t) \subseteq ToSet(recordTasks) \ {StartTask(recordStartRunnable)}
      /\ \A r \in Recordings : OnceIn(t, StartTask(r))
  <2>1. OnceIn(recordTasks, StartTask(recordStartRunnable))
    <3>1. CASE recordStartRunnable \in Recordings
      BY <3>1 DEF StartsOnce
    <3>2. CASE recordStartRunnable = 0
      <4>1. StartTask(0) \notin RecordTask
        BY NoneIsNoRecording DEF StartTask, RecordTask, ReadTask
      <4>2. \A i \in DOMAIN recordTasks : recordTasks[i] \in RecordTask
        BY DEF TypeOK
      <4> QED
        BY <3>2, <4>1, <4>2 DEF OnceIn
    <3> QED
      BY <3>1, <3>2 DEF TypeOK, OrNone
  <2> QED
    BY <2>1, OnceAfterRemove DEF TypeOK, StartsOnce
<1>2. /\ recordTasks' \in Seq(RecordTask)
      /\ ToSet(recordTasks') = ToSet(t) \cup {StopTask(send)}
      /\ \A r \in Recordings : OnceIn(recordTasks', StartTask(r))
  <2> HIDE DEF t
  <2>1. recordTasks' = Append(t, StopTask(send))
    BY DEF t
  <2> QED
    BY <1>1, <2>1, TaskKinds, AppendNoStart
<1> HIDE DEF t
<1>3. \A r \in Recordings : Pending(r)' => Pending(r) /\ r # recordStartRunnable
  BY <1>1, <1>2, TaskKinds DEF Pending
<1>4. TypeOK'
  <2>1. stops' \in 0..MaxStops
    BY RecorderAssumption DEF TypeOK
  <2> QED
    BY <1>2, <2>1 DEF TypeOK, OrNone
<1>5. StartsOnce'
  <2>1. \A r \in Recordings : Untouched(r) => Untouched(r)'
    BY DEF Untouched
  <2>2. \A r \in Recordings :
            StartTask(r) \in ToSet(recordTasks') => StartTask(r) \in ToSet(recordTasks)
    BY <1>1, <1>2, TaskKinds
  <2> QED
    BY <1>2, <1>3, <2>1, <2>2 DEF StartsOnce
<1>6. OneRunning' /\ UnlessOvertaken'
  BY DEF OneRunning, UnlessOvertaken, EncodesTheKept, CountsTheKept, HasClose, Unwritten
<1>7. UnlessCrossed'
  BY <1>2, <1>3, TaskKinds DEF UnlessCrossed, PendingStop
<1> QED
  BY <1>4, <1>5, <1>6, <1>7

LEMMA StartedInv == IInv /\ Started => IInv'
<1> SUFFICES ASSUME IInv, Started PROVE IInv'
  OBVIOUS
<1> USE DEF IInv, Started, fields, counts, calls
<1> DEFINE t == Head(uiTasks)
<1>1. /\ t \in UiTask /\ uiTasks' \in Seq(UiTask) /\ t.recording \in Recordings
      /\ ToSet(uiTasks) = {t} \cup ToSet(uiTasks')
  BY ToSetOfTail, UiKinds DEF TypeOK, FirstUi, UiTask
<1> HIDE DEF t
<1>2. TypeOK'
  BY <1>1 DEF TypeOK, OrNone, UiTask
<1>3. StartsOnce'
  <2>1. \A r \in Recordings : Untouched(r) => Untouched(r)'
    BY <1>1 DEF Untouched
  <2> QED
    BY <2>1 DEF StartsOnce, Pending
<1>4. OneRunning' /\ UnlessOvertaken'
  BY <1>1 DEF OneRunning, UnlessOvertaken, EncodesTheKept, CountsTheKept, HasClose, Unwritten
<1>5. UnlessCrossed'
  <2>1. ~Pending(t.recording)
    BY <1>1 DEF StartsOnce, Untouched
  <2> QED
    BY <1>1, <2>1 DEF UnlessCrossed, Pending, PendingStop, t
<1> QED
  BY <1>2, <1>3, <1>4, <1>5

LEMMA SentInv == IInv /\ Sent => IInv'
<1> SUFFICES ASSUME IInv, Sent PROVE IInv'
  OBVIOUS
<1> USE DEF IInv, Sent, fields, counts, calls
<1> DEFINE t == Head(uiTasks)
<1>1. /\ t \in UiTask /\ uiTasks' \in Seq(UiTask) /\ t.recording \in Recordings
      /\ ToSet(uiTasks) = {t} \cup ToSet(uiTasks')
      /\ t = SentTask(t.recording)
  BY ToSetOfTail, UiKinds DEF TypeOK, FirstUi, UiTask
<1>2. /\ wrong' \subseteq wrong \cup {t.recording}
      /\ t.recording \in wrong' \ wrong =>
             \/ recordTimeCount # chunks[t.recording]
             \/ chunks[t.recording] > 0 /\ recordSamples # t.recording
  OBVIOUS
<1>3. uiTasks' = Tail(uiTasks) /\ UNCHANGED <<recordStartRunnable, delayed, recordTasks,
          encodeTasks, fields, encoder, counts, calls, crashed, crossed, overtaken, mixed,
          recordDialogId, unopened>>
  OBVIOUS
<1> HIDE DEF t, Sent
<1>4. TypeOK'
  <2>1. wrong' \subseteq Recordings
    <3>1. wrong \subseteq Recordings
      BY DEF TypeOK
    <3> QED
      BY <1>1, <1>2, <3>1
  <2> QED
    BY <1>1, <1>3, <2>1 DEF TypeOK, UiTask
<1>5. StartsOnce'
  <2>1. \A r \in Recordings : Untouched(r) => Untouched(r)'
    BY <1>1, <1>2, <1>3 DEF Untouched
  <2> QED
    BY <1>3, <2>1 DEF StartsOnce, Pending
<1>6. UnlessOvertaken'
  <2> SUFFICES ASSUME ~overtaken PROVE UnlessOvertaken'
    BY <1>3 DEF UnlessOvertaken
  <2>1. EncodesTheKept'
    BY <1>3 DEF UnlessOvertaken, EncodesTheKept, HasClose
  <2>2. recordDialogId \notin wrong'
    <3>1. CASE t.recording = recordDialogId
      <4>1. encodeTasks = <<>> /\ recordDialogId \in Recordings
        BY <1>1, <3>1 DEF UnlessOvertaken, CountsTheKept
      <4>2. Unwritten = 0
        BY <4>1 DEF Unwritten, HasClose, ToSet
      <4>3. recordTimeCount = chunks[recordDialogId]
        BY <4>1, <4>2, NoneIsNoRecording DEF UnlessOvertaken, CountsTheKept, TypeOK
      <4> QED
        BY <1>2, <3>1, <4>1, <4>3, NoneIsNoRecording DEF UnlessOvertaken, CountsTheKept
    <3>2. CASE t.recording # recordDialogId
      BY <1>2, <3>2 DEF UnlessOvertaken, CountsTheKept
    <3> QED
      BY <3>1, <3>2
  <2>3. CountsTheKept'
    BY <1>1, <1>3, <2>2 DEF UnlessOvertaken, CountsTheKept, Unwritten, HasClose
  <2> QED
    BY <1>3, <2>1, <2>3 DEF UnlessOvertaken
<1>7. OneRunning' /\ UnlessCrossed'
  BY <1>3 DEF OneRunning, UnlessCrossed, Pending, PendingStop
<1> QED
  BY <1>4, <1>5, <1>6, <1>7

LEMMA DueInv ==
    ASSUME IInv, NEW d \in Recordings, Due(d)
    PROVE  IInv'
<1> USE DEF IInv, Due, fields, counts, calls
<1>1. /\ recordTasks' \in Seq(RecordTask)
      /\ ToSet(recordTasks') = ToSet(recordTasks) \cup {StartTask(d)}
  BY TaskKinds, ToSetOfAppend DEF TypeOK
<1>2. \A r \in Recordings :
          /\ StartTask(r) \in ToSet(recordTasks') =>
                 StartTask(r) \in ToSet(recordTasks) \/ r = d
          /\ OnceIn(recordTasks', StartTask(r))
  <2> SUFFICES ASSUME NEW r \in Recordings
               PROVE  /\ StartTask(r) \in ToSet(recordTasks') =>
                             StartTask(r) \in ToSet(recordTasks) \/ r = d
                      /\ OnceIn(recordTasks', StartTask(r))
    OBVIOUS
  <2>1. StartTask(d) = StartTask(r) => r = d
    BY TaskKinds
  <2>2. StartTask(d) \in RecordTask /\ OnceIn(recordTasks, StartTask(r))
    BY TaskKinds DEF StartsOnce
  <2>3. StartTask(d) = StartTask(r) => StartTask(r) \notin ToSet(recordTasks)
    BY <2>1 DEF StartsOnce
  <2> QED
    BY <1>1, <2>1, <2>2, <2>3, OnceAfterAppend DEF TypeOK
<1>3. TypeOK'
  BY <1>1 DEF TypeOK, OrNone
<1>4. \A r \in Recordings : Pending(r)' => Pending(r)
  BY <1>2 DEF Pending
<1>5. StartsOnce'
  <2>1. \A r \in Recordings : Untouched(r) => Untouched(r)'
    BY DEF Untouched
  <2> QED
    BY <1>2, <1>4, <2>1 DEF StartsOnce
<1>6. OneRunning' /\ UnlessOvertaken'
  BY DEF OneRunning, UnlessOvertaken, EncodesTheKept, CountsTheKept, HasClose, Unwritten
<1>7. UnlessCrossed'
  BY <1>1, <1>4 DEF UnlessCrossed, PendingStop
<1> QED
  BY <1>3, <1>5, <1>6, <1>7

-----------------------------------------------------------------------------
(* A start has its turn.                                                   *)

\* Whatever comes of it, the start of r does not wait any more, and this is told
\* to the main thread.
TakesStart(r) ==
    /\ r \in Recordings /\ Pending(r) /\ Untouched(r) /\ r <= starts
    /\ recordTasks' \in Seq(RecordTask) /\ uiTasks' \in Seq(UiTask)
    /\ ToSet(uiTasks') = ToSet(uiTasks) \cup {StartedTask(r)}
    /\ \A q \in OrNone(Recordings) :
           SentTask(q) \in ToSet(uiTasks') => SentTask(q) \in ToSet(uiTasks)
    /\ \A q \in Recordings :
           /\ OnceIn(recordTasks', StartTask(q))
           /\ Pending(q)' => Pending(q) /\ q # r
           /\ ~ (q \in delayed' /\ StartTask(q) \in ToSet(recordTasks'))
    /\ PendingStop => PendingStop'

LEMMA StartIsTaken ==
    ASSUME IInv, FirstTask("start"), StartFrame, NEW r, r = Head(recordTasks).recording,
           recordTasks' \in {Tail(recordTasks), Append(Tail(recordTasks), ReadTask)}
    PROVE  TakesStart(r)
<1> USE DEF IInv, FirstTask
<1> DEFINE s == Tail(recordTasks)
<1>1. /\ s \in Seq(RecordTask)
      /\ ToSet(recordTasks) = {StartTask(r)} \cup ToSet(s)
      /\ \A q \in Recordings : OnceIn(s, StartTask(q))
      /\ StartTask(r) \notin ToSet(s)
      /\ r \in Recordings
  BY NextRecordTask, TaskKinds DEF TypeOK
<1> HIDE DEF s
<1>2. /\ recordTasks' \in Seq(RecordTask)
      /\ ToSet(s) \subseteq ToSet(recordTasks')
      /\ ToSet(recordTasks') \subseteq ToSet(s) \cup {ReadTask}
      /\ \A q \in Recordings : OnceIn(recordTasks', StartTask(q))
  <2>1. recordTasks' = s \/ recordTasks' = Append(s, ReadTask)
    BY DEF s
  <2>2. CASE recordTasks' = s
    BY <1>1, <2>2
  <2>3. CASE recordTasks' = Append(s, ReadTask)
    <3>1. ReadTask \in RecordTask /\ ReadTask.kind # "start"
      BY TaskKinds
    <3> QED
      BY <1>1, <2>3, <3>1, AppendNoStart
  <2> QED
    BY <2>1, <2>2, <2>3
<1>3. \A q \in Recordings :
          StartTask(q) \in ToSet(recordTasks') => StartTask(q) \in ToSet(s) /\ q # r
  BY <1>1, <1>2, TaskKinds
<1>4. r \notin delayed /\ Pending(r) /\ Untouched(r) /\ r <= starts
  BY <1>1 DEF StartsOnce, Pending
<1>5. \A q \in Recordings : Pending(q)' => Pending(q) /\ q # r
  BY <1>1, <1>3, <1>4 DEF Pending, StartFrame
<1>6. \A q \in Recordings : ~ (q \in delayed' /\ StartTask(q) \in ToSet(recordTasks'))
  BY <1>1, <1>3 DEF StartsOnce, StartFrame
<1>7. PendingStop => PendingStop'
  BY <1>1, <1>2, TaskKinds DEF PendingStop
<1>8. /\ uiTasks' \in Seq(UiTask)
      /\ ToSet(uiTasks') = ToSet(uiTasks) \cup {StartedTask(r)}
  <2>1. StartedTask(r) \in UiTask /\ uiTasks \in Seq(UiTask)
    BY <1>1, UiKinds DEF TypeOK, UiTask
  <2>2. uiTasks' = Append(uiTasks, StartedTask(r))
    BY DEF StartFrame
  <2> QED
    BY <2>1, <2>2, ToSetOfAppend
<1>9. \A q \in OrNone(Recordings) :
          SentTask(q) \in ToSet(uiTasks') => SentTask(q) \in ToSet(uiTasks)
  BY <1>1, <1>8, UiKinds DEF OrNone
<1> QED
  BY <1>1, <1>2, <1>4, <1>5, <1>6, <1>7, <1>8, <1>9 DEF TakesStart

LEMMA StartRefusedInv == IInv /\ StartRefused => IInv'
<1> SUFFICES ASSUME IInv, StartRefused PROVE IInv'
  OBVIOUS
<1> DEFINE r == Head(recordTasks).recording
<1>1. TakesStart(r)
  BY StartIsTaken DEF StartRefused
<1> HIDE DEF r
<1>2. UNCHANGED <<recordStartRunnable, delayed, encodeTasks, counts, calls, crashed, crossed,
                  wrong, fields, encoder, overtaken, mixed, recordDialogId, unopened>>
  BY DEF StartRefused, StartFrame, counts
<1> USE DEF IInv, TakesStart, fields, counts, calls
<1>3. TypeOK'
  BY <1>1, <1>2 DEF TypeOK, UiTask
<1>4. StartsOnce'
  <2>1. \A q \in Recordings : Untouched(q) /\ q # r => Untouched(q)'
    BY <1>1, <1>2, UiKinds DEF Untouched
  <2>2. \A q \in Recordings : q > starts => q # r
    BY <1>1, RecorderAssumption DEF Recordings, TypeOK
  <2> QED
    BY <1>1, <1>2, <2>1, <2>2 DEF StartsOnce
<1>5. OneRunning' /\ UnlessOvertaken'
  <2>1. SentTask(recordDialogId) \in ToSet(uiTasks') => SentTask(recordDialogId) \in ToSet(uiTasks)
    BY <1>1 DEF TypeOK
  <2> QED
    BY <1>2, <2>1
       DEF OneRunning, UnlessOvertaken, EncodesTheKept, CountsTheKept, HasClose, Unwritten
<1>6. UnlessCrossed'
  BY <1>1, <1>2 DEF UnlessCrossed
<1> QED
  BY <1>3, <1>4, <1>5, <1>6

\* An encoder that is opened when nothing waits for the last one overtakes
\* nothing.
LEMMA OpenKeeps ==
    ASSUME IInv, NEW r, NEW e, Open(r, e), ~overtaken'
    PROVE  ~overtaken /\ encodeTasks = <<>> /\ mixed' = {} /\ encoder' = e
BY DEF IInv, UnlessOvertaken, Open

LEMMA StartUnopenedInv == IInv /\ StartUnopened => IInv'
<1> SUFFICES ASSUME IInv, StartUnopened PROVE IInv'
  OBVIOUS
<1> DEFINE r == Head(recordTasks).recording
<1>1. TakesStart(r)
  BY StartIsTaken DEF StartUnopened
<1>2. /\ Open(r, 0) /\ recordingAudio' = r /\ unopened' = unopened \cup {r}
      /\ audioRecorder = 0
      /\ UNCHANGED <<recordStartRunnable, delayed, encodeTasks, counts, calls, crashed,
                     crossed, wrong, audioRecorder, recording, sendAfterDone, recordDialogId>>
  BY DEF StartUnopened, StartFrame, counts
<1> HIDE DEF r
<1> USE DEF IInv, TakesStart, counts, calls
<1>3. TypeOK'
  <2>1. encoder' \in OrNone(Recordings) /\ overtaken' \in BOOLEAN /\ mixed' \subseteq Recordings
    BY <1>2 DEF Open, TypeOK, OrNone
  <2> QED
    BY <1>1, <1>2, <2>1 DEF TypeOK, UiTask, OrNone
<1>4. StartsOnce'
  <2>1. \A q \in Recordings : Untouched(q) /\ q # r => Untouched(q)'
    BY <1>1, <1>2, UiKinds DEF Untouched
  <2>2. \A q \in Recordings : q > starts => q # r
    BY <1>1, RecorderAssumption DEF Recordings, TypeOK
  <2> QED
    BY <1>1, <1>2, <2>1, <2>2 DEF StartsOnce
<1>5. UnlessOvertaken'
  <2> SUFFICES ASSUME ~overtaken'
               PROVE  ~crashed' /\ mixed' = {} /\ EncodesTheKept' /\ CountsTheKept'
    BY DEF UnlessOvertaken
  <2>1. ~overtaken /\ encodeTasks = <<>> /\ mixed' = {}
    BY <1>2, OpenKeeps
  <2>2. ToSet(encodeTasks') = {} /\ DOMAIN encodeTasks' = {}
    BY <1>2, <2>1 DEF ToSet
  <2>3. EncodesTheKept'
    BY <1>2, <2>2 DEF EncodesTheKept
  <2>4. CountsTheKept'
    <3>1. SentTask(recordDialogId) \in ToSet(uiTasks') =>
              SentTask(recordDialogId) \in ToSet(uiTasks)
      BY <1>1 DEF TypeOK
    <3> QED
      BY <1>2, <2>1, <3>1 DEF UnlessOvertaken, CountsTheKept, HasClose, Unwritten
  <2> QED
    BY <1>2, <2>1, <2>3, <2>4 DEF UnlessOvertaken
<1>6. OneRunning' /\ UnlessCrossed'
  BY <1>1, <1>2 DEF OneRunning, UnlessCrossed
<1> QED
  BY <1>3, <1>4, <1>5, <1>6

LEMMA StartFailedInv == IInv /\ StartFailed => IInv'
<1> SUFFICES ASSUME IInv, StartFailed PROVE IInv'
  OBVIOUS
<1> DEFINE r == Head(recordTasks).recording
<1>1. TakesStart(r)
  BY StartIsTaken DEF StartFailed
<1>2. /\ Open(r, 0) /\ recordingAudio' = 0 /\ audioRecorder = 0
      /\ \/ recordDialogId' = r /\ recordTimeCount' = 0
         \/ UNCHANGED <<recordDialogId, recordTimeCount>>
      /\ UNCHANGED <<recordStartRunnable, delayed, encodeTasks, recordSamples, chunks, calls,
                     crashed, crossed, wrong, audioRecorder, recording, sendAfterDone,
                     unopened>>
  BY DEF StartFailed, StartFrame
<1> HIDE DEF r
<1> USE DEF IInv, TakesStart, calls
<1>3. TypeOK'
  <2>1. encoder' \in OrNone(Recordings) /\ overtaken' \in BOOLEAN /\ mixed' \subseteq Recordings
    BY <1>2 DEF Open, TypeOK, OrNone
  <2>2. recordDialogId' \in OrNone(Recordings) /\ recordTimeCount' \in Nat
    <3>1. recordDialogId \in OrNone(Recordings) /\ recordTimeCount \in Nat /\ r \in Recordings
      BY <1>1 DEF TypeOK
    <3> QED
      BY <1>2, <3>1 DEF OrNone
  <2> QED
    BY <1>1, <1>2, <2>1, <2>2 DEF TypeOK, UiTask, OrNone
<1>4. StartsOnce'
  <2>1. \A q \in Recordings : Untouched(q) /\ q # r => Untouched(q)'
    BY <1>1, <1>2, UiKinds DEF Untouched
  <2>2. \A q \in Recordings : q > starts => q # r
    BY <1>1, RecorderAssumption DEF Recordings, TypeOK
  <2> QED
    BY <1>1, <1>2, <2>1, <2>2 DEF StartsOnce
<1>5. UnlessOvertaken'
  <2> SUFFICES ASSUME ~overtaken'
               PROVE  ~crashed' /\ mixed' = {} /\ EncodesTheKept' /\ CountsTheKept'
    BY DEF UnlessOvertaken
  <2>1. ~overtaken /\ encodeTasks = <<>> /\ mixed' = {}
    BY <1>2, OpenKeeps
  <2>2. ToSet(encodeTasks') = {} /\ DOMAIN encodeTasks' = {} /\ Len(encodeTasks') = 0
    BY <1>2, <2>1 DEF ToSet
  <2>3. EncodesTheKept'
    BY <1>2, <2>2 DEF EncodesTheKept
  <2>4. CountsTheKept'
    <3>1. Unwritten' = 0 /\ Unwritten = 0
      <4>1. ~HasClose /\ ~HasClose'
        BY <1>2, <2>2 DEF HasClose
      <4> QED
        BY <1>2, <2>2, <4>1 DEF Unwritten
    <3>2. CASE recordDialogId' = r /\ recordTimeCount' = 0
      <4>1. chunks[r] = 0 /\ r \notin wrong /\ SentTask(r) \notin ToSet(uiTasks')
        BY <1>1, UiKinds DEF Untouched, OrNone
      <4> QED
        BY <1>2, <3>1, <3>2, <4>1 DEF CountsTheKept
    <3>3. CASE UNCHANGED <<recordDialogId, recordTimeCount>>
      <4>1. SentTask(recordDialogId) \in ToSet(uiTasks') =>
                SentTask(recordDialogId) \in ToSet(uiTasks)
        BY <1>1 DEF TypeOK
      <4> QED
        BY <1>2, <2>1, <3>1, <3>3, <4>1 DEF UnlessOvertaken, CountsTheKept
    <3> QED
      BY <1>2, <3>2, <3>3
  <2> QED
    BY <1>2, <2>1, <2>3, <2>4 DEF UnlessOvertaken
<1>6. OneRunning' /\ UnlessCrossed'
  BY <1>1, <1>2 DEF OneRunning, UnlessCrossed
<1> QED
  BY <1>3, <1>4, <1>5, <1>6

LEMMA StartSucceedsInv == IInv /\ StartSucceeds => IInv'
<1> SUFFICES ASSUME IInv, StartSucceeds PROVE IInv'
  OBVIOUS
<1> DEFINE r == Head(recordTasks).recording
<1>1. TakesStart(r)
  BY StartIsTaken DEF StartSucceeds
<1>2. /\ Open(r, r) /\ recordingAudio' = r /\ audioRecorder' = r /\ recording' = TRUE
      /\ recordDialogId' = r /\ recordTimeCount' = 0
      /\ UNCHANGED <<recordStartRunnable, delayed, encodeTasks, recordSamples, chunks, calls,
                     crashed, crossed, wrong, sendAfterDone, unopened>>
  BY DEF StartSucceeds, StartFrame
<1> HIDE DEF r
<1> USE DEF IInv, TakesStart, calls
<1>3. TypeOK'
  <2>1. encoder' \in OrNone(Recordings) /\ overtaken' \in BOOLEAN /\ mixed' \subseteq Recordings
    BY <1>1, <1>2 DEF Open, TypeOK, OrNone
  <2>2. recording' => audioRecorder' # 0
    BY <1>1, <1>2, NoneIsNoRecording
  <2> QED
    BY <1>1, <1>2, <2>1, <2>2 DEF TypeOK, UiTask, OrNone
<1>4. StartsOnce'
  <2>1. \A q \in Recordings : Untouched(q) /\ q # r => Untouched(q)'
    BY <1>1, <1>2, UiKinds DEF Untouched
  <2>2. \A q \in Recordings : q > starts => q # r
    BY <1>1, RecorderAssumption DEF Recordings, TypeOK
  <2> QED
    BY <1>1, <1>2, <2>1, <2>2 DEF StartsOnce
<1>5. UnlessOvertaken'
  <2> SUFFICES ASSUME ~overtaken'
               PROVE  ~crashed' /\ mixed' = {} /\ EncodesTheKept' /\ CountsTheKept'
    BY DEF UnlessOvertaken
  <2>1. ~overtaken /\ encodeTasks = <<>> /\ mixed' = {} /\ encoder' = r
    BY <1>2, OpenKeeps
  <2>2. ToSet(encodeTasks') = {} /\ DOMAIN encodeTasks' = {} /\ Len(encodeTasks') = 0
    BY <1>2, <2>1 DEF ToSet
  <2>3. EncodesTheKept'
    BY <1>2, <2>1, <2>2 DEF EncodesTheKept, HasClose
  <2>4. CountsTheKept'
    <3>1. Unwritten' = 0
      <4>1. ~HasClose'
        BY <2>2 DEF HasClose
      <4> QED
        BY <2>2, <4>1 DEF Unwritten
    <3>2. chunks[r] = 0 /\ r \notin wrong /\ SentTask(r) \notin ToSet(uiTasks')
      BY <1>1, UiKinds DEF Untouched, OrNone
    <3> QED
      BY <1>2, <3>1, <3>2 DEF CountsTheKept
  <2> QED
    BY <1>2, <2>1, <2>3, <2>4 DEF UnlessOvertaken
<1>6. OneRunning' /\ UnlessCrossed'
  <2>1. OneRunning'
    BY <1>2 DEF OneRunning
  <2>2. ~ (~crossed /\ ~wanted)
    BY <1>1, NoneIsNoRecording DEF UnlessCrossed, StartsOnce
  <2> QED
    BY <1>1, <1>2, <2>1, <2>2 DEF UnlessCrossed
<1> QED
  BY <1>3, <1>4, <1>5, <1>6

-----------------------------------------------------------------------------
(* Reading and stopping.                                                   *)

\* Something that is no start is taken from recordQueue.
TakesNoStart ==
    /\ recordTasks' \in Seq(RecordTask)
    /\ \A q \in Recordings :
           /\ OnceIn(recordTasks', StartTask(q))
           /\ StartTask(q) \in ToSet(recordTasks') => StartTask(q) \in ToSet(recordTasks)
           /\ Pending(q)' => Pending(q)

LEMMA NoStartIsTaken ==
    ASSUME IInv, NEW kind, kind # "start", FirstTask(kind), UNCHANGED delayed,
           recordTasks' \in {Tail(recordTasks), Append(Tail(recordTasks), ReadTask)}
    PROVE  TakesNoStart /\ (kind = "read" /\ PendingStop => PendingStop')
<1> USE DEF IInv, FirstTask
<1> DEFINE s == Tail(recordTasks)
<1>1. /\ s \in Seq(RecordTask) /\ Head(recordTasks) \in RecordTask
      /\ ToSet(recordTasks) = {Head(recordTasks)} \cup ToSet(s)
      /\ \A q \in Recordings : OnceIn(s, StartTask(q))
  BY NextRecordTask DEF TypeOK
<1> HIDE DEF s
<1>2. /\ recordTasks' \in Seq(RecordTask)
      /\ ToSet(s) \subseteq ToSet(recordTasks')
      /\ ToSet(recordTasks') \subseteq ToSet(s) \cup {ReadTask}
      /\ \A q \in Recordings : OnceIn(recordTasks', StartTask(q))
  <2>1. recordTasks' = s \/ recordTasks' = Append(s, ReadTask)
    BY DEF s
  <2>2. CASE recordTasks' = s
    BY <1>1, <2>2
  <2>3. CASE recordTasks' = Append(s, ReadTask)
    <3>1. ReadTask \in RecordTask /\ ReadTask.kind # "start"
      BY TaskKinds
    <3> QED
      BY <1>1, <2>3, <3>1, AppendNoStart
  <2> QED
    BY <2>1, <2>2, <2>3
<1>3. \A q \in Recordings :
          StartTask(q) \in ToSet(recordTasks') => StartTask(q) \in ToSet(recordTasks)
  BY <1>1, <1>2, TaskKinds
<1>4. \A q \in Recordings : Pending(q)' => Pending(q)
  BY <1>3 DEF Pending
<1>5. kind = "read" /\ PendingStop => PendingStop'
  BY <1>1, <1>2 DEF PendingStop
<1> QED
  BY <1>2, <1>3, <1>4, <1>5 DEF TakesNoStart

LEMMA ReadInv == IInv /\ Read => IInv'
<1> SUFFICES ASSUME IInv, Read PROVE IInv'
  OBVIOUS
<1> DEFINE a == audioRecorder
<1>1. TakesNoStart /\ (PendingStop => PendingStop')
  BY NoStartIsTaken DEF Read, QueueFrame
<1>2. /\ UNCHANGED <<uiTasks, fields, recordStartRunnable, delayed, encoder,
                     recordTimeCount, calls, crashed, crossed, overtaken, mixed, wrong,
                     recordDialogId, unopened>>
      /\ a # 0
  BY DEF Read, QueueFrame
<1>3. a \in Recordings /\ encodeTasks \in Seq(EncodeTask) /\ Len(encodeTasks) \in Nat
  BY <1>2 DEF IInv, TypeOK, OrNone, EncodeTask
<1>4. CASE /\ chunks[a] < MaxChunks
           /\ chunks' = [chunks EXCEPT ![a] = @ + 1]
           /\ recordSamples' = a
           /\ encodeTasks' = Append(encodeTasks, WriteTask(a))
  <2>1. /\ encodeTasks' \in Seq(EncodeTask)
        /\ ToSet(encodeTasks') = ToSet(encodeTasks) \cup {WriteTask(a)}
    BY <1>3, <1>4, EncodeKinds, ToSetOfAppend
  <2>2. TypeOK'
    <3>1. chunks' \in [Recordings -> 0..MaxChunks]
      BY <1>3, <1>4, RecorderAssumption DEF IInv, TypeOK
    <3> QED
      BY <1>1, <1>2, <1>3, <1>4, <2>1, <3>1
         DEF IInv, TypeOK, EncodeTask, OrNone, TakesNoStart, fields, calls
  <2>3. StartsOnce'
    <3>1. \A q \in Recordings : Untouched(q) => Untouched(q)'
      BY <1>2, <1>3, <1>4, <2>1, EncodeKinds DEF IInv, TypeOK, Untouched, fields
    <3> QED
      BY <1>1, <1>2, <3>1 DEF IInv, StartsOnce, TakesNoStart, calls
  <2>4. UnlessOvertaken'
    <3> SUFFICES ASSUME ~overtaken PROVE UnlessOvertaken'
      BY <1>2 DEF UnlessOvertaken
    <3>1. EncodesTheKept /\ CountsTheKept /\ a = recordDialogId /\ a = encoder /\ ~HasClose
      BY <1>2 DEF IInv, UnlessOvertaken, EncodesTheKept
    <3>2. ~HasClose'
      BY <1>3, <2>1, <3>1, EncodeKinds DEF HasClose
    <3>3. EncodesTheKept'
      <4>1. \A i \in DOMAIN encodeTasks' : encodeTasks'[i].kind # "close"
        BY <3>2 DEF HasClose, ToSet
      <4> QED
        BY <1>2, <1>3, <2>1, <3>1, <3>2, <4>1, EncodeKinds DEF EncodesTheKept, fields
    <3>4. Unwritten' = Unwritten + 1
      BY <1>3, <1>4, <3>1, <3>2, EncodeKinds DEF Unwritten
    <3>5. CountsTheKept'
      <4>1. SentTask(recordDialogId) \notin ToSet(uiTasks')
        BY <1>2, <3>1 DEF CountsTheKept
      <4>2. recordTimeCount' + Unwritten' = chunks'[a]
        <5>1. recordTimeCount + Unwritten = chunks[a]
          BY <1>2, <3>1 DEF CountsTheKept
        <5>2. recordTimeCount \in Nat /\ Unwritten \in Nat /\ chunks'[a] = chunks[a] + 1
          BY <1>3, <1>4, <3>1 DEF IInv, TypeOK, Unwritten
        <5> QED
          BY <1>2, <3>4, <5>1, <5>2
      <4> QED
        BY <1>2, <1>4, <3>1, <4>1, <4>2 DEF CountsTheKept
    <3> QED
      BY <1>2, <3>3, <3>5 DEF IInv, UnlessOvertaken
  <2> QED
    BY <1>1, <1>2, <2>2, <2>3, <2>4
       DEF IInv, OneRunning, UnlessCrossed, TakesNoStart, fields, calls
<1>5. CASE UNCHANGED <<chunks, recordSamples, encodeTasks>>
  <2>1. TypeOK'
    BY <1>1, <1>2, <1>5 DEF IInv, TypeOK, TakesNoStart, fields, calls
  <2>2. StartsOnce'
    <3>1. \A q \in Recordings : Untouched(q) => Untouched(q)'
      BY <1>2, <1>5 DEF Untouched, fields
    <3> QED
      BY <1>1, <1>2, <3>1 DEF IInv, StartsOnce, TakesNoStart, calls
  <2>3. UnlessOvertaken'
    BY <1>2, <1>5 DEF IInv, UnlessOvertaken, EncodesTheKept, CountsTheKept, HasClose,
                      Unwritten, fields
  <2> QED
    BY <1>1, <1>2, <2>1, <2>2, <2>3
       DEF IInv, OneRunning, UnlessCrossed, TakesNoStart, fields, calls
<1> QED
  BY <1>4, <1>5 DEF Read

\* stopRecordingInternal: the close is the last of the encoder's tasks, and what
\* is kept stays complete.
LEMMA StopInternalKeeps ==
    ASSUME IInv, audioRecorder # 0, NEW send \in Sends, StopRecordingInternal(send),
           UNCHANGED <<recordSamples, chunks>>, QueueFrame
    PROVE  /\ encodeTasks' \in Seq(EncodeTask)
           /\ \A q \in Recordings : Untouched(q) => Untouched(q)'
           /\ UnlessOvertaken'
<1> DEFINE a == audioRecorder
<1>1. /\ a \in Recordings /\ recordingAudio = a
      /\ encodeTasks \in Seq(EncodeTask) /\ Len(encodeTasks) \in Nat
  BY DEF IInv, TypeOK, OrNone, OneRunning, EncodeTask
<1>2. /\ audioRecorder' = 0
      /\ UNCHANGED <<uiTasks, recordSamples, chunks, encoder, recordTimeCount, crashed,
                     overtaken, mixed, wrong, recordDialogId>>
  BY DEF StopRecordingInternal, QueueFrame
<1>3. CASE encodeTasks' = encodeTasks
  <2>1. \A q \in Recordings : Untouched(q) => Untouched(q)'
    BY <1>2, <1>3, NoneIsNoRecording DEF Untouched
  <2>2. UnlessOvertaken'
    <3> SUFFICES ASSUME ~overtaken PROVE UnlessOvertaken'
      BY <1>2 DEF UnlessOvertaken
    <3>1. EncodesTheKept /\ CountsTheKept /\ a = recordDialogId
      BY DEF IInv, UnlessOvertaken, EncodesTheKept
    <3>2. SentTask(recordDialogId) \notin ToSet(uiTasks)
      BY <3>1 DEF CountsTheKept
    <3> QED
      BY <1>2, <1>3, <3>1, <3>2
         DEF IInv, UnlessOvertaken, EncodesTheKept, CountsTheKept, HasClose, Unwritten
  <2> QED
    BY <1>1, <1>3, <2>1, <2>2
<1>4. CASE encodeTasks' = Append(encodeTasks, CloseTask(a))
  <2>1. /\ encodeTasks' \in Seq(EncodeTask)
        /\ ToSet(encodeTasks') = ToSet(encodeTasks) \cup {CloseTask(a)}
    BY <1>1, <1>4, EncodeKinds, ToSetOfAppend
  <2>2. \A q \in Recordings : Untouched(q) => Untouched(q)'
    BY <1>1, <1>2, <2>1, EncodeKinds, NoneIsNoRecording DEF Untouched
  <2>3. UnlessOvertaken'
    <3> SUFFICES ASSUME ~overtaken PROVE UnlessOvertaken'
      BY <1>2 DEF UnlessOvertaken
    <3>1. EncodesTheKept /\ CountsTheKept /\ a = recordDialogId /\ a = encoder /\ ~HasClose
      BY DEF IInv, UnlessOvertaken, EncodesTheKept
    <3>2. EncodesTheKept'
      <4>1. \A i \in DOMAIN encodeTasks : encodeTasks[i].kind # "close"
        BY <3>1 DEF HasClose, ToSet
      <4>2. ASSUME NEW i \in DOMAIN encodeTasks', encodeTasks'[i].kind = "close"
            PROVE  i = Len(encodeTasks')
        BY <1>1, <1>4, <4>1, <4>2
      <4> QED
        BY <1>1, <1>2, <2>1, <3>1, <4>2, EncodeKinds DEF EncodesTheKept
    <3>3. HasClose'
      BY <1>1, <2>1, EncodeKinds DEF HasClose
    <3>4. Unwritten' = Unwritten
      BY <1>1, <1>4, <3>1, <3>3, EncodeKinds DEF Unwritten
    <3>5. CountsTheKept'
      BY <1>2, <3>1, <3>4 DEF CountsTheKept
    <3> QED
      BY <1>2, <3>2, <3>5 DEF IInv, UnlessOvertaken
  <2> QED
    BY <2>1, <2>2, <2>3
<1> QED
  BY <1>1, <1>3, <1>4 DEF StopRecordingInternal

LEMMA ReadEndsInv == IInv /\ ReadEnds => IInv'
<1> SUFFICES ASSUME IInv, ReadEnds PROVE IInv'
  OBVIOUS
<1>1. TakesNoStart /\ (PendingStop => PendingStop')
  BY NoStartIsTaken DEF ReadEnds, QueueFrame
<1>2. /\ encodeTasks' \in Seq(EncodeTask)
      /\ \A q \in Recordings : Untouched(q) => Untouched(q)'
      /\ UnlessOvertaken'
  BY StopInternalKeeps DEF ReadEnds, IInv, TypeOK
<1>3. /\ audioRecorder' = 0 /\ recording' = FALSE /\ recordingAudio' = 0
      /\ UNCHANGED <<uiTasks, sendAfterDone, recordSamples, chunks, recordStartRunnable,
                     delayed, encoder, recordTimeCount, calls, crashed, crossed, overtaken,
                     mixed, wrong, recordDialogId, unopened>>
  BY DEF ReadEnds, QueueFrame, StopRecordingInternal
<1>4. TypeOK'
  BY <1>1, <1>2, <1>3 DEF IInv, TypeOK, EncodeTask, OrNone, TakesNoStart, calls
<1>5. StartsOnce'
  BY <1>1, <1>2, <1>3 DEF IInv, StartsOnce, TakesNoStart, calls
<1>6. OneRunning' /\ UnlessCrossed'
  BY <1>1, <1>3 DEF IInv, OneRunning, UnlessCrossed, TakesNoStart, calls
<1> QED
  BY <1>2, <1>4, <1>5, <1>6 DEF IInv

LEMMA ReadNothingInv == IInv /\ ReadNothing => IInv'
<1> SUFFICES ASSUME IInv, ReadNothing PROVE IInv'
  OBVIOUS
<1>1. TakesNoStart /\ (PendingStop => PendingStop')
  BY NoStartIsTaken DEF ReadNothing, QueueFrame
<1>2. UNCHANGED <<encodeTasks, uiTasks, fields, counts, recordStartRunnable, delayed, encoder,
                  calls, crashed, crossed, overtaken, mixed, wrong, recordDialogId, unopened>>
  BY DEF ReadNothing, QueueFrame, counts
<1> USE DEF IInv, TakesNoStart, fields, counts, calls
<1>3. TypeOK'
  BY <1>1, <1>2 DEF TypeOK
<1>4. StartsOnce'
  BY <1>1, <1>2 DEF StartsOnce, Untouched
<1>5. UnlessOvertaken'
  BY <1>2 DEF UnlessOvertaken, EncodesTheKept, CountsTheKept, HasClose, Unwritten
<1>6. OneRunning' /\ UnlessCrossed'
  BY <1>1, <1>2 DEF OneRunning, UnlessCrossed
<1> QED
  BY <1>3, <1>4, <1>5, <1>6

LEMMA StopInv == IInv /\ Stop => IInv'
<1> SUFFICES ASSUME IInv, Stop PROVE IInv'
  OBVIOUS
<1> DEFINE send == Head(recordTasks).send
<1>1. TakesNoStart
  BY NoStartIsTaken DEF Stop, QueueFrame
<1>2. send \in Sends
  BY NextRecordTask, TaskKinds DEF Stop, FirstTask, IInv, TypeOK
<1>3. UNCHANGED <<uiTasks, counts, recordStartRunnable, delayed, encoder, calls, crashed,
                  crossed, overtaken, mixed, wrong, recordDialogId, unopened>>
  BY DEF Stop, QueueFrame, counts, fields, StopRecordingInternal
<1>4. \/ UNCHANGED <<encodeTasks, fields>> /\ audioRecorder = 0
      \/ /\ audioRecorder # 0 /\ sendAfterDone' = send /\ recording' = FALSE
         /\ UNCHANGED <<encodeTasks, audioRecorder, recordingAudio>>
      \/ /\ audioRecorder # 0 /\ sendAfterDone' = 0
         /\ StopRecordingInternal(0)
  BY DEF Stop
<1>5. /\ encodeTasks' \in Seq(EncodeTask)
      /\ \A q \in Recordings : Untouched(q) => Untouched(q)'
      /\ UnlessOvertaken'
  <2>1. CASE UNCHANGED <<encodeTasks, audioRecorder>>
    BY <1>3, <2>1 DEF IInv, TypeOK, EncodeTask, Untouched, UnlessOvertaken, EncodesTheKept,
                      CountsTheKept, HasClose, Unwritten, counts
  <2>2. CASE audioRecorder # 0 /\ StopRecordingInternal(0)
    BY <2>2, StopInternalKeeps DEF Stop, Sends
  <2> QED
    BY <1>4, <2>1, <2>2 DEF fields
<1>6. /\ ~recording'
      /\ sendAfterDone' \in Sends
      /\ \/ UNCHANGED <<audioRecorder, recordingAudio>>
         \/ audioRecorder' = 0 /\ recordingAudio' = 0
  BY <1>2, <1>4 DEF IInv, TypeOK, fields, StopRecordingInternal, Sends
<1>7. TypeOK'
  <2>1. recording' \in BOOLEAN
    BY <1>4 DEF IInv, TypeOK, fields, StopRecordingInternal
  <2> QED
    BY <1>1, <1>3, <1>5, <1>6, <2>1
       DEF IInv, TypeOK, EncodeTask, OrNone, TakesNoStart, counts, calls
<1>8. StartsOnce'
  BY <1>1, <1>3, <1>5 DEF IInv, StartsOnce, TakesNoStart, calls
<1>9. OneRunning' /\ UnlessCrossed'
  BY <1>1, <1>3, <1>6 DEF IInv, OneRunning, UnlessCrossed, TakesNoStart, calls
<1> QED
  BY <1>5, <1>7, <1>8, <1>9 DEF IInv

-----------------------------------------------------------------------------
(* The encoder.                                                            *)

LEMMA WriteInv == IInv /\ Write => IInv'
<1> SUFFICES ASSUME IInv, Write PROVE IInv'
  OBVIOUS
<1> DEFINE t == Head(encodeTasks)
<1>1. /\ encodeTasks \in Seq(EncodeTask) /\ encodeTasks # <<>> /\ encodeTasks' = Tail(encodeTasks)
      /\ t.kind = "write"
      /\ UNCHANGED <<recordStartRunnable, delayed, recordTasks, fields, recordSamples, chunks,
                     calls, crossed, overtaken, wrong, recordDialogId, unopened, uiTasks,
                     encoder>>
      /\ crashed' = (encoder = 0) /\ recordTimeCount' = recordTimeCount + 1
      /\ mixed' = IF encoder \notin {0, t.recording} THEN mixed \cup {t.recording, encoder}
                  ELSE mixed
  BY DEF Write, FirstEncode, EncodeFrame, IInv, TypeOK, EncodeTask
<1>2. /\ t \in EncodeTask /\ t.recording \in Recordings /\ encodeTasks' \in Seq(EncodeTask)
      /\ ToSet(encodeTasks) = {t} \cup ToSet(encodeTasks')
      /\ Len(encodeTasks) \in Nat \ {0} /\ Len(encodeTasks') = Len(encodeTasks) - 1
      /\ \A i \in DOMAIN encodeTasks' :
             i + 1 \in DOMAIN encodeTasks /\ encodeTasks'[i] = encodeTasks[i + 1]
  BY <1>1, ToSetOfTail, EncodeKinds
<1> HIDE DEF t
<1>3. TypeOK'
  <2>1. mixed' \subseteq Recordings /\ recordTimeCount' \in Nat
    BY <1>1, <1>2 DEF IInv, TypeOK, OrNone
  <2> QED
    BY <1>1, <1>2, <2>1 DEF IInv, TypeOK, EncodeTask, fields, calls
<1>4. StartsOnce'
  <2>1. \A q \in Recordings : Untouched(q) => Untouched(q)'
    BY <1>1, <1>2 DEF Untouched, fields
  <2> QED
    BY <1>1, <2>1 DEF IInv, StartsOnce, Pending, calls
<1>5. UnlessOvertaken'
  <2> SUFFICES ASSUME ~overtaken
               PROVE  ~crashed' /\ mixed' = {} /\ EncodesTheKept' /\ CountsTheKept'
    BY <1>1 DEF UnlessOvertaken
  <2>1. EncodesTheKept /\ CountsTheKept /\ mixed = {}
    BY DEF IInv, UnlessOvertaken
  <2>2. t.recording = encoder /\ t.recording = recordDialogId
    BY <1>2, <2>1 DEF EncodesTheKept
  <2>3. ~crashed' /\ mixed' = {}
    BY <1>1, <1>2, <2>1, <2>2, NoneIsNoRecording
  <2>4. HasClose' <=> HasClose
    BY <1>1, <1>2 DEF HasClose
  <2>5. EncodesTheKept'
    <3>1. ASSUME NEW i \in DOMAIN encodeTasks', encodeTasks'[i].kind = "close"
          PROVE  i = Len(encodeTasks')
      <4>1. i + 1 = Len(encodeTasks)
        BY <1>2, <2>1, <3>1 DEF EncodesTheKept
      <4>2. i \in Nat
        BY <1>2
      <4> QED
        BY <1>2, <4>1, <4>2
    <3> QED
      BY <1>1, <1>2, <2>1, <2>4, <3>1 DEF EncodesTheKept, fields
  <2>6. CountsTheKept'
    <3>1. Unwritten' = Unwritten - 1 /\ Unwritten \in Int
      BY <1>2, <2>4 DEF Unwritten
    <3>2. recordTimeCount' + Unwritten' = recordTimeCount + Unwritten
      BY <1>1, <3>1 DEF IInv, TypeOK
    <3> QED
      BY <1>1, <1>2, <2>1, <3>2 DEF CountsTheKept, fields
  <2> QED
    BY <2>3, <2>5, <2>6
<1>6. OneRunning' /\ UnlessCrossed'
  BY <1>1 DEF IInv, OneRunning, UnlessCrossed, Pending, PendingStop, fields, calls
<1> QED
  BY <1>3, <1>4, <1>5, <1>6 DEF IInv

LEMMA CloseInv == IInv /\ Close => IInv'
<1> SUFFICES ASSUME IInv, Close PROVE IInv'
  OBVIOUS
<1> DEFINE t == Head(encodeTasks)
           r == Head(encodeTasks).recording
<1>1. /\ encodeTasks \in Seq(EncodeTask) /\ encodeTasks # <<>> /\ encodeTasks' = Tail(encodeTasks)
      /\ t.kind = "close"
      /\ UNCHANGED <<recordStartRunnable, delayed, recordTasks, fields, recordSamples, chunks,
                     calls, crossed, overtaken, wrong, recordDialogId, unopened,
                     recordTimeCount, crashed>>
      /\ uiTasks' = Append(uiTasks, SentTask(r)) /\ encoder' = 0
      /\ mixed' = IF encoder \notin {0, r} THEN mixed \cup {encoder} ELSE mixed
  BY DEF Close, FirstEncode, EncodeFrame, IInv, TypeOK, EncodeTask
<1>2. /\ t \in EncodeTask /\ r \in Recordings /\ t.recording = r
      /\ encodeTasks' \in Seq(EncodeTask)
      /\ ToSet(encodeTasks) = {t} \cup ToSet(encodeTasks')
      /\ Len(encodeTasks) \in Nat \ {0} /\ Len(encodeTasks') = Len(encodeTasks) - 1
      /\ 1 \in DOMAIN encodeTasks /\ encodeTasks[1] = t
  BY <1>1, ToSetOfTail, EncodeKinds
<1> HIDE DEF t, r
<1>3. /\ uiTasks' \in Seq(UiTask)
      /\ ToSet(uiTasks') = ToSet(uiTasks) \cup {SentTask(r)}
  <2>1. SentTask(r) \in UiTask /\ uiTasks \in Seq(UiTask)
    BY <1>2, UiKinds DEF IInv, TypeOK, UiTask
  <2> QED
    BY <1>1, <2>1, ToSetOfAppend
<1>4. TypeOK'
  <2>1. mixed' \subseteq Recordings /\ encoder' \in OrNone(Recordings)
    BY <1>1, <1>2 DEF IInv, TypeOK, OrNone
  <2> QED
    BY <1>1, <1>2, <1>3, <2>1 DEF IInv, TypeOK, EncodeTask, UiTask, fields, calls
<1>5. StartsOnce'
  <2>1. \A q \in Recordings : Untouched(q) => Untouched(q)'
    BY <1>1, <1>2, <1>3, UiKinds DEF Untouched, fields
  <2> QED
    BY <1>1, <2>1 DEF IInv, StartsOnce, Pending, calls
<1>6. UnlessOvertaken'
  <2> SUFFICES ASSUME ~overtaken
               PROVE  ~crashed' /\ mixed' = {} /\ EncodesTheKept' /\ CountsTheKept'
    BY <1>1 DEF UnlessOvertaken
  <2>1. EncodesTheKept /\ CountsTheKept /\ mixed = {} /\ ~crashed
    BY DEF IInv, UnlessOvertaken
  <2>2. r = encoder /\ r = recordDialogId /\ HasClose
    BY <1>1, <1>2, <2>1 DEF EncodesTheKept, HasClose
  <2>3. Len(encodeTasks) = 1 /\ encodeTasks' = <<>>
    BY <1>1, <1>2, <2>1 DEF EncodesTheKept
  <2>4. ToSet(encodeTasks') = {} /\ DOMAIN encodeTasks' = {} /\ Len(encodeTasks') = 0
    BY <2>3 DEF ToSet
  <2>5. audioRecorder = 0 /\ r # 0
    BY <1>2, <2>1, <2>2, NoneIsNoRecording DEF EncodesTheKept
  <2>6. EncodesTheKept'
    BY <1>1, <2>4, <2>5 DEF EncodesTheKept, fields
  <2>7. CountsTheKept'
    <3>1. ~HasClose'
      BY <2>4 DEF HasClose
    <3>2. Unwritten = 0 /\ Unwritten' = 0
      BY <2>2, <2>3, <2>4, <3>1 DEF Unwritten
    <3> QED
      BY <1>1, <2>1, <2>2, <2>3, <2>5, <3>2 DEF CountsTheKept, fields
  <2> QED
    BY <1>1, <2>1, <2>2, <2>6, <2>7
<1>7. OneRunning' /\ UnlessCrossed'
  BY <1>1 DEF IInv, OneRunning, UnlessCrossed, Pending, PendingStop, fields, calls
<1> QED
  BY <1>4, <1>5, <1>6, <1>7 DEF IInv

-----------------------------------------------------------------------------
LEMMA StutterInv == IInv /\ UNCHANGED vars => IInv'
<1> SUFFICES ASSUME IInv, UNCHANGED vars PROVE IInv'
  OBVIOUS
<1> USE DEF IInv, vars, fields, counts, calls
<1>1. TypeOK'
  BY DEF TypeOK
<1>2. StartsOnce'
  BY DEF StartsOnce, Pending, Untouched
<1>3. OneRunning' /\ UnlessOvertaken'
  BY DEF OneRunning, UnlessOvertaken, EncodesTheKept, CountsTheKept, HasClose, Unwritten
<1>4. UnlessCrossed'
  BY DEF UnlessCrossed, Pending, PendingStop
<1> QED
  BY <1>1, <1>2, <1>3, <1>4

LEMMA NextInv == IInv /\ [Next]_vars => IInv'
<1> SUFFICES ASSUME IInv, [Next]_vars PROVE IInv'
  OBVIOUS
<1>1. CASE MainThread
  BY <1>1, StartRecordingInv, StartedInv, SentInv, StopRecordingInv DEF MainThread
<1>2. CASE RecordQueue
  BY <1>2, StartRefusedInv, StartUnopenedInv, StartFailedInv, StartSucceedsInv, ReadInv,
     ReadEndsInv, ReadNothingInv, StopInv, DueInv DEF RecordQueue
<1>3. CASE FileEncodingQueue
  BY <1>3, WriteInv, CloseInv DEF FileEncodingQueue
<1>4. CASE UNCHANGED vars
  BY <1>4, StutterInv
<1> QED
  BY <1>1, <1>2, <1>3, <1>4 DEF Next

LEMMA Invariance == Spec => []IInv
<1> QED
  BY InitInv, NextInv, PTL DEF Spec

\* Every reachable state is well typed; in particular a recorder that runs
\* belongs to a recording.
THEOREM Typing == Spec => []TypeOK
<1>1. IInv => TypeOK
  BY DEF IInv
<1> QED
  BY <1>1, Invariance, PTL

\* However many recordings are started and stopped: unless one of them is
\* started before the encoder's tasks of the last one are done, sound goes into
\* its own file, a file is closed by its own recording and the native encoder is
\* there when it is used.
THEOREM EncoderBelongsToOne == Spec => []EncoderIsOwn
<1>1. IInv => EncoderIsOwn
  BY DEF IInv, UnlessOvertaken, EncoderIsOwn
<1> QED
  BY <1>1, Invariance, PTL

\* Under the same condition a voice message that goes to the chat of its own
\* recording goes there with its own duration and samples.
THEOREM MessagesAreTheirOwn == Spec => []SentAsRecorded
<1>1. IInv => SentAsRecorded
  BY DEF IInv, UnlessOvertaken, CountsTheKept, SentAsRecorded
<1> QED
  BY <1>1, Invariance, PTL

\* When the last call was a stop, and no start or stop waits any more, nothing is
\* recorded, unless recordStartRunnable was taken from one start by another.
THEOREM StopsStop == Spec => []StopStops
<1>1. IInv => StopStops
  BY DEF IInv, UnlessCrossed, StopStops
<1> QED
  BY <1>1, Invariance, PTL

\* A recording that counts as running has a recorder once recordQueue is empty,
\* unless its file could not be opened.
THEOREM RunningHasRecorder == Spec => []RunningIsRecorded
<1>1. IInv => RunningIsRecorded
  BY DEF IInv, OneRunning, RunningIsRecorded
<1> QED
  BY <1>1, Invariance, PTL
===============================================================================
