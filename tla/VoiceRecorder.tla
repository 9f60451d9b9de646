----------------------------- MODULE VoiceRecorder -----------------------------
(***************************************************************************)
(* Recording a voice message (messenger/MediaController.java, with the      *)
(* encoder of jni/audio.c).                                                 *)
(*                                                                         *)
(* The main thread starts a recording, with a delay, and stops it.  The       *)
(* recorder belongs to recordQueue, where a task that posts itself again      *)
(* reads sound and passes it to fileEncodingQueue; the native encoder, of    *)
(* which there is one, is opened from recordQueue and used and closed from   *)
(* fileEncodingQueue.  The end is told to the main thread, which reads the   *)
(* duration and the samples from the fields that all recordings share.       *)
(*                                                                         *)
(* A chunk of sound is long enough to make a message.  0 is no recording.   *)
(***************************************************************************)
EXTENDS Integers, Sequences, FiniteSets, SequencesExt

CONSTANTS
    MaxStarts, MaxStops,   \* bound: calls of startRecording and stopRecording
    MaxChunks              \* bound: chunks of sound that a recording reads

ASSUME RecorderAssumption == MaxStarts \in Nat /\ MaxStops \in Nat /\ MaxChunks \in Nat

Recordings == 1..MaxStarts      \* in the order of the calls

\* stopRecording's argument: the sound is thrown away or handed over (1, which
\* sends it at once, goes the same way).
Sends == {0, 2}

VARIABLES
    recordStartRunnable,    \* the start that a stop would cancel
    delayed,                \* starts that recordQueue will run after their delay
    recordTasks,            \* recordQueue
    encodeTasks,            \* fileEncodingQueue
    uiTasks,                \* the main thread's queue
    audioRecorder,          \* the recording of the recorder
    recording,              \* the recorder was not stopped
    sendAfterDone,
    recordingAudio,         \* the recording that counts as running
    encoder,                \* the recording whose file the native encoder writes
    recordDialogId,         \* the recording whose chat, reply and start are kept
    recordTimeCount,        \* in chunks
    recordSamples,          \* the recording whose samples are kept
    chunks,                 \* recording -> chunks it has read
    starts, stops,
    crashed                 \* the native encoder was used without being there

(* History variables. *)
VARIABLES
    wanted,     \* the last call was a start
    crossed,    \* recordStartRunnable was lost to another start
    overtaken,  \* an encoder was opened before the last one's tasks were done
    mixed,      \* recordings of which sound went into another one's file, or
                \* whose file was closed by another one
    wrong,      \* recordings handed over with another duration or samples
    unopened    \* recordings whose file could not be opened

fields == <<audioRecorder, recording, sendAfterDone, recordingAudio>>
counts == <<recordTimeCount, recordSamples, chunks>>
calls  == <<starts, stops, wanted>>
vars   == <<recordStartRunnable, delayed, recordTasks, encodeTasks, uiTasks, fields,
            encoder, counts, calls, crashed, crossed, overtaken, mixed, wrong,
            recordDialogId, unopened>>

StartTask(r)    == [kind |-> "start", recording |-> r]
ReadTask        == [kind |-> "read"]
StopTask(send)  == [kind |-> "stop", send |-> send]
WriteTask(r)    == [kind |-> "write", recording |-> r]
CloseTask(r)    == [kind |-> "close", recording |-> r]
StartedTask(r)  == [kind |-> "started", recording |-> r]
SentTask(r)     == [kind |-> "sent", recording |-> r]

Init ==
    /\ recordStartRunnable = 0 /\ delayed = {}
    /\ recordTasks = <<>> /\ encodeTasks = <<>> /\ uiTasks = <<>>
    /\ audioRecorder = 0 /\ recording = FALSE /\ sendAfterDone = 0
    /\ recordingAudio = 0 /\ encoder = 0
    /\ recordTimeCount = 0 /\ recordSamples = 0
    /\ chunks = [r \in Recordings |-> 0]
    /\ starts = 0 /\ stops = 0 /\ crashed = FALSE
    /\ wanted = FALSE /\ crossed = FALSE /\ overtaken = FALSE
    /\ mixed = {} /\ wrong = {} /\ recordDialogId = 0 /\ unopened = {}

-----------------------------------------------------------------------------
(* The main thread.                                                        *)

StartRecording ==
    /\ ~crashed /\ starts < MaxStarts
    /\ starts' = starts + 1
    /\ recordStartRunnable' = starts + 1
    /\ delayed' = delayed \cup {starts + 1}
    /\ wanted' = TRUE
    /\ crossed' = (crossed \/ recordStartRunnable # 0)
    /\ UNCHANGED <<recordTasks, encodeTasks, uiTasks, fields, encoder, counts, stops,
                   crashed, overtaken, mixed, wrong, recordDialogId, unopened>>

\* Mutant: the pending start is not cancelled.
StopRecordingLate(send) ==
    /\ ~crashed /\ stops < MaxStops
    /\ stops' = stops + 1
    /\ recordStartRunnable' = 0
    /\ recordTasks' = Append(recordTasks, StopTask(send))
    /\ wanted' = FALSE
    /\ UNCHANGED <<delayed, encodeTasks, uiTasks, fields, encoder, counts, starts,
                   crashed, crossed, overtaken, mixed, wrong, recordDialogId, unopened>>

\* stopRecording cancels the start that is pending, if there is one; each start
\* is posted once, so that the first to be found is the only one.
StopRecording(send) ==
    /\ ~crashed /\ stops < MaxStops
    /\ stops' = stops + 1
    /\ recordStartRunnable' = 0
    /\ delayed' = delayed \ {recordStartRunnable}
    /\ recordTasks' = Append(RemoveFirst(recordTasks, StartTask(recordStartRunnable)),
                             StopTask(send))
    /\ wanted' = FALSE
    /\ UNCHANGED <<encodeTasks, uiTasks, fields, encoder, counts, starts, crashed,
                   crossed, overtaken, mixed, wrong, recordDialogId, unopened>>

\* A crash ends the process, and all its threads.
FirstUi(kind) == ~crashed /\ uiTasks # <<>> /\ Head(uiTasks).kind = kind

\* The end of a start, good or bad, clears recordStartRunnable, of whatever
\* start it is by now.
Started ==
    /\ FirstUi("started")
    /\ recordStartRunnable' = 0
    /\ crossed' = (crossed \/ recordStartRunnable \notin {0, Head(uiTasks).recording})
    /\ uiTasks' = Tail(uiTasks)
    /\ UNCHANGED <<delayed, recordTasks, encodeTasks, fields, encoder, counts, calls,
                   crashed, overtaken, mixed, wrong, recordDialogId, unopened>>

\* The recording is handed over with the duration and the samples that are
\* found in the fields, or deleted if they say that it is too short.
Sent ==
    /\ FirstUi("sent")
    /\ LET r == Head(uiTasks).recording IN
       wrong' = IF \/ recordTimeCount # chunks[r]
                   \/ chunks[r] > 0 /\ recordSamples # r
                THEN wrong \cup {r} ELSE wrong
    /\ uiTasks' = Tail(uiTasks)
    /\ UNCHANGED <<recordStartRunnable, delayed, recordTasks, encodeTasks, fields,
                   encoder, counts, calls, crashed, crossed, overtaken, mixed, recordDialogId,
                   unopened>>

-----------------------------------------------------------------------------
(* recordQueue.                                                            *)

\* The delay of a start is over.
Due(r) ==
    /\ ~crashed /\ r \in delayed
    /\ delayed' = delayed \ {r}
    /\ recordTasks' = Append(recordTasks, StartTask(r))
    /\ UNCHANGED <<recordStartRunnable, encodeTasks, uiTasks, fields, encoder, counts,
                   calls, crashed, crossed, overtaken, mixed, wrong, recordDialogId, unopened>>

FirstTask(kind) == ~crashed /\ recordTasks # <<>> /\ Head(recordTasks).kind = kind

StartFrame ==
    /\ uiTasks' = Append(uiTasks, StartedTask(Head(recordTasks).recording))
    /\ UNCHANGED <<recordStartRunnable, delayed, encodeTasks, recordSamples, chunks,
                   calls, crashed, crossed, wrong>>

StartRefused ==
    /\ FirstTask("start") /\ audioRecorder # 0
    /\ recordTasks' = Tail(recordTasks)
    /\ StartFrame
    /\ UNCHANGED <<fields, encoder, recordTimeCount, overtaken, mixed, recordDialogId, unopened>>

\* Mutant: an encoder that is open is used again.
OpenOnce(r, e) ==
    /\ encoder' = IF encoder # 0 THEN encoder ELSE e
    /\ overtaken' = (overtaken \/ encodeTasks # <<>>)
    /\ mixed' = IF encodeTasks # <<>> THEN mixed \cup ({encoder} \ {0}) ELSE mixed

\* startRecord, of the native code, closes the encoder before it opens it, so
\* that tasks that wait for the last one find none or another one.
Open(r, e) ==
    /\ encoder' = e
    /\ overtaken' = (overtaken \/ encodeTasks # <<>>)
    /\ mixed' = IF encodeTasks # <<>> THEN mixed \cup ({encoder} \ {0}) ELSE mixed

\* The file cannot be opened; recordingAudio is left behind.
StartUnopened ==
    /\ FirstTask("start") /\ audioRecorder = 0
    /\ LET r == Head(recordTasks).recording IN
       /\ Open(r, 0)
       /\ recordingAudio' = r
       /\ unopened' = unopened \cup {r}
    /\ recordTasks' = Tail(recordTasks)
    /\ StartFrame
    /\ UNCHANGED <<audioRecorder, recording, sendAfterDone, recordTimeCount, recordDialogId>>

\* Mutant: the recording that failed counts as running.
StartFailedStaying ==
    /\ FirstTask("start") /\ audioRecorder = 0
    /\ LET r == Head(recordTasks).recording IN
       /\ Open(r, 0)
       /\ recordingAudio' = r
       /\ \/ recordDialogId' = r /\ recordTimeCount' = 0
          \/ UNCHANGED <<recordDialogId, recordTimeCount>>
    /\ recordTasks' = Tail(recordTasks)
    /\ StartFrame
    /\ UNCHANGED <<audioRecorder, recording, sendAfterDone, unopened>>

\* The recorder does not start, or cannot even be made, and then the fields are
\* not reset: everything is closed again.
StartFailed ==
    /\ FirstTask("start") /\ audioRecorder = 0
    /\ Open(Head(recordTasks).recording, 0)
    /\ recordingAudio' = 0
    /\ \/ recordDialogId' = Head(recordTasks).recording /\ recordTimeCount' = 0
       \/ UNCHANGED <<recordDialogId, recordTimeCount>>
    /\ recordTasks' = Tail(recordTasks)
    /\ StartFrame
    /\ UNCHANGED <<audioRecorder, recording, sendAfterDone, unopened>>

StartSucceeds ==
    /\ FirstTask("start") /\ audioRecorder = 0
    /\ LET r == Head(recordTasks).recording IN
       /\ Open(r, r)
       /\ audioRecorder' = r /\ recording' = TRUE
       /\ recordingAudio' = r
       /\ recordDialogId' = r
    /\ recordTimeCount' = 0
    /\ recordTasks' = Append(Tail(recordTasks), ReadTask)
    /\ StartFrame
    /\ UNCHANGED <<sendAfterDone, unopened>>

\* Mutant: the end is not told by way of the encoder's queue.
StopInternalAtOnce(send) ==
    /\ uiTasks' = IF send = 0 THEN uiTasks ELSE Append(uiTasks, SentTask(recordingAudio))
    /\ audioRecorder' = 0 /\ recording' = FALSE /\ recordingAudio' = 0
    /\ UNCHANGED encodeTasks

\* stopRecordingInternal.  Sound that is thrown away leaves the encoder open.
StopRecordingInternal(send) ==
    /\ encodeTasks' = IF send = 0 THEN encodeTasks
                      ELSE Append(encodeTasks, CloseTask(recordingAudio))
    /\ audioRecorder' = 0 /\ recording' = FALSE /\ recordingAudio' = 0
    /\ UNCHANGED uiTasks

QueueFrame ==
    UNCHANGED <<recordStartRunnable, delayed, encoder, recordTimeCount, calls, crashed,
                crossed, overtaken, mixed, wrong, recordDialogId, unopened>>

\* recordRunnable: a chunk is read and passed on, and the task posts itself
\* (beyond the bound without a chunk), ...
Read ==
    /\ FirstTask("read") /\ audioRecorder # 0 /\ recording
    /\ \/ /\ chunks[audioRecorder] < MaxChunks
          /\ chunks' = [chunks EXCEPT ![audioRecorder] = @ + 1]
          /\ recordSamples' = audioRecorder
          /\ encodeTasks' = Append(encodeTasks, WriteTask(audioRecorder))
       \/ /\ chunks[audioRecorder] = MaxChunks
          /\ UNCHANGED <<chunks, recordSamples, encodeTasks>>
    /\ recordTasks' = Append(Tail(recordTasks), ReadTask)
    /\ UNCHANGED <<uiTasks, fields>>
    /\ QueueFrame

\* ... or there is nothing to read, because the recorder was stopped or has
\* failed, ...
ReadEnds ==
    /\ FirstTask("read") /\ audioRecorder # 0
    /\ StopRecordingInternal(sendAfterDone)
    /\ recordTasks' = Tail(recordTasks)
    /\ UNCHANGED <<sendAfterDone, recordSamples, chunks>>
    /\ QueueFrame

\* ... or the recorder is gone.
ReadNothing ==
    /\ FirstTask("read") /\ audioRecorder = 0
    /\ recordTasks' = Tail(recordTasks)
    /\ UNCHANGED <<encodeTasks, uiTasks, fields, recordSamples, chunks>>
    /\ QueueFrame

\* Mutant: the recording is forgotten when it is stopped.
StopForgetting ==
    /\ FirstTask("stop")
    /\ LET send == Head(recordTasks).send IN
       \/ /\ audioRecorder = 0
          /\ UNCHANGED <<encodeTasks, uiTasks, fields>>
       \/ /\ audioRecorder # 0 /\ send # 0
          /\ sendAfterDone' = send /\ recording' = FALSE /\ recordingAudio' = 0
          /\ UNCHANGED <<encodeTasks, uiTasks, audioRecorder>>
       \/ /\ audioRecorder # 0 /\ send = 0
          /\ sendAfterDone' = send
          /\ StopRecordingInternal(0)
    /\ recordTasks' = Tail(recordTasks)
    /\ UNCHANGED <<recordSamples, chunks>>
    /\ QueueFrame

\* Once the recorder is stopped, the task that reads finds the end.
Stop ==
    /\ FirstTask("stop")
    /\ LET send == Head(recordTasks).send IN
       \/ /\ audioRecorder = 0
          /\ UNCHANGED <<encodeTasks, uiTasks, fields>>
       \/ /\ audioRecorder # 0 /\ send # 0
          /\ sendAfterDone' = send /\ recording' = FALSE
          /\ UNCHANGED <<encodeTasks, uiTasks, audioRecorder, recordingAudio>>
       \/ /\ audioRecorder # 0 /\ send = 0
          /\ sendAfterDone' = send
          /\ StopRecordingInternal(0)
    /\ recordTasks' = Tail(recordTasks)
    /\ UNCHANGED <<recordSamples, chunks>>
    /\ QueueFrame

-----------------------------------------------------------------------------
(* fileEncodingQueue, into whichever file is open.                         *)

FirstEncode(kind) == ~crashed /\ encodeTasks # <<>> /\ Head(encodeTasks).kind = kind

EncodeFrame ==
    /\ encodeTasks' = Tail(encodeTasks)
    /\ UNCHANGED <<recordStartRunnable, delayed, recordTasks, fields, recordSamples,
                   chunks, calls, crossed, overtaken, wrong, recordDialogId, unopened>>

Write ==
    /\ FirstEncode("write")
    /\ LET r == Head(encodeTasks).recording IN
       /\ crashed' = (encoder = 0)
       /\ recordTimeCount' = recordTimeCount + 1
       /\ mixed' = IF encoder \notin {0, r} THEN mixed \cup {r, encoder} ELSE mixed
    /\ EncodeFrame
    /\ UNCHANGED <<uiTasks, encoder>>

Close ==
    /\ FirstEncode("close")
    /\ LET r == Head(encodeTasks).recording IN
       /\ uiTasks' = Append(uiTasks, SentTask(r))
       /\ mixed' = IF encoder \notin {0, r} THEN mixed \cup {encoder} ELSE mixed
    /\ encoder' = 0
    /\ EncodeFrame
    /\ UNCHANGED <<recordTimeCount, crashed>>

-----------------------------------------------------------------------------
MainThread == StartRecording \/ Started \/ Sent \/ \E send \in Sends : StopRecording(send)

RecordQueue ==
    \/ StartRefused \/ StartUnopened \/ StartFailed \/ StartSucceeds
    \/ Read \/ ReadEnds \/ ReadNothing \/ Stop
    \/ \E r \in Recordings : Due(r)

FileEncodingQueue == Write \/ Close

Next == MainThread \/ RecordQueue \/ FileEncodingQueue

Spec == Init /\ [][Next]_vars

-----------------------------------------------------------------------------
(* Properties.                                                             *)

OrNone(S) == S \cup {0}

RecordTask ==
    [kind : {"start"}, recording : Recordings] \cup {ReadTask}
        \cup [kind : {"stop"}, send : Sends]

TypeOK ==
    /\ recordStartRunnable \in OrNone(Recordings) /\ delayed \subseteq Recordings
    /\ recordTasks \in Seq(RecordTask)
    /\ encodeTasks \in Seq([kind : {"write", "close"}, recording : Recordings])
    /\ uiTasks \in Seq([kind : {"started", "sent"}, recording : Recordings])
    /\ audioRecorder \in OrNone(Recordings) /\ recording \in BOOLEAN
    /\ recording => audioRecorder # 0
    /\ sendAfterDone \in Sends /\ recordingAudio \in OrNone(Recordings)
    /\ encoder \in OrNone(Recordings)
    /\ recordTimeCount \in Nat /\ recordSamples \in OrNone(Recordings)
    /\ chunks \in [Recordings -> 0..MaxChunks]
    /\ starts \in 0..MaxStarts /\ stops \in 0..MaxStops
    /\ crashed \in BOOLEAN /\ wanted \in BOOLEAN
    /\ crossed \in BOOLEAN /\ overtaken \in BOOLEAN
    /\ mixed \subseteq Recordings /\ wrong \subseteq Recordings
    /\ recordDialogId \in OrNone(Recordings) /\ unopened \subseteq Recordings

\* The encoder is one for all recordings, is opened on one queue and used on
\* another.  Sound goes into its own file, a file is closed by its own
\* recording only, and the encoder is there when it is used, unless a
\* recording was started before the tasks of the last one were done.
EncoderIsOwn == crashed \/ mixed # {} => overtaken

\* A voice message is handed over with its own duration and samples.  The
\* exceptions are that another recording was started before the main thread
\* came to it, whose chat the message is then sent to, or that it was overtaken
\* and its last chunks were counted for the next one; a message with a duration
\* of 0 is deleted.
SentAsRecorded == overtaken \/ \A r \in wrong : recordDialogId # r

PendingStart == delayed # {} \/ \E t \in ToSet(recordTasks) : t.kind = "start"
PendingStop  == \E t \in ToSet(recordTasks) : t.kind = "stop"

\* When the last call was a stop and everything that was posted has run, then
\* nothing is recorded.  The exception is a start that its stop did not know
\* of, because recordStartRunnable was overwritten or cleared by another one.
StopStops ==
    ~wanted /\ ~PendingStart /\ ~PendingStop /\ recording => crossed

\* When nothing is pending, a recording that counts as running has a recorder,
\* unless its file could not be opened: from then on isRecordingAudio is true
\* although nothing is recorded, and raising the phone to the ear does nothing.
RunningIsRecorded ==
    recordingAudio # 0 /\ recordTasks = <<>> =>
        audioRecorder = recordingAudio \/ recordingAudio \in unopened
===============================================================================
