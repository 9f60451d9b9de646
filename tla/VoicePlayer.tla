------------------------------ MODULE VoicePlayer ------------------------------
(***************************************************************************)
(* Playing a voice message (messenger/MediaController.java, with the decoder *)
(* of jni/audio.c).                                                         *)
(*                                                                         *)
(* Three threads: fileDecodingQueue owns the native file and fills buffers,  *)
(* playerQueue writes them to the track, the main thread makes tracks and     *)
(* ends them.  Buffers wander between the two queues, a task of the one posts *)
(* the next task of the other, and when the user goes from one message to     *)
(* another nothing of that is called back.                                  *)
(*                                                                         *)
(* A message is a call of playAudio; the calls are numbered and 0 is none.   *)
(* It has Length parts of the size of a buffer, the last one shorter unless   *)
(* the file is exact.                                                        *)
(***************************************************************************)
EXTENDS Integers, Sequences, SequencesExt

CONSTANTS
    Buffers,                        \* 3 in the code
    Length,                         \* bound: parts of a message
    MaxPlays, MaxSeeks, MaxPauses   \* bound: calls

ASSUME PlayerAssumption ==
    /\ Buffers \in Nat \ {0} /\ Length \in Nat \ {0}
    /\ MaxPlays \in Nat /\ MaxSeeks \in Nat /\ MaxPauses \in Nat

Messages == 1..MaxPlays
Places   == 0..(Length - 1)     \* where to play from: how many parts are left out

VARIABLES   (* the main thread *)
    audioTrackPlayer,   \* the message that the track is made for
    trackPlaying,
    marker,             \* the message whose end has set the track's marker
    isPaused,
    audioProgress,      \* of the message
    buffersWrited,      \* 2 is more than 1
    opening,            \* how far playAudio is: "no", "wait", "opened", "made"
    uiTasks

VARIABLES   (* playerQueue *)
    playerTasks,        \* how many
    player,             \* "idle", "checked", "holds" or "writes"
    held,               \* the buffer being written
    into,               \* the track that AudioTrack.write was called of
    rested              \* that track did not play at some time of the call

VARIABLES   (* fileDecodingQueue *)
    decodeTasks,
    decoding, was,      \* inside the loop of checkDecoderQueue; its variable
    opened,             \* the message of the native file
    position,           \* its next part
    exact,              \* the last part fills a buffer
    finished,           \* the native file's flag
    readFinished,       \* what the last reading said
    decodingFinished

VARIABLES   (* of both queues *)
    freePlayerBuffers,  \* how many
    usedPlayerBuffers

VARIABLES plays, seeks, pauses

(* History variables. *)
VARIABLES
    ready,      \* the buffers were taken back since the file was opened
    fresh,      \* the held buffer was taken after that, and after the last seek
    given,      \* the last part of the message that was given to the track
    lost,       \* how many parts of messages the track did not take, or not whole
    late,       \* the track was told of the end of an earlier one, or of a buffer
                \* that was not fresh
    spoiled,    \* something else than the next part of the message was written
    unearned,   \* a message was ended by the end of another one
    early,      \* a message was ended by its own end before its last part was given
    mute        \* the end of the file came without a buffer to carry it, in a buffer
                \* that the track did not take, or was forgotten by a seek

track   == <<audioTrackPlayer, trackPlaying, marker, isPaused>>
main    == <<track, audioProgress, opening>>
write   == <<into, rested>>
writer  == <<player, held, write, fresh>>
loop    == <<decoding, was>>
file    == <<opened, position, exact, finished, readFinished, decodingFinished>>
buffers == <<freePlayerBuffers, usedPlayerBuffers>>
calls   == <<plays, seeks, pauses>>
faults  == <<late, spoiled, unearned, early>>
vars    == <<main, buffersWrited, uiTasks, playerTasks, writer, decodeTasks, loop, file,
             buffers, calls, ready, given, lost, faults, mute>>

NoBuffer    == [play |-> 0, part |-> 0, finished |-> FALSE]
CheckTask   == [kind |-> "check"]
OpenTask(p) == [kind |-> "open", play |-> p]
ResetTask   == [kind |-> "reset"]
SeekTask(n) == [kind |-> "seek", to |-> n]
SoughtTask  == [kind |-> "sought"]

Init ==
    /\ audioTrackPlayer = 0 /\ trackPlaying = FALSE /\ marker = 0 /\ isPaused = FALSE
    /\ audioProgress = 0 /\ opening = "no" /\ buffersWrited = 0 /\ uiTasks = <<>>
    /\ playerTasks = 0 /\ player = "idle" /\ held = NoBuffer /\ into = 0 /\ rested = FALSE
    /\ decodeTasks = <<>> /\ decoding = FALSE /\ was = FALSE
    /\ opened = 0 /\ position = 1 /\ exact = FALSE /\ finished = FALSE
    /\ readFinished = FALSE /\ decodingFinished = FALSE
    /\ freePlayerBuffers = Buffers /\ usedPlayerBuffers = <<>>
    /\ plays = 0 /\ seeks = 0 /\ pauses = 0
    /\ ready = FALSE /\ fresh = FALSE /\ given = 0 /\ lost = 0 /\ late = FALSE
    /\ spoiled = FALSE /\ unearned = FALSE /\ early = FALSE /\ mute = FALSE

-----------------------------------------------------------------------------
(* The main thread.                                                        *)

NoTrack ==
    audioTrackPlayer' = 0 /\ trackPlaying' = FALSE /\ marker' = 0 /\ isPaused' = FALSE

\* cleanupPlayer, as far as the voice player goes.
CleanupPlayer == NoTrack /\ buffersWrited' = 0

\* The track stops: a write that goes on may end short.
Rest == trackPlaying' = FALSE /\ rested' = (rested \/ player = "writes")

QueuesFrame ==
    UNCHANGED <<playerTasks, writer, decodeTasks, loop, file, buffers, ready, given, lost,
                mute>>

\* playAudio: what is played is ended, and the file opened by its thread,
\* while this one waits with the lock on the track.
PlayAudio(progress) ==
    /\ opening = "no" /\ plays < MaxPlays
    /\ CleanupPlayer
    /\ opening' = "wait"
    /\ audioProgress' = progress
    /\ plays' = plays + 1
    /\ decodeTasks' = Append(decodeTasks, OpenTask(plays + 1))
    /\ UNCHANGED <<uiTasks, playerTasks, writer, loop, file, buffers, seeks, pauses, ready,
                   given, lost, faults, mute>>

\* The track is made and plays; the lock is given back.
MakeTrack ==
    /\ opening = "opened"
    /\ opening' = "made"
    /\ audioTrackPlayer' = plays /\ trackPlaying' = TRUE
    /\ late' = FALSE
    /\ QueuesFrame
    /\ UNCHANGED <<marker, isPaused, audioProgress, buffersWrited, uiTasks, calls, spoiled,
                   unearned, early>>

\* There is none to be had: playAudio gives up, the file stays open.
TrackFails ==
    /\ opening = "opened"
    /\ opening' = "no"
    /\ QueuesFrame
    /\ UNCHANGED <<track, audioProgress, buffersWrited, uiTasks, calls, faults>>

\* The buffers are asked to be taken back.
PostReset ==
    /\ opening = "made"
    /\ opening' = "no"
    /\ decodeTasks' = Append(decodeTasks, ResetTask)
    /\ UNCHANGED <<track, audioProgress, buffersWrited, uiTasks, playerTasks, writer, loop,
                   file, buffers, calls, ready, given, lost, faults, mute>>

\* stopAudio, which keeps buffersWrited, or cleanupPlayer, which does not.
StopAudio ==
    /\ opening = "no" /\ audioTrackPlayer # 0
    /\ NoTrack
    /\ buffersWrited' \in {0, buffersWrited}
    /\ QueuesFrame
    /\ UNCHANGED <<audioProgress, opening, uiTasks, calls, faults>>

PauseAudio ==
    /\ opening = "no" /\ audioTrackPlayer # 0 /\ ~isPaused /\ pauses < MaxPauses
    /\ Rest /\ isPaused' = TRUE
    /\ pauses' = pauses + 1
    /\ UNCHANGED <<audioTrackPlayer, marker, audioProgress, buffersWrited, opening, uiTasks,
                   playerTasks, player, held, into, fresh, decodeTasks, loop, file, buffers,
                   plays, seeks, ready, given, lost, faults, mute>>

ResumeFrame ==
    UNCHANGED <<audioTrackPlayer, marker, audioProgress, buffersWrited, opening, uiTasks,
                writer, decodeTasks, loop, file, buffers, calls, ready, given, lost, faults,
                mute>>

\* Mutant: the player's queue is not woken up.
ResumeSilently ==
    /\ opening = "no" /\ audioTrackPlayer # 0 /\ isPaused
    /\ trackPlaying' = TRUE /\ isPaused' = FALSE
    /\ UNCHANGED playerTasks
    /\ ResumeFrame

ResumeAudio ==
    /\ opening = "no" /\ audioTrackPlayer # 0 /\ isPaused
    /\ trackPlaying' = TRUE /\ isPaused' = FALSE
    /\ playerTasks' = playerTasks + 1
    /\ ResumeFrame

\* seekToProgress: the track rests until the file is there.
SeekToProgress(to) ==
    /\ opening = "no" /\ audioTrackPlayer # 0 /\ seeks < MaxSeeks
    /\ Rest
    /\ decodeTasks' = Append(decodeTasks, SeekTask(to))
    /\ seeks' = seeks + 1
    /\ UNCHANGED <<audioTrackPlayer, marker, isPaused, audioProgress, buffersWrited, opening,
                   uiTasks, playerTasks, player, held, into, fresh, loop, file, buffers,
                   plays, pauses, ready, given, lost, faults, mute>>

FirstUi(kind) == opening = "no" /\ uiTasks # <<>> /\ Head(uiTasks).kind = kind

Sought ==
    /\ FirstUi("sought")
    /\ uiTasks' = Tail(uiTasks)
    /\ IF isPaused
       THEN UNCHANGED <<trackPlaying, playerTasks>>
       ELSE trackPlaying' = (audioTrackPlayer # 0) /\ playerTasks' = playerTasks + 1
    /\ UNCHANGED <<audioTrackPlayer, marker, isPaused, audioProgress, buffersWrited, opening,
                   writer, decodeTasks, loop, file, buffers, calls, ready, given, lost,
                   faults, mute>>

\* The part that says it is the last: see DecodePart.
LastPart == IF exact THEN Length - 1 ELSE Length

\* A message is at its end: by the last buffer of which message?
End(by, tooLate) ==
    LET ended == audioTrackPlayer # 0 /\ ~tooLate IN
    /\ CleanupPlayer
    /\ unearned' = (unearned \/ (ended /\ audioTrackPlayer # by))
    /\ early' = (early \/ (ended /\ given < LastPart /\ ~mute))

\* Some of a buffer was written.  After the last one the track sets its marker,
\* which is a mark behind which it already is, or if there was no other buffer the
\* message ends at once.  It may be another track by now.
Wrote ==
    /\ FirstUi("wrote")
    /\ uiTasks' = Tail(uiTasks)
    /\ LET t == Head(uiTasks)
           tooLate == late \/ ~t.fresh \/ t.track # audioTrackPlayer IN
       \/ /\ ~t.finished
          /\ UNCHANGED <<track, buffersWrited, faults>>
       \/ /\ t.finished /\ ~t.first
          /\ marker' = IF audioTrackPlayer = 0 THEN 0 ELSE t.play
          /\ late' = tooLate
          /\ UNCHANGED <<audioTrackPlayer, trackPlaying, isPaused, buffersWrited, spoiled,
                         unearned, early>>
       \/ /\ t.finished /\ t.first
          /\ End(t.play, tooLate)
          /\ UNCHANGED <<late, spoiled>>
    /\ QueuesFrame
    /\ UNCHANGED <<audioProgress, opening, calls>>

\* The track, once it plays, posts that it has reached its marker; ...
ReachMarker ==
    /\ trackPlaying /\ marker # 0
    /\ marker' = 0
    /\ uiTasks' = Append(uiTasks, [kind |-> "marker", play |-> marker,
                                   track |-> audioTrackPlayer, fresh |-> ~late])
    /\ QueuesFrame
    /\ UNCHANGED <<audioTrackPlayer, trackPlaying, isPaused, audioProgress, buffersWrited,
                   opening, calls, faults>>

\* ... its listener ends what is played by then, without asking by which track.
OnMarkerReached ==
    /\ FirstUi("marker")
    /\ uiTasks' = Tail(uiTasks)
    /\ LET t == Head(uiTasks) IN
       End(t.play, late \/ ~t.fresh \/ t.track # audioTrackPlayer)
    /\ QueuesFrame
    /\ UNCHANGED <<audioProgress, opening, calls, late, spoiled>>

-----------------------------------------------------------------------------
(* playerQueue, the task of checkPlayerQueue.                                *)

PlayerFrame ==
    UNCHANGED <<main, loop, file, calls, ready>>

\* Mutant: a track that is paused will do.
PlayerCheckAny ==
    /\ player = "idle" /\ playerTasks > 0
    /\ opening \notin {"wait", "opened"}
    /\ playerTasks' = playerTasks - 1
    /\ player' = IF audioTrackPlayer # 0 THEN "checked" ELSE "idle"
    /\ UNCHANGED <<buffersWrited, uiTasks, held, write, fresh, decodeTasks, buffers, given,
                   lost, faults, mute>>
    /\ PlayerFrame

\* Under the lock: is there a track that plays?
PlayerCheck ==
    /\ player = "idle" /\ playerTasks > 0
    /\ opening \notin {"wait", "opened"}
    /\ playerTasks' = playerTasks - 1
    /\ player' = IF trackPlaying THEN "checked" ELSE "idle"
    /\ UNCHANGED <<buffersWrited, uiTasks, held, write, fresh, decodeTasks, buffers, given,
                   lost, faults, mute>>
    /\ PlayerFrame

\* A buffer is taken, or the decoder asked for one.
PlayerTake ==
    /\ player = "checked"
    /\ \/ /\ usedPlayerBuffers # <<>>
          /\ player' = "holds"
          /\ held' = Head(usedPlayerBuffers)
          /\ usedPlayerBuffers' = Tail(usedPlayerBuffers)
          /\ fresh' = ready
          /\ UNCHANGED decodeTasks
       \/ /\ usedPlayerBuffers = <<>>
          /\ player' = "idle"
          /\ decodeTasks' = Append(decodeTasks, CheckTask)
          /\ UNCHANGED <<held, usedPlayerBuffers, fresh>>
    /\ UNCHANGED <<buffersWrited, uiTasks, playerTasks, write, freePlayerBuffers, given,
                   lost, faults, mute>>
    /\ PlayerFrame

\* AudioTrack.write is called of the track that is there now, if any.
BeginWrite ==
    /\ player = "holds"
    /\ player' = "writes"
    /\ into' = audioTrackPlayer /\ rested' = ~trackPlaying
    /\ UNCHANGED <<buffersWrited, uiTasks, playerTasks, held, fresh, decodeTasks, buffers,
                   given, lost, faults, mute>>
    /\ PlayerFrame

\* How much of it was written: a track that plays takes it whole, one that was
\* paused or released during the call some or nothing, and no track fails.
Counts ==
    IF into = 0 THEN {"none"}
    ELSE IF rested \/ into # audioTrackPlayer THEN {"none", "some", "all"}
    ELSE {"all"}

News ==
    [kind |-> "wrote", finished |-> held.finished, first |-> buffersWrited = 0,
     play |-> held.play, track |-> into, fresh |-> fresh]

\* The news of it is posted if anything was written, and the buffer given back.
PlayerWrite(count) ==
    LET own == fresh /\ audioTrackPlayer = into /\ into # 0 IN
    /\ player = "writes" /\ count \in Counts
    /\ player' = "idle" /\ held' = NoBuffer /\ fresh' = FALSE
    /\ into' = 0 /\ rested' = FALSE
    /\ buffersWrited' = IF buffersWrited = 0 THEN 1 ELSE 2
    /\ uiTasks' = IF count = "none" THEN uiTasks ELSE Append(uiTasks, News)
    /\ given' = IF own THEN held.part ELSE given
    /\ lost' = IF own /\ count # "all" THEN lost + 1 ELSE lost
    /\ spoiled' = (spoiled \/ (own /\ (held.play # into \/ held.part # given + 1)))
    /\ mute' = (mute \/ (own /\ held.finished /\ count = "none"))
    /\ IF held.finished
       THEN UNCHANGED <<playerTasks, decodeTasks>>
       ELSE playerTasks' = playerTasks + 1 /\ decodeTasks' = Append(decodeTasks, CheckTask)
    /\ freePlayerBuffers' = freePlayerBuffers + 1
    /\ UNCHANGED <<usedPlayerBuffers, late, unearned, early>>
    /\ PlayerFrame

-----------------------------------------------------------------------------
(* fileDecodingQueue.                                                      *)

FirstDecode(kind) ==
    /\ ~decoding /\ decodeTasks # <<>> /\ Head(decodeTasks).kind = kind
    /\ decodeTasks' = Tail(decodeTasks)

DecodeFrame ==
    UNCHANGED <<track, audioProgress, buffersWrited, player, held, write, calls, lost, faults>>

\* The file is closed and another one opened, if that goes well; the main
\* thread goes on.
OpenFile ==
    /\ FirstDecode("open")
    /\ \/ /\ opened' = Head(decodeTasks).play /\ exact' \in BOOLEAN
          /\ opening' = "opened"
       \/ /\ opened' = 0 /\ exact' = FALSE
          /\ opening' = "no"
    /\ position' = 1 /\ finished' = FALSE
    /\ ready' = FALSE /\ fresh' = FALSE /\ mute' = FALSE
    /\ UNCHANGED <<readFinished, decodingFinished, uiTasks, playerTasks, loop, buffers,
                   given>>
    /\ DecodeFrame

\* The native seek; which part is whole changes with it, the flag does not.  It
\* may fail.
SeekOpusFile(to) ==
    /\ \/ position' = to + 1 /\ exact' \in BOOLEAN
       \/ UNCHANGED <<position, exact>>
    /\ UNCHANGED <<opened, finished, readFinished>>

\* Mutant: the buffers are lost.
TakeBackLosing ==
    /\ usedPlayerBuffers' = <<>> /\ UNCHANGED freePlayerBuffers
    /\ fresh' = FALSE
    /\ given' = position' - 1

\* Mutant: what was decoded before stays.
TakeBackNone ==
    /\ UNCHANGED buffers
    /\ fresh' = FALSE
    /\ given' = position' - 1

\* The decoded buffers are given back.
TakeBack ==
    /\ freePlayerBuffers' = freePlayerBuffers + Len(usedPlayerBuffers)
    /\ usedPlayerBuffers' = <<>>
    /\ fresh' = FALSE
    /\ given' = position' - 1

\* The second task of playAudio.  Parts that were read before it are not given.
Reset ==
    /\ FirstDecode("reset")
    /\ \/ /\ audioTrackPlayer # 0 /\ audioProgress # 0
          /\ SeekOpusFile(audioProgress)
       \/ /\ audioTrackPlayer = 0 \/ audioProgress = 0
          /\ UNCHANGED <<opened, position, exact, finished, readFinished>>
    /\ TakeBack
    /\ decodingFinished' = FALSE
    /\ ready' = TRUE
    /\ playerTasks' = playerTasks + 1
    /\ UNCHANGED <<opening, uiTasks, loop, mute>>
    /\ DecodeFrame

\* After the end was decoded a seek finds no more sound: decodingFinished stays.
SeekFile ==
    /\ FirstDecode("seek")
    /\ SeekOpusFile(Head(decodeTasks).to)
    /\ TakeBack
    /\ uiTasks' = Append(uiTasks, SoughtTask)
    /\ mute' = (mute \/ decodingFinished)
    /\ UNCHANGED <<decodingFinished, opening, playerTasks, loop, ready>>
    /\ DecodeFrame

\* checkDecoderQueue.
DecodeCheck ==
    /\ FirstDecode("check")
    /\ decoding' = ~decodingFinished /\ was' = FALSE
    /\ playerTasks' = IF decodingFinished THEN playerTasks + 1 ELSE playerTasks
    /\ UNCHANGED <<file, opening, uiTasks, fresh, buffers, ready, given, mute>>
    /\ DecodeFrame

LoopFrame ==
    /\ UNCHANGED <<opening, decodeTasks, uiTasks, fresh, ready, given>>
    /\ DecodeFrame

FoundSome == was \/ usedPlayerBuffers # <<>>

\* The loop ends, and wakes the player up if there is something for it.
DecodeDone ==
    /\ decoding' = FALSE /\ was' = FALSE
    /\ playerTasks' = IF FoundSome THEN playerTasks + 1 ELSE playerTasks

\* There is no free buffer, ...
DecodeFull ==
    /\ decoding /\ freePlayerBuffers = 0
    /\ DecodeDone
    /\ UNCHANGED <<file, buffers, mute>>
    /\ LoopFrame

Fill(b) ==
    /\ freePlayerBuffers' = freePlayerBuffers - 1
    /\ usedPlayerBuffers' = Append(usedPlayerBuffers, b)
    /\ readFinished' = b.finished
    /\ decodingFinished' = (decodingFinished \/ b.finished)
    /\ was' = TRUE
    /\ UNCHANGED <<opened, exact, decoding, playerTasks, mute>>
    /\ LoopFrame

\* ... or a part is read into one.  The part before the last whole one says
\* that it is the last, because samples are compared with bytes.
DecodePart ==
    /\ decoding /\ freePlayerBuffers > 0
    /\ opened # 0 /\ ~finished /\ position <= Length
    /\ finished' = (position = LastPart)
    /\ position' = position + 1
    /\ Fill([play |-> opened, part |-> position, finished |-> finished'])

\* Without a file there is silence, and the old word on its end.
DecodeSilence ==
    /\ decoding /\ freePlayerBuffers > 0 /\ opened = 0
    /\ Fill([play |-> 0, part |-> 0, finished |-> readFinished])
    /\ UNCHANGED <<position, finished>>

\* ... or there is no part any more.
DecodeNothing ==
    /\ decoding /\ freePlayerBuffers > 0
    /\ opened # 0 /\ (finished \/ position > Length)
    /\ finished' = TRUE /\ readFinished' = TRUE /\ decodingFinished' = TRUE
    /\ mute' = (mute \/ ~decodingFinished)
    /\ DecodeDone
    /\ UNCHANGED <<opened, position, exact, buffers>>
    /\ LoopFrame

-----------------------------------------------------------------------------
Calls ==
    \/ StopAudio \/ PauseAudio \/ ResumeAudio
    \/ \E n \in Places : PlayAudio(n) \/ SeekToProgress(n)

MainThread == MakeTrack \/ TrackFails \/ PostReset \/ Sought \/ Wrote \/ OnMarkerReached

PlayerQueue ==
    \/ PlayerCheck \/ PlayerTake \/ BeginWrite
    \/ \E count \in {"none", "some", "all"} : PlayerWrite(count)

FileDecodingQueue ==
    \/ OpenFile \/ Reset \/ SeekFile
    \/ DecodeCheck \/ DecodeFull \/ DecodePart \/ DecodeSilence \/ DecodeNothing

Next == Calls \/ MainThread \/ ReachMarker \/ PlayerQueue \/ FileDecodingQueue

Spec == Init /\ [][Next]_vars

\* The three threads run what is posted to them, and a track that plays comes
\* to its marker.
FairSpec ==
    /\ Spec
    /\ WF_vars(MainThread) /\ WF_vars(ReachMarker)
    /\ WF_vars(PlayerQueue) /\ WF_vars(FileDecodingQueue)

-----------------------------------------------------------------------------
(* Properties.                                                             *)

OrNone(S) == S \cup {0}

Buffer == [play : OrNone(Messages), part : 0..Length, finished : BOOLEAN]

\* No buffer is lost or doubled on its way between the queues.
BuffersKept ==
    freePlayerBuffers + Len(usedPlayerBuffers)
        + (IF player \in {"holds", "writes"} THEN 1 ELSE 0)
        = Buffers

TypeOK ==
    /\ audioTrackPlayer \in OrNone(Messages) /\ marker \in OrNone(Messages)
    /\ {trackPlaying, isPaused, decoding, was, exact, finished, readFinished,
        decodingFinished, rested, ready, fresh, late, spoiled, unearned, early, mute}
           \subseteq BOOLEAN
    /\ audioTrackPlayer = 0 => ~trackPlaying /\ marker = 0
    /\ audioProgress \in Places /\ buffersWrited \in 0..2
    /\ opening \in {"no", "wait", "opened", "made"}
    /\ \A t \in ToSet(uiTasks) : t.kind \in {"wrote", "marker", "sought"}
    /\ playerTasks \in Nat /\ player \in {"idle", "checked", "holds", "writes"}
    /\ held \in Buffer /\ into \in OrNone(Messages)
    /\ \A t \in ToSet(decodeTasks) : t.kind \in {"check", "open", "reset", "seek"}
    /\ opened \in OrNone(Messages) /\ position \in 1..(Length + 1)
    /\ freePlayerBuffers \in 0..Buffers /\ usedPlayerBuffers \in Seq(Buffer)
    /\ plays \in 0..MaxPlays /\ seeks \in 0..MaxSeeks /\ pauses \in 0..MaxPauses
    /\ given \in 0..Length /\ lost \in Nat
    /\ BuffersKept

\* From the time the buffers were taken back, what is given to the track is the
\* next part of its own message, each part once, through pauses and seeks; a
\* message is ended by no news of another one; and by its own not before all its
\* parts were given, but for the very last one if the file fills it.  The
\* exceptions are a buffer that the player had taken before, and news that was on
\* its way when the message changed, of a buffer or of the marker: these go to
\* whatever track is there, sound in the next message, and can end it; and a
\* message that was sought back when its end was already decoded.
PlayedAsItIs == ~spoiled /\ ~unearned /\ ~early

\* checkPlayerQueue throws a buffer away that the track did not take, or not whole.
\* A pause or a seek costs no more than the one buffer that was on its way to the
\* track, however many tasks of the two queues it meets.
PausesCostOnePart == lost <= pauses + seeks

\* A message that is neither paused nor stopped is at its end at some time,
\* although nothing but the two queues waking each other keeps it going.  The
\* exceptions: the file ended without a buffer to carry the news; the track that
\* was to take that buffer was paused then and took nothing of it; or the user
\* sought back after the end was decoded.
PlaybackEnds ==
    \A m \in Messages :
        (audioTrackPlayer = m) ~> (audioTrackPlayer # m \/ isPaused \/ mute)
===============================================================================
