# TLA+ models of the Messenger Android frontend

The repository is an Android messenger: a Java frontend (descended from
Telegram for Android) over a C backend that speaks IMAP and SMTP. The backend
is a git submodule and is not part of the repository; what is here is the
frontend, its JNI glue, and vendored libraries. There are no tests, so the
code is the reference for everything below.

Paths are relative to `src/MessengerProj/src/main/java/com/b44t/`.

## 1. Inventory

The frontend runs on one *main thread* (Android's UI thread) and a handful of
`DispatchQueue` threads, each of which runs the tasks posted to it one at a
time and in order. Most components are singletons. What a component needs from
another thread it posts to that thread's queue; what it shares without posting
it shares, in most cases, without a lock.

| Component | State | Operations | Interacts with |
|---|---|---|---|
| Notification hub, `messenger/NotificationCenter.java` | observers per event, two deferred lists, delayed posts, nesting counter, animation flag | `addObserver`, `removeObserver`, `postNotificationName`, `setAnimationInProgress`, `setAllowedNotificationsDutingAnimation` | every screen and controller observes it; calls observers back synchronously |
| Unread notifications, `messenger/NotificationsController.java` | list of unread messages, index by id, count per chat, total, open chat, last badge | `processNewMessages`, `removeSeenMessages`, `setOpenedDialogId`, `setBadgeEnabled`, `showOrUpdateNotification`, `dismissNotification` | called by the message event and by `ui/ChatActivity.java`; own queue `notificationsQueue` |
| Download pool, `messenger/FileLoader.java`, `messenger/FileLoadOperation.java` | operation per file name, waiting operations, running count (three pools); per operation its state and rename retries | `loadFile`, `cancelLoadFile`, `checkDownloadQueue`; `start`, `cancel`, `onFinishLoadingFile` | `fileLoaderQueue` and `stageQueue`; delegate in `ImageLoader` |
| Message screen, `ui/ChatActivity.java` | chat, paused, read on resume | create, resume, pause, destroy, mark as seen, delete, mute | hub observer; drives the unread notifications |
| Backend facade, `messenger/MrMailbox.java`, `jni/mrwrapper.c` | the chat list in use | `MrCallback` (events from backend threads), `reloadMainChatlist`, `getMediaCount` | posts every event to the main thread; `getMediaCount` posts to the hub from `globalQueue` |
| Backend handles, `MrMsg`, `MrChat`, `MrChatlist`, `MrContact`, `MrPoortext` | a native pointer each | getters, `finalize` | finalizer thread releases what other threads use |
| Images, `messenger/ImageLoader.java`, `ImageReceiver.java`, `LruCache.java` | memory cache, use counts, maps from key, file and view to a loading image; per view its key and bitmap | load, cancel, decode, set bitmap, evict, recycle | `imageLoadQueue`, `cacheOutQueue` and the main thread; downloads by `FileLoader` |
| Voice, `messenger/MediaController.java`, `jni/audio.c` | recorder, buffers, track, one native encoder and one decoder | start and stop recording, read loop, encode, send; play, pause, seek | `recordQueue`, `fileEncodingQueue`, `playerQueue`, `fileDecodingQueue` |
| Animated images, `ui/Components/AnimatedFileDrawable.java` | native decoder, three bitmaps, flags | start, draw, load frame, recycle | two executor threads and the main thread |
| Fragment stack, `ui/ActionBar/ActionBarLayout.java` | fragments, running transition | present, close, swipe back, forced end | sets the hub's animation flag |
| Passcode lock, `UserConfig`, `ForegroundDetector`, `LaunchActivity`, `PasscodeView` | locked, pause time (persisted), waiting for entry, timer | pause, resume, lock, unlock, restart | activity life cycle |
| Task queues, `messenger/DispatchQueue.java` | handler, latch | `postRunnable`, `cancelRunnable` | everything |
| Application start, `messenger/ApplicationLoader.java` | wallpaper, initialised flag | `postInitApplication`, `loadWallpaper` | |
| Dialog data, `MessagesController`, `SendMessagesHelper`, `ContactsController` | mostly commented out | forward to the backend | |
| Other screens and cells; vendored code | layout | | not modelled |

What makes each of them correct, and what is hard about it:

- **Hub.** Observers are called in the middle of a broadcast and call the hub
  again. Broadcasts walk lists by index, so the lists may not move; deferred
  calls may not be lost; nobody may be told twice; a delayed post is told once.
- **Unread notifications.** Two threads, one set of lists, no lock. The list,
  its index, the counters, the badge and the notification have to tell the same
  story once both are done; reading a chat takes its messages out, and nothing
  but reading or dismissing does.
- **Download pool.** Slots are counted, a waiting download is woken up, an end
  is reported once, a file is loaded by one operation at a time, through
  cancellations at every moment.
- **Images.** Bitmaps are recycled by hand: one that is shown is not recycled,
  and one that nobody shows can be. Loads are found by file, by key and by view
  in three maps, which are emptied by name; a view that waits is not forgotten
  in any of them.
- **Voice.** What was recorded goes into its own file and is handed over with
  its own duration; a stop ends what a start began. When playing, buffers are
  neither lost nor used twice between the two queues, a message is played in its
  order, a pause costs next to nothing of it, and it comes to its end.
- **Animated images.** The decoder is destroyed once, not used afterwards, and
  not leaked.
- **Fragment stack.** Every transition ends once; the animation flag is off
  when no transition runs.
- **Passcode.** After the time set for it the lock screen appears, also after a
  restart.

`PROJECT.json` lists the hazards with their lines and the properties that cover
them.

## 2. Plan

| # | Modules | State |
|---|---|---|
| 1 | `EventBus` (abstract), `NotificationCenter`, `NotificationCenterProofs`, `ListLemmas` | checked and proved |
| 2 | `NotificationsController`, with `ChatActivity` and the message event as its environment; `NotificationsControllerProofs` | checked and proved |
| 3 | `FileLoader`, with `FileLoadOperation`, `FileLoaderProofs` | checked and proved |
| 4 | `ImageLoader`: the maps of loads, the memory cache, use counts, the views; `ImageLoaderProofs` | checked and proved |
| 5 | `VoiceRecorder`: recorder and encoder; `VoiceRecorderProofs` | checked and proved |
| 6 | `VoicePlayer`: decoder, player and track; `VoicePlayerProofs` | checked and proved |
| 7 | `AnimatedFileDrawable`: one decoder, a pool of threads; `AnimatedFileDrawableProofs` | checked and proved |

Section 7 says why the rest of the inventory is left out.

"Proved" means every invariant and action property of the component, and the
refinement of `EventBus`; liveness is checked only (section 6).

## 3. Modules and code

### NotificationCenter

The main thread is the only actor, and its call stack is the variable `stack`.
A frame is a broadcast that is about to call its `a`-th observer
(`postNotificationNameInternal`), a flush of the delayed posts at position `at`
(the loop of `setAnimationInProgress`), or the replay of deferred calls after
the outermost broadcast. Application code runs (`AppRuns`) when the stack is
empty, as a message of the main looper, or while a broadcast calls an observer;
it may then call any public method, so the model contains every nesting of
broadcasts, flushes and registrations within the bounds. The hub's own steps
(`Run`) are the loop iterations. `FlushNext` models the iterator of the `for`
loop: it stops at the size the list had when it was made, and fails when the
list changed since.

Abstracted: the arguments of a post are its number; observers compare by
identity, as the classes that register do. The order of events in the replay is
free, which is at least what `SparseArray` does.

`EventBus` is what users of the hub rely on: per event a *set* of observers,
broadcasts that tell every member once, registrations that take effect at once
when nothing is broadcast and at the end of all broadcasts otherwise. The
refinement mapping takes an observer as registered, during the replay, when the
replay ends with it registered; a broadcast's set of observers still to tell is
the rest of the list behind its index.

### NotificationsController

Two threads. The main thread handles an incoming message (`HandleIncoming`: an
open chat that is not paused marks it as seen and calls `removeSeenMessages`;
then `processNewMessages` runs, `Announce`), walks the list in
`removeSeenMessages` (`SeenStart` to `SeenUncount`, one step per access of a
shared list), and runs the user's actions. The thread of `notificationsQueue`
takes tasks in order: set the open chat, add a message (`AddToList`,
`AddToDict`, `AddToCounts`), show (`ShowOrUpdate`, `Notify`), clear
(`ClearList`, `ClearDict`, `ClearCount`), set the badge.

Abstracted: messages are numbers in order of arrival, with a chat and a date
given by constants (dates come from the sender and need not be ordered);
whether the screen is on is a free choice in `Announce`, and so is muting; the
global and group switches act like muting. `delayedPushMessages` is written and
never read, and left out. Sounds and texts are left out. The steps inside
`total_unread_count++` are not separated: a lost update needs both threads
inside the code at once, which `overlapped` records, and what the counters are
worth after that is not claimed.

History variables: `overlapped`, `cleared` and `shifted` say that a task ran
during a removal, cleared the list, or moved it; `forgotten` counts messages
that a dismissal dropped without telling `pushDialogs`; `due` are the messages
that were listed and read, or deleted, when a removal began; `outcome` is what
became of an announcement.

### FileLoader

One of the three identical pools. Callers append tasks to `fileTasks`
(`fileLoaderQueue`); `LoadAgain`, `LoadNew`, `Cancel` and `CheckDownloadQueue`
are those tasks, each a single step, because nothing else touches the pool. An
operation goes on in `stageTasks` (`stageQueue`): `Fail`, `Request`,
`FinishStage`, `RetryStage` (the rename tried again after 200 ms, in any order
with later tasks), `CancelStage`. `Start` covers what `start` finds: the file is
there, the start fails, the temporary file is complete, or the network is
needed. The request itself was taken out of the code, so `Request` changes
nothing and the operation stays until it is cancelled.

Abstracted: sizes, paths and keys. An exception in a rename or a delete
(`SecurityException`) does not happen.

History variables: `holders` are the operations that were started and whose end
has not been processed; `unearned` counts ends of operations that held no slot;
`cancelled`, `broken`, `reports` are what their names say.

### ImageLoader

The main thread runs the views' calls (`SetImage`, `SetImageAgain`,
`ClearImage`, `CancelLoadImage`, `DrawError`, all of `ImageReceiver`) and the
tasks that come back to it (`UiFileTask`, `Decoded`, `Show`). `imageLoadQueue`
owns the three maps: a view leaves the load it is in (`CancelLoading`), or joins
one or starts one (`AlreadyAdded`, `JoinOrCreate`); a file arrives or fails
(`FileDidLoaded`, `FileDidFailedLoad`); a decoded bitmap is handed to the views
of its load (`SetDecoded`). `cacheOutQueue` decodes (`Decode`, `EndDecode`: a
cancellation is looked at when the task starts). The download pool is
`EndDownload`; a cancelled download says nothing, since `fileDidFailedLoad`
returns for it. A load and the bitmap it decodes have one number; a load that is
0 is none.

The cache is the sequence of its bitmaps in the order of their last use. A call
of a view is one action with all it does: `setImage` of another key releases the
old image (`recycleBitmap`) and asks the cache, and posts either a cancellation
or a load.

Abstracted: all bitmaps have one size, so that the capacity is a number of
bitmaps; keys are an image with its filter and have a file (`UrlOf`); a view's
thumbnail, which takes the same way under a tag of its own, is left out, and so
are the generated thumbnails and HTTP (no caller passes a URL beginning with
`http`, so that its slots are never taken).

History variables: `excused` are the views whose load was cancelled or failed, or
that were put into the load of another key; `tainted` are the keys of which a
view was handed a bitmap that had been recycled on its way; `doubled` are the
keys that a view was handed, or dropped, once more than was counted.

### VoiceRecorder

The main thread: `StartRecording`, `StopRecording`, and the answers `Started` and
`Sent`. `recordQueue`: a start whose delay is over (`Due`) is refused, fails to
open its file, fails to start the recorder, or succeeds; then a task that posts
itself reads (`Read`, `ReadEnds`, `ReadNothing`), and `Stop` stops the recorder,
so that the next reading finds the end and calls `stopRecordingInternal`.
`fileEncodingQueue`: `Write` and `Close`, into whichever file the one native
encoder has open (`encoder`).

Abstracted: sound is chunks, each long enough to make a message; the samples are
the number of the recording they are of, and so is `recordDialogId`, which stands
for all that a start writes into the shared fields. `send` is 0 or 2; 1, which
sends at once what 2 hands to the screen, takes the same way.

History variables: `crossed` says that `recordStartRunnable` was lost to another
start; `overtaken` that an encoder was opened while tasks of the last one
waited; `mixed` and `wrong` are the recordings that got another one's sound,
and another one's duration or samples; `unopened` are those whose file could not
be opened.

### VoicePlayer

The main thread: `PlayAudio` ends what is played, posts the opening of the file
and waits for it with the lock on the track (`opening`), then makes the track
(`MakeTrack`) and posts the task that takes the buffers back (`PostReset`);
`StopAudio`, `PauseAudio`, `ResumeAudio`, `SeekToProgress`; the news that a
buffer was written (`Wrote`), that a seek is done (`Sought`) and that the track
came to its marker (`OnMarkerReached`). `playerQueue`: the task of
`checkPlayerQueue` between its accesses of what others change (`PlayerCheck`,
`PlayerTake`, `BeginWrite`, `PlayerWrite`). `AudioTrack.write` is called and
returns in two steps, and what it returns (`Counts`) is the whole buffer if the
track played all the time, and any amount, also none, if it was paused, sought or
released before or during the call; the code drops the rest of the buffer, and
posts the news of it only if something was written.
`fileDecodingQueue`: opening, taking back, seeking, and the loop of
`checkDecoderQueue`, one step per turn. `fillBuffer` of `jni/audio.c` is
`DecodePart`, `DecodeSilence` and `DecodeNothing`: the last part of a file is
shorter than a buffer, or `exact`, and then the comparison of samples with bytes
lets the part before it say that it is the last.

Abstracted: parts are as large as a buffer; a position is a number of parts.
Whether a message is exact is chosen when its file is opened and at each seek.
`buffersWrited` is told apart up to 2, since the code asks for 1. A track that
plays reaches its marker at some time and posts that to the main thread
(`ReachMarker`), where the listener runs in its turn and ends whatever is played
by then. A native seek may fail and leave the position.

History variables: `ready` and `fresh` tell the buffers of the current message
since the taking back; `given` is the last part given to the track, `lost` counts
the parts that it did not take, or not whole; `late` is set while the track may be
ended by older news; `early` says that a message was ended by its own news before
its last part was given; `mute` says that the end of the file came without a
buffer, in a buffer of which the track took nothing, or was forgotten by a seek.

### AnimatedFileDrawable

The main thread draws, starts and stops, recycles and hears of loaded frames
(`UiRunnable`); a thread of the pool runs `loadFrameRunnable` in the steps
`Begin`, `CreateDecoder`, `CreateBitmap`, `GetVideoFrame`, `Tell`. The bitmap in
the background is never replaced, so that `backgroundBitmap`,
`nextRenderingBitmap` and `renderingBitmap` say whether the field holds the one
bitmap there is. The finalizer's call is a `Recycle`, since nothing else reaches
the object then.

## 4. Runs

| Run | Bounds | Properties |
|---|---|---|
| `hub` | 2 observers, 2 events, 3 posts, nesting 2 deep under application code, 1 deferred call per list | `TypeOK`, `NoDuplicateObservers`, `StableWhileBroadcasting`, `RegistrationOutcome` |
| `hub_bus` | 2 observers, 1 event, 3 posts, nesting 3 deep, 2 deferred calls per list | `PostedExactlyOnce`, `ImplementsBus`, `EventuallyBroadcast` |
| `unread` | 3 messages in 2 chats, 2 user actions | `TypeOK`, `ListsAgree`, `BadgeSettles`, `ShadeSettles`, `CrashNeedsClearing`, `ReadIsTakenOut`, `RemovesOnlyRead` |
| `unread_live` | 2 messages in 1 chat, 3 user actions | `SilentOnlyIfSeen`, `EveryMessageIsHandled` |
| `downloads` | 3 files, 5 calls | `TypeOK`, `SlotsAreCounted`, `AtMostThree`, `UnearnedNeedsCancel`, `WaitingIsWokenUp`, `ReportedOnce`, `OnePerFile` |
| `downloads_live` | 2 files, 4 calls | `CancelledEnds` |
| `images` | 2 views, 2 images of their own files, all there; 1 fits into the cache; 5 calls | `TypeOK`, `ShownIsAlive`, `CountsAreViews` |
| `image_files` | 2 views, 2 keys of 1 file that is not there; 2 fit into the cache; 5 calls | `NobodyIsForgotten` |
| `recorder` | 3 starts, 2 stops, 2 chunks each | `TypeOK`, `EncoderIsOwn`, `SentAsRecorded`, `StopStops`, `RunningIsRecorded` |
| `player` | 2 buffers, messages of 2 parts, 2 plays, 1 seek, 1 pause | `TypeOK`, `PlayedAsItIs` |
| `player_live` | 2 buffers, a message of 3 parts, 1 seek, 1 pause | `PausesCostOnePart`, `PlaybackEnds` |
| `animated` | 2 threads, nothing else is bounded | `TypeOK`, `DecoderIsAlive`, `ReleasedInTheEnd` |

Why the bounds are enough to meet the hard cases. In `hub`, two observers let
one be registered behind the other's index, in a broadcast within a broadcast.
In a flush the stack has two frames already, so the observers that a flush calls
can post, begin or end an animation only with the third level that `hub_bus`
has: there a flush of two delayed posts goes on after a nested broadcast, is
re-entered by a flush of its own, loses or repeats a post after that
(`reentered`), finds its iterator stale, and fails (`crashed`). In `unread`,
three messages let one arrive while another is removed and a third is listed
behind it, and the dates put a later message before a dismissal; two actions
open and pause a chat, or show and dismiss. `unread_live` has the third action
that resuming needs. In `downloads`, five calls load, cancel, and load the same
file again with two rivals for the slot. In `images`, a cache for one bitmap is
full with the first, and the second view's image evicts what the first one shows
or is about to show; five calls let both views show, one leave and come back.
`image_files` has the smallest case in which a view can join a load that is not
of its key; five calls let it leave, fail and come back. In `recorder`, three
starts put one between a start and its stop and let a third overtake both. In
`player`, a message of two parts can be decoded whole into the two buffers while
nothing is played, and the second message meets the buffers of the first; the
pause meets the write of either. `player_live` has one part more than there are
buffers, so that one must come back (with the code's three buffers it takes one
part more to the same end); the pause and the seek cost two buffers in some of
its behaviours, so the bound of `PausesCostOnePart` is met. `animated` has the
code's two threads and no bound on calls: its runs are all runs.

Observers and events, files, and views are interchangeable, and the safety runs
of the hub, the download pool and the images use that symmetry; the liveness
runs do not.

`CHECK_DEADLOCK` is off because these systems stop: the bounds on posts,
actions and calls are used up, and a process that ended (`crashed`) takes no
step. (In `animated` the user can always stop or draw; nothing depends on it.)

What the runs show beyond the properties holding; each is visible in a
history variable that a property mentions:

- An observer that is added and then removed within one broadcast *stays*
  registered (`crossed`), since removals are replayed first.
- Ending or beginning an animation from an observer that a flush is calling can
  repeat a post, lose one, or fail with `ConcurrentModificationException`
  (`reentered`).
- A dismissal forgets the counts per chat (`forgotten`), so the next
  notification names too many chats.
- `removeSeenMessages` can fail, or remove the wrong message, when the queue
  clears or extends the list under it (`cleared`, `shifted`).
- A cancelled download that waited gives back a slot it never held
  (`unearned`): each such cancellation lets one more download run at a time.
- A view that joins the download of its file, made for another key, never gets
  its bitmap (`excused`): the file goes to a load of the other key, whose bitmap
  the view refuses.
- The failure of a download that was cancelled can end the next one of the same
  file (`excused`).
- A bitmap is handed over by way of `imageLoadQueue`; if it is evicted on that
  way, the view gets it recycled (`tainted`) until drawing fails and loads it
  again. A second hand-over to the same view is counted twice (`doubled`), and
  bitmaps of that key are never recycled by the count again.
- A start overwrites `recordStartRunnable` of the one before, and the answer to
  an earlier start clears that of a later one (`crossed`): a stop in between does
  not cancel it, and the recording goes on.
- A recording that is started while the last one is still being encoded closes
  its file, takes its last sound, or leaves it no encoder at all, which ends the
  process (`overtaken`); and what is handed over while another recording has
  started gets that one's duration and chat. A recording whose file cannot be opened leaves
  `recordingAudio` set (`unopened`).
- A buffer that the player holds while the message changes sounds in the next
  one, and news of a last buffer, or of a marker that was reached, ends whatever is
  played when the main thread comes to it (`late`).
- A pause or a seek between the check of the track and the write of a buffer, or
  during the write, costs the rest of that buffer (`lost`). If it was the last one
  and nothing of it was written, there is no news of the end: after a resumption the
  two queues wake each other for ever (`mute`).
- After the end of a file was decoded, a seek back leaves the two queues waking
  each other without a sound (`mute`); so does a file with one whole part left,
  whose end comes without a buffer.
- The animated image is robust: the order of `loadFrameTask`, `destroyWhenDone`
  and `uiRunnable` makes up for the missing lock.

## 5. Fairness

- Hub: weak fairness of `Run` (an observer that was called returns, a loop goes
  on) and strong fairness of `AnimationEnds`: every caller of
  `setAnimationInProgress(true)` (`ChatActivity`, `ProfileActivity`,
  `PhotoViewer`, `ChatAttachAlert`) ends it from an animator's end callback, a
  message of the main looper, which finds the stack empty. It is strong because
  messages of the looper and nested calls alternate.
- Unread notifications: weak fairness of each thread. The user and the backend
  owe nothing.
- Download pool: weak fairness of both queues; callers owe nothing.
- Voice player: weak fairness of the main thread's tasks, of each of the two
  queues, and of `ReachMarker`: a queue runs what is posted to it, a call of
  `AudioTrack.write` returns (a paused track's with what fits), and a track that
  plays and whose marker is set behind what it has played reports it. The user
  owes nothing; a pause may last for ever and excuses `PlaybackEnds`.
- Animated image: weak fairness of `uiRunnable` (a looper runs what is posted), of
  the pool taking a task, and of each thread that has begun one. Nobody has to
  draw, start or recycle.
- Images and recorder: safety only, so none is assumed.

## 6. Proofs

`NotificationCenterProofs` proves, for all sets of observers and events and all
bounds, `Typing`, `ObserversAreDistinct`, `RegistrationFollowsIntent`,
`DelayedPostsAreKept` and `ListsAreStable`. The only assumption is
`NCAssumption`: the bounds are natural numbers.

The properties are not inductive alone. The invariant `IInv` adds:

- `CountsBroadcasts`: the nesting counter is the number of broadcast frames on
  the stack. Without it nothing says that a broadcast that returns to 0 was the
  outermost one.
- `DrainsAlone`: a replay is the top frame and no broadcast is on the stack, so
  the counter is 0. This is why replayed calls are not deferred again.
- `DeferredIsTransient`: deferred calls exist only during broadcasts or their
  replay.
- `IntentKept`: what is registered, less what is to be removed, plus what is to
  be added, is the intent of the callers, up to `crossed`.
- `FlushesKnowTheList` and `FlushUndisturbed`: the limit of a flush is the
  length of `delayedPosts` as long as nothing re-entered it, so its iterator
  cannot become stale.

A second invariant, `PostInv`, is about the posts: `PostsAreNumbered` (posts that
are held back are different ones, were made, and none was broadcast before it was
made) and `FlushesAreShallow` (application code that starts a flush is not nested
beyond the bound). With the flush's index from `IInv` they give
`DelayedPostsAreKept`, that is `PostedExactlyOnce`, whose other half, that the flush
does not fail, is `FlushUndisturbed`.

`HubImplementsBus` is the refinement: the hub implements `EventBus` under the
mapping in `NotificationCenter`, step by step. A registration outside broadcasts
changes the set of the bus; one that is deferred is a request to the bus; a call
of the next observer takes one member out of what the broadcast has still to tell
(the list has no observer twice, and is stable); the end of the outermost
broadcast is the one step of the bus that makes all requests take effect, since
during the replay the mapping already has the registration the replay ends with;
the replay itself, the flushes and the delayed posts are stutters or begin
broadcasts.

`FileLoaderProofs` proves, for all sets of files and any number of calls,
`Typing`, `CounterMatchesSlots`, `ThreeSlots` and `WaitingHasASlotAhead`
(`TypeOK`, `SlotsAreCounted`, `AtMostThree` and `WaitingIsWokenUp`), and then
`EndsAreReportedOnce`, `SlotsLostByCancel` and `OneOperationPerFile`
(`ReportedOnce`, `UnearnedNeedsCancel` and `OnePerFile`). The only assumption is `LoaderAssumption`: the number of calls is a natural number.
`SlotsAreCounted` by itself is not inductive: starting an operation that is in
`holders` already would count it twice. Its `IInv` therefore follows an operation
through its life:

- `CreatedInOrder`: operations are numbered as they are created, and the calls
  that are not spent cover the requests still in `fileLoaderQueue`; so the number
  of a new operation is free.
- `EnteredAreCreated`: the table of names has only operations that exist.
- `WaitingIsIdle`, `HoldersStarted`: what waits is idle and there once, what
  holds a slot was started; so no operation starts twice.
- `StagedIsNotWaiting`: an operation that has a task on `stageQueue` has left the
  queue. Without it a cancellation could turn a waiting operation into a failed
  one that is started later.
- `CountIsInBounds`: the counter is at most 3, and at least 1 while an operation
  waits.

The second three need another invariant, `EndInv`, on top of `IInv`:

- `Account`: the reports of an operation's end are one if its start failed and one
  if it ended, both only if it was cancelled; it holds its slot until the first of
  them is processed, and a report that is processed later is of a cancelled one.
  Without the count of reports still in `fileLoaderQueue` a second end could give back
  a slot that nobody paid for.
- `StageInv`: what begins an operation is its first task on `stageQueue` and is
  there once, and all its other tasks cancel it; so an operation that runs is not
  begun again.
- `FileInv`: the table of names has every operation that is not done under its own
  file, unless a load of that file was cancelled.

`AnimatedFileDrawableProofs` proves `TypeOK` and `DecoderIsAlive` for any number of
threads, from no assumption. Its `IInv` adds:

- `OneFrame`: a frame is on its way as a task in the pool's queue, or in the hands
  of one thread, or as news for the main thread, and as none of them unless
  `loadFrameTask` is set. So when `recycle` finds `loadFrameTask` unset nobody
  is decoding, and when `uiRunnable` runs nobody is either.
- `DecoderHeld`: `nativePtr` is the live decoder, and `destroyWhenDone` is set only
  while the news that reads it is still to come.
- `BitmapHeld`: after the bitmap was recycled no field that would be drawn holds it,
  or the image is not drawn any more.

`VoiceRecorderProofs` proves `TypeOK`, `EncoderIsOwn`, `SentAsRecorded`, `StopStops`
and `RunningIsRecorded` for any number of recordings, stops and chunks. Its
`IInv` has, besides the types:

- `StartsOnce`: every start is posted once and runs once, and of a recording whose
  start is pending nothing is known to the recorder, the encoder or the main
  thread. Everything else needs this: a second start of the same recording would
  open its file twice.
- `OneRunning`: `recordingAudio` is what the audio recorder records, unless the file
  was not opened.
- `UnlessOvertaken`: as long as no recording was started before the tasks of the last
  one were done, the encoder's tasks are about the one recording whose chat is
  kept, a close is the last of them, and the chunks counted and the chunks still to
  write are the chunks recorded.
- `UnlessCrossed`: `recordStartRunnable` is the one start that is pending, so a stop
  that clears it leaves none.

`VoicePlayerProofs` proves `TypeOK` (with `BuffersKept`: no buffer is lost or
doubled), `PlayedAsItIs` and `PausesCostOnePart` for any number of
buffers, any length of a message and any number of calls, pauses among them. Its
`IInv`:

- `OpenIsLast`: a file is opened while `playAudio` waits for it, after everything
  asked for before, so nothing of the last message follows it in the queue;
- `TrackOfFile`: the track and the open file are of the same message;
- `InOrder`: what was given to the track, the fresh buffer in the player's hands, the decoded
  buffers in their order, and the position in the file are consecutive parts of
  one message;
- `OwnNews`: news of a fresh buffer, and the marker it sets, are of the track's own
  message.

Two parts of `PlayedAsItIs` are in it (`OwnSound`). It says what the track is
*given*; what a track that is paused takes of it is the matter of `CostInv`, for
`PausesCostOnePart`: the parts lost, and the one buffer that may still be cut
because its write goes on while the track rests, or is to come while it does
(`AtRisk`), are no more than the pauses and seeks. The third part of
`PlayedAsItIs`, that a message is not ended before its last part was given,
needs that news is never of a track still to be made (`NewsOfThePast`), that the
buffers are taken back once for a track (`OneReset`), and that whatever says
that the message is over is right, wherever it is on its way from the decoder
through the player's buffer, the news, the marker and its message to the main
thread (`EndKnown`).

`NotificationsControllerProofs` proves all eight safety properties of the
notifications (`TypeOK`, `ListsAgree`, `BadgeSettles`, `ShadeSettles`, `CrashNeedsClearing`, `ReadIsTakenOut`, `RemovesOnlyRead`, `SilentOnlyIfSeen`) for any
chats, messages, dates and number of the user's actions. The assumption,
`ControllerAssumption`, is that messages belong to chats, have a date, and that
the chats are finite in number (they are rows of a database); the number of chats
in the notification would mean nothing otherwise.

The invariant has two parts, since the code promises two things: `Always` holds whatever
the threads do, `InStep` as long as no task ran during `removeSeenMessages`
(`~overlapped`). `Always` has:

- `AnnouncedOnce`, `ListedOnce`: a message is in the hands of the main thread, of one
  task, or of the list, and is listed once; this makes the removal of one element
  the removal of the message;
- `SnapshotIsCurrent`: nothing becomes read while the main thread walks the list;
- `IndexIsRight`: its index is one of the list unless a dismissal cleared it
  (`cleared`), and that of the message to remove unless the list was moved (`shifted`).

`CrashNeedsClearing` and `RemovesOnlyRead` follow from this part alone. `InStep` says by
how much the list, the index by message, the total and the counts per chat differ
at each step of either thread (`ListsInStep`, `TotalInStep`, `ChatsInStep`; after a
dismissal by what `forgotten` has), and what will be once the tasks have run: the notification shows
the totals of now or an update of it is due (`ShadeInStep`), and the last task that
sets the badge sets it to the total of now or an update is due (`BadgeInStep`). The
three properties about settled states are what is left of it when both threads are
idle.

Two properties have an invariant of their own on top of `Always`, and no excuse for
threads that overlap. `TakenOut`, for `ReadIsTakenOut`: while the list is walked, what
is due lies at the index or behind it, whatever is added in front or cleared; a message
that was taken out was announced before, so no task lists it again. `ScreenKnown`, for
`SilentOnlyIfSeen`: the last task that tells of the screen, or `openedDialog` if none
waits, names the chat that the user sees.

`ImageLoaderProofs` proves `TypeOK`, `ShownIsAlive`, `CountsAreViews` and
`NobodyIsForgotten` for any images, files, capacity and number of calls.
`ImageAssumption` asks that the views are finite in number, as objects on a screen
are; counts of them would mean nothing otherwise. The invariant, `Sound`, is built up in layers:

- `LoadsAreBounded`: loads are numbered as they are created, and a call that is not
  spent, a task that asks for an image and a download leave room for the loads they
  can still lead to (two of a call: the one that fetches the file, and the one
  that decodes it). So the number of a new load is free.
- `KeysAreOwn`: `imageLoadingByKeys` leads from a key to a load of that key.
- `DecodedOnce`, `BitmapsAreDecoded`: a load is in the hands of the decoder's queue, the
  decoder or the result on its way to the main thread, at one place and once, and
  meanwhile its bitmap is nowhere else. Without this a bitmap could enter the cache
  that was recycled before.
- `BitmapsFit`, `CacheIsMap`: a bitmap is shown and handed on for its own key, and the
  cache has one of each key; so the use count of a key speaks about one bitmap.
- `ShownIsAlive` and `CountsAreViews` then need each other: an evicted bitmap is
  recycled if its count is 0, which must mean that nobody shows it.

`NobodyIsForgotten` needs a second invariant, `Waiting`, which says who waits for what
while tasks are queued. Its first part, `Loading`, is about the loads:

- `TagsAreReceivers`: a view is a receiver of the load that `imageLoadingByTag` names,
  and of no other that is not over;
- `NamesAreOwn`, `DecodedAreLocal`: a file names a download of that file, and a key a
  load that is decoded, so what empties a map by name leaves the loads of others;
- `CancelledAreLeft`: only a load that nobody waits for is cancelled;
- `LocalAreDecoded`, `FilesAreDue`: a load to decode that has receivers or the name of a
  key is queued for the decoder, in its hands, or its result is on its way; a download with a name is downloaded,
  or the news of its file is on its way through the two threads.

Its second part, `WaitersAreServed`, is about the views: the last task of a waiting view
in `imageLoadQueue` asks for its key, or it will be shown a bitmap of it, or it has no
task there and is in a load of it. That it is the *last* task is the point: a view
that was cleared and set again has a cancel and a request queued, and only their
order keeps the second load. `LoadingOfATask` and `StepKeepsWaiting` have one case per
action.

Each preservation proof has one step per action. `ListLemmas` has the facts
about sequences the steps need: what appending, removing the first occurrence
and taking the tail do to the set of a list's members and to its being free of
duplicates.

Only model-checked are the liveness properties, since the prover does not handle
fairness: `EventuallyBroadcast`, `EveryMessageIsHandled`, `CancelledEnds`,
`PlaybackEnds` and `ReleasedInTheEnd`.

## 7. Not modelled

- **Backend and handles.** The backend is not here. A handle (`MrMsg` and its
  like) is a native pointer that a finalizer releases; whether it does so under a
  call that runs is decided by the runtime, and what the call then meets by the
  backend.
- **`getMediaCount`** posts to the hub from `globalQueue`. In debug builds the hub
  throws, in release builds two threads race on plain lists, for which there is
  no defined outcome to check. The hub is modelled with its one legal thread.
- **Passcode lock and application start.** What they do follows the platform's
  life-cycle callbacks of several activities, its timers and the wall clock, whose
  order the code does not fix; a model would be of the platform.
- **Fragment stack.** Transitions follow animators and layout passes of the
  platform. What they owe the hub is stated in section 5.
- **Images:** thumbnails and their generation, `replaceImageInCache`, HTTP, and the
  deletion of a file that does not decode (`ImageLoader.java:664`, `:818`): in
  the model a file that is there stays there.
- **Animated images:** a copy whose decoder cannot be made draws a bitmap of the
  copied sizes (`AnimatedFileDrawable.java:143`); it has no decoder to misuse.
- **Voice:** the race of `buffersWrited++` on `playerQueue` with its reset on
  the main thread (an increment is one step here), music (`MediaPlayer`,
  playlists), sensors, audio focus, the progress timer, the observers of
  downloads; video conversion (`scheduleVideoConvert` has no caller).
- **Dialog data, screens, cells and dialogs; vendored libraries.** Forwarding,
  layout and drawing; third-party code.
- Uploads (nothing starts one), the repeat timer and the wear and car
  notifications, whose code is commented out or never reached.
