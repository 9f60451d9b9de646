----------------------- MODULE NotificationsController -----------------------
(***************************************************************************)
(* The notifications about unread messages                                 *)
(* (messenger/NotificationsController.java) and the code that drives them: *)
(* the incoming-message event of MrMailbox.MrCallback, ChatActivity's       *)
(* opening, pausing and reading of a chat, the settings, and the swipe that *)
(* dismisses the notification.                                             *)
(*                                                                         *)
(* Two threads share the controller's lists without a lock.  The main       *)
(* thread removes messages that were seen (removeSeenMessages); the thread *)
(* of notificationsQueue runs tasks in the order they were posted: it adds *)
(* messages, shows the notification and clears the lists.  Each access of  *)
(* pushMessages is a step of its own; the compound updates of the two       *)
(* counters are single steps.                                              *)
(***************************************************************************)
EXTENDS Integers, Sequences, FiniteSets, SequencesExt

CONSTANTS
    Chats,     \* chat ids; 0 is "no chat"
    MaxMsgs,   \* bound: messages are 1..MaxMsgs, in the order they come in
    ChatOf,    \* message -> its chat
    Date,      \* message -> the date its sender gave it
    MaxActs    \* bound: what the user does

Messages == 1..MaxMsgs

ASSUME ControllerAssumption ==
    /\ MaxMsgs \in Nat /\ MaxActs \in Nat
    /\ Chats \subseteq Nat \ {0} /\ IsFiniteSet(Chats)
    /\ ChatOf \in [Messages -> Chats]
    /\ Date \in [Messages -> Nat]

VARIABLES
    arrived, unseen, deleted,            \* the backend's messages
    muted, badgeNumber, dismissDate,     \* preferences
    handled,     \* incoming-message events the main thread has handled
    activity,    \* the ChatActivity: its chat, paused, readWhenResume
    firstReads,  \* chats whose delayed first markseenChat is still to run
    ui,          \* where the main thread is in removeSeenMessages
    openedDialog, pushMessages, pushMessagesDict, pushDialogs,
    totalUnread, lastBadgeCount,         \* the controller's fields
    tasks,       \* notificationsQueue
    work,        \* where the queue's thread is in its task
    shade,       \* the notification the system shows
    crashed,     \* an exception ended the main thread
    acts

(* History variables. *)
VARIABLES
    overlapped,  \* a task ran during removeSeenMessages
    cleared,     \* a task cleared pushMessages during removeSeenMessages
    shifted,     \* ... or moved the message that was about to be removed
    forgotten,   \* chat -> messages cleared without pushDialogs being told
    due,         \* messages that were listed and read when a removal began
    outcome      \* message -> what its announcement led to

backend    == <<arrived, unseen, deleted>>
settings   == <<muted, badgeNumber, dismissDate>>
screen     == <<handled, activity, firstReads>>
lists      == <<pushMessages, pushMessagesDict>>
counts     == <<pushDialogs, totalUnread>>
marks      == <<openedDialog, lastBadgeCount>>
controller == <<marks, lists, counts>>
outside    == <<backend, settings, screen>>
accidents  == <<crashed, cleared, shifted>>
log        == <<forgotten, due, outcome>>
vars == <<outside, ui, controller, tasks, work, shade, accidents, acts, overlapped, log>>

-----------------------------------------------------------------------------
NoNotification == [count |-> 0, chats |-> 0, date |-> 0]
NoActivity     == [chat |-> 0, paused |-> FALSE, readWhenResume |-> FALSE]

\* The main thread is at `pc` of removeSeenMessages with loop index i; it goes
\* on with processNewMessages for message `next` unless that is 0.
UiIdle   == [pc |-> "idle", snapshot |-> {}, i |-> 0, msg |-> 0, removed |-> FALSE, next |-> 0]
WorkIdle == [pc |-> "idle", msg |-> 0, alert |-> FALSE]

OpenTask(c)  == [kind |-> "open",  of |-> c]
NewTask(m)   == [kind |-> "new",   of |-> m]
ShowTask     == [kind |-> "show",  of |-> 0]
BadgeTask(n) == [kind |-> "badge", of |-> n]

Of(c) == {m \in Messages : ChatOf[m] = c}

Listed == ToSet(pushMessages)

Removing == ui.pc \notin {"idle", "announce"}

\* Both threads are inside code that uses the lists.
Overlap == Removing /\ work.pc # "idle"
Watch   == overlapped' = (overlapped \/ Overlap')

Init ==
    /\ arrived = 0 /\ unseen = {} /\ deleted = {}
    /\ muted = {} /\ badgeNumber = TRUE /\ dismissDate = 0
    /\ handled = 0 /\ activity = NoActivity /\ firstReads = {}
    /\ ui = UiIdle
    /\ openedDialog = 0
    /\ pushMessages = <<>> /\ pushMessagesDict = {}
    /\ pushDialogs = [c \in Chats |-> 0] /\ totalUnread = 0
    /\ lastBadgeCount = -1
    /\ tasks = <<>> /\ work = WorkIdle
    /\ shade = NoNotification
    /\ crashed = FALSE /\ acts = 0
    /\ overlapped = FALSE /\ cleared = FALSE /\ shifted = FALSE
    /\ forgotten = [c \in Chats |-> 0]
    /\ due = {}
    /\ outcome = [m \in Messages |-> "none"]

-----------------------------------------------------------------------------
(* The backend, on its own threads.                                        *)

Arrive ==
    /\ ~crashed
    /\ arrived < MaxMsgs
    /\ arrived' = arrived + 1
    /\ unseen' = unseen \cup {arrived + 1}
    /\ UNCHANGED <<deleted, settings, screen, ui, controller, tasks, work, shade,
                   accidents, acts, log>>
    /\ Watch

-----------------------------------------------------------------------------
(* The main thread.                                                        *)

MainIdle == ui.pc = "idle" /\ ~crashed

UserActs == MainIdle /\ acts < MaxActs /\ acts' = acts + 1

\* markseenMsg and markseenChat, always followed by removeSeenMessages.
MarkSeen(S) == unseen' = unseen \ S

ToRemoval(m) == [UiIdle EXCEPT !.pc = "seen", !.next = m]
ToAnnounce(m) == [UiIdle EXCEPT !.pc = "announce", !.next = m]

\* MR_EVENT_INCOMING_MSG: an open ChatActivity reads the message of its chat
\* first, unless it is paused; processNewMessages comes after that.
HandleIncoming ==
    /\ MainIdle
    /\ handled < arrived
    /\ handled' = handled + 1
    /\ LET m == handled + 1 IN
       \/ /\ activity.chat = ChatOf[m] /\ ~activity.paused
          /\ MarkSeen({m})
          /\ ui' = ToRemoval(m)
          /\ UNCHANGED activity
       \/ /\ activity.chat = ChatOf[m] /\ activity.paused
          /\ activity' = [activity EXCEPT !.readWhenResume = TRUE]
          /\ ui' = ToAnnounce(m)
          /\ UNCHANGED unseen
       \/ /\ activity.chat # ChatOf[m]
          /\ ui' = ToAnnounce(m)
          /\ UNCHANGED <<activity, unseen>>
    /\ UNCHANGED <<arrived, deleted, settings, firstReads, controller, tasks, work,
                   shade, accidents, acts, log>>
    /\ Watch

\* processNewMessages: the check of the open chat is made here, on the main
\* thread; everything else is left to the queue.
Announce ==
    /\ ui.pc = "announce" /\ ~crashed
    /\ ui' = UiIdle
    /\ LET m == ui.next IN
       \/ /\ ChatOf[m] = openedDialog   \* and the screen is on
          /\ outcome' = [outcome EXCEPT ![m] = "sound"]
          /\ UNCHANGED tasks
       \/ /\ tasks' = Append(tasks, NewTask(m))   \* another chat, or the screen is off
          /\ UNCHANGED outcome
    /\ UNCHANGED <<outside, controller, work, shade, accidents, acts, forgotten,
                   due>>
    /\ Watch

-----------------------------------------------------------------------------
(* removeSeenMessages.                                                     *)

Return(u) == IF u.next = 0 THEN UiIdle ELSE ToAnnounce(u.next)

\* Mutant: an empty list ends the handling of the event as a whole.
SeenStartForgetful ==
    /\ ui.pc = "seen" /\ ~crashed
    /\ ui' = IF pushMessages = <<>> THEN UiIdle
             ELSE [ui EXCEPT !.pc = "loop", !.snapshot = unseen, !.i = 1]
    /\ due' = due \cup (Listed \ unseen)
    /\ UNCHANGED <<outside, controller, tasks, work, shade, accidents, acts,
                   forgotten, outcome>>
    /\ Watch

SeenStart ==
    /\ ui.pc = "seen" /\ ~crashed
    /\ ui' = IF pushMessages = <<>> THEN Return(ui)
             ELSE [ui EXCEPT !.pc = "loop", !.snapshot = unseen, !.i = 1]
    /\ due' = due \cup (Listed \ unseen)
    /\ UNCHANGED <<outside, controller, tasks, work, shade, accidents, acts,
                   forgotten, outcome>>
    /\ Watch

\* Mutant: the loop goes one element too far.
SeenLoopTooFar ==
    /\ ui.pc = "loop" /\ ~crashed
    /\ \/ /\ ui.i <= Len(pushMessages) + 1
          /\ ui' = [ui EXCEPT !.pc = "get"]
          /\ UNCHANGED tasks
       \/ /\ ui.i > Len(pushMessages) + 1
          /\ ui' = Return(ui)
          /\ tasks' = IF ui.removed THEN Append(tasks, ShowTask) ELSE tasks
    /\ UNCHANGED <<outside, controller, work, shade, accidents, acts, log>>
    /\ Watch

\* Mutant: removals do not update the notification.
SeenLoopQuiet ==
    /\ ui.pc = "loop" /\ ~crashed
    /\ \/ /\ ui.i <= Len(pushMessages)
          /\ ui' = [ui EXCEPT !.pc = "get"]
          /\ UNCHANGED tasks
       \/ /\ ui.i > Len(pushMessages)
          /\ ui' = Return(ui)
          /\ UNCHANGED tasks
    /\ UNCHANGED <<outside, controller, work, shade, accidents, acts, log>>
    /\ Watch

SeenLoop ==
    /\ ui.pc = "loop" /\ ~crashed
    /\ \/ /\ ui.i <= Len(pushMessages)
          /\ ui' = [ui EXCEPT !.pc = "get"]
          /\ UNCHANGED tasks
       \/ /\ ui.i > Len(pushMessages)
          /\ ui' = Return(ui)
          /\ tasks' = IF ui.removed THEN Append(tasks, ShowTask) ELSE tasks
    /\ UNCHANGED <<outside, controller, work, shade, accidents, acts, log>>
    /\ Watch

\* pushMessages.get(i) throws when the list got shorter since the loop's check.
SeenGet ==
    /\ ui.pc = "get" /\ ~crashed
    /\ \/ /\ ui.i > Len(pushMessages)
          /\ crashed' = TRUE
          /\ UNCHANGED ui
       \/ /\ ui.i <= Len(pushMessages)
          /\ LET m == pushMessages[ui.i] IN
             ui' = IF m \in ui.snapshot
                   THEN [ui EXCEPT !.pc = "loop", !.i = @ + 1]
                   ELSE [ui EXCEPT !.pc = "drop", !.msg = m]
          /\ UNCHANGED crashed
    /\ UNCHANGED <<outside, controller, tasks, work, shade, cleared, shifted, acts,
                   log>>
    /\ Watch

SeenDrop ==
    /\ ui.pc = "drop" /\ ~crashed
    /\ pushMessagesDict' = pushMessagesDict \ {ui.msg}
    /\ ui' = [ui EXCEPT !.pc = "remove"]
    /\ UNCHANGED <<outside, marks, pushMessages, counts, tasks, work, shade,
                   accidents, acts, log>>
    /\ Watch

\* Mutant: the last message is removed.
SeenRemoveLast ==
    /\ ui.pc = "remove" /\ ~crashed
    /\ \/ /\ ui.i > Len(pushMessages)
          /\ crashed' = TRUE
          /\ UNCHANGED <<pushMessages, ui>>
       \/ /\ ui.i <= Len(pushMessages)
          /\ pushMessages' = Front(pushMessages)
          /\ ui' = [ui EXCEPT !.pc = "uncount"]
          /\ UNCHANGED crashed
    /\ UNCHANGED <<outside, marks, pushMessagesDict, counts, tasks, work, shade,
                   cleared, shifted, acts, log>>
    /\ Watch

\* pushMessages.remove(i): by index, whatever is there by now.
SeenRemove ==
    /\ ui.pc = "remove" /\ ~crashed
    /\ \/ /\ ui.i > Len(pushMessages)
          /\ crashed' = TRUE
          /\ UNCHANGED <<pushMessages, ui>>
       \/ /\ ui.i <= Len(pushMessages)
          /\ pushMessages' = RemoveAt(pushMessages, ui.i)
          /\ ui' = [ui EXCEPT !.pc = "uncount"]
          /\ UNCHANGED crashed
    /\ UNCHANGED <<outside, marks, pushMessagesDict, counts, tasks, work, shade,
                   cleared, shifted, acts, log>>
    /\ Watch

\* Mutant: a chat's count has no floor.
SeenUncountUnfloored ==
    /\ ui.pc = "uncount" /\ ~crashed
    /\ totalUnread' = totalUnread - 1
    /\ pushDialogs' = [pushDialogs EXCEPT ![ChatOf[ui.msg]] = @ - 1]
    /\ ui' = [ui EXCEPT !.pc = "loop", !.removed = TRUE]
    /\ UNCHANGED <<outside, marks, lists, tasks, work, shade, accidents, acts, log>>
    /\ Watch

\* Mutant: the index moves on although the list moved up.
SeenUncountSkipping ==
    /\ ui.pc = "uncount" /\ ~crashed
    /\ totalUnread' = totalUnread - 1
    /\ pushDialogs' = [pushDialogs EXCEPT ![ChatOf[ui.msg]] = IF @ <= 1 THEN 0 ELSE @ - 1]
    /\ ui' = [ui EXCEPT !.pc = "loop", !.i = @ + 1, !.removed = TRUE]
    /\ UNCHANGED <<outside, marks, lists, tasks, work, shade, accidents, acts, log>>
    /\ Watch

SeenUncount ==
    /\ ui.pc = "uncount" /\ ~crashed
    /\ totalUnread' = totalUnread - 1
    /\ pushDialogs' = [pushDialogs EXCEPT ![ChatOf[ui.msg]] = IF @ <= 1 THEN 0 ELSE @ - 1]
    /\ ui' = [ui EXCEPT !.pc = "loop", !.removed = TRUE]
    /\ UNCHANGED <<outside, marks, lists, tasks, work, shade, accidents, acts, log>>
    /\ Watch

-----------------------------------------------------------------------------
(* The user, on the main thread.                                           *)

\* A ChatActivity is created and resumed; 700 ms later the chat gets read,
\* whether or not it is still open, if it has messages.
OpenChat(c) ==
    /\ UserActs
    /\ activity = NoActivity
    /\ activity' = [NoActivity EXCEPT !.chat = c]
    /\ firstReads' = IF Of(c) \cap ((1..arrived) \ deleted) = {} THEN firstReads
                     ELSE firstReads \cup {c}
    /\ tasks' = Append(tasks, OpenTask(c))
    /\ UNCHANGED <<backend, settings, handled, ui, controller, work, shade, accidents,
                   log>>
    /\ Watch

FirstRead(c) ==
    /\ MainIdle
    /\ c \in firstReads
    /\ firstReads' = firstReads \ {c}
    /\ MarkSeen(Of(c))
    /\ ui' = ToRemoval(0)
    /\ UNCHANGED <<arrived, deleted, settings, handled, activity, controller, tasks,
                   work, shade, accidents, acts, log>>
    /\ Watch

\* Mutant: a chat that is left stays the opened one.
PauseUntold ==
    /\ UserActs
    /\ activity.chat # 0 /\ ~activity.paused
    /\ activity' = [activity EXCEPT !.paused = TRUE]
    /\ UNCHANGED tasks
    /\ UNCHANGED <<backend, settings, handled, firstReads, ui, controller, work,
                   shade, accidents, log>>
    /\ Watch

Pause ==
    /\ UserActs
    /\ activity.chat # 0 /\ ~activity.paused
    /\ activity' = [activity EXCEPT !.paused = TRUE]
    /\ tasks' = Append(tasks, OpenTask(0))
    /\ UNCHANGED <<backend, settings, handled, firstReads, ui, controller, work,
                   shade, accidents, log>>
    /\ Watch

Resume ==
    /\ UserActs
    /\ activity.paused
    /\ activity' = [activity EXCEPT !.paused = FALSE, !.readWhenResume = FALSE]
    /\ tasks' = Append(tasks, OpenTask(activity.chat))
    /\ \/ /\ activity.readWhenResume
          /\ MarkSeen(Of(activity.chat))
          /\ ui' = ToRemoval(0)
       \/ /\ ~activity.readWhenResume
          /\ UNCHANGED <<unseen, ui>>
    /\ UNCHANGED <<arrived, deleted, settings, handled, firstReads, controller, work,
                   shade, accidents, log>>
    /\ Watch

LeaveChat ==
    /\ MainIdle
    /\ activity.paused
    /\ activity' = NoActivity
    /\ UNCHANGED <<backend, settings, handled, firstReads, ui, controller, tasks,
                   work, shade, accidents, acts, log>>
    /\ Watch

\* The notifications are not told of messages that are deleted.
DeleteMsg(m) ==
    /\ UserActs
    /\ m <= arrived /\ m \notin deleted
    /\ activity.chat = ChatOf[m] /\ ~activity.paused
    /\ deleted' = deleted \cup {m}
    /\ unseen' = unseen \ {m}
    /\ UNCHANGED <<arrived, settings, screen, ui, controller, tasks, work, shade,
                   accidents, log>>
    /\ Watch

SetMuted(c, value) ==
    /\ UserActs
    /\ muted' = IF value THEN muted \cup {c} ELSE muted \ {c}
    /\ UNCHANGED <<backend, badgeNumber, dismissDate, screen, ui, controller, tasks,
                   work, shade, accidents, log>>
    /\ Watch

\* setBadgeEnabled reads the counter on the main thread.
SetBadgeEnabled(enabled) ==
    /\ UserActs
    /\ badgeNumber' = enabled
    /\ tasks' = Append(tasks, BadgeTask(IF enabled THEN totalUnread ELSE 0))
    /\ overlapped' = (overlapped \/ work.pc # "idle")
    /\ UNCHANGED <<backend, muted, dismissDate, screen, ui, controller, work, shade,
                   accidents, log>>

\* NotificationDismissReceiver: the user swiped the notification away.
Dismiss ==
    /\ UserActs
    /\ shade # NoNotification
    /\ dismissDate' = shade.date
    /\ shade' = NoNotification
    /\ UNCHANGED <<backend, muted, badgeNumber, screen, ui, controller, tasks, work,
                   accidents, log>>
    /\ Watch

-----------------------------------------------------------------------------
(* The thread of notificationsQueue.                                       *)

Busy(pc) == work.pc = pc /\ ~crashed

\* The next task is one that is done in a single step.
TakeTask ==
    /\ Busy("idle")
    /\ tasks # <<>>
    /\ tasks' = Tail(tasks)
    /\ LET t == Head(tasks) IN
       \/ /\ t.kind = "open"
          /\ openedDialog' = t.of
          /\ UNCHANGED <<lastBadgeCount, work, outcome>>
       \/ /\ t.kind = "badge"
          /\ lastBadgeCount' = t.of
          /\ UNCHANGED <<openedDialog, work, outcome>>
       \/ /\ t.kind = "show"
          /\ work' = [WorkIdle EXCEPT !.pc = "show"]
          /\ UNCHANGED <<openedDialog, lastBadgeCount, outcome>>
       \/ /\ t.kind = "new"
          /\ \/ /\ t.of \in pushMessagesDict \cup deleted \/ ChatOf[t.of] \in muted
                /\ outcome' = [outcome EXCEPT ![t.of] = "skipped"]
                /\ UNCHANGED work
             \/ /\ t.of \notin pushMessagesDict \cup deleted
                /\ ChatOf[t.of] \notin muted
                /\ outcome' = [outcome EXCEPT ![t.of] = "listed"]
                /\ work' = [pc |-> "list", msg |-> t.of, alert |-> TRUE]
          /\ UNCHANGED <<openedDialog, lastBadgeCount>>
    /\ UNCHANGED <<outside, ui, lists, counts, shade, accidents, acts, forgotten,
                   due>>
    /\ Watch

\* pushMessages.add(0, msgDrawObj)
AddToList ==
    /\ Busy("list")
    /\ pushMessages' = <<work.msg>> \o pushMessages
    /\ shifted' = (shifted \/ ui.pc \in {"drop", "remove"})
    /\ work' = [work EXCEPT !.pc = "dict"]
    /\ UNCHANGED <<outside, ui, marks, pushMessagesDict, counts, tasks, shade,
                   crashed, cleared, acts, log>>
    /\ Watch

AddToDict ==
    /\ Busy("dict")
    /\ pushMessagesDict' = pushMessagesDict \cup {work.msg}
    /\ work' = [work EXCEPT !.pc = "count"]
    /\ UNCHANGED <<outside, ui, marks, pushMessages, counts, tasks, shade, accidents,
                   acts, log>>
    /\ Watch

AddToCounts ==
    /\ Busy("count")
    /\ pushDialogs' = [pushDialogs EXCEPT ![ChatOf[work.msg]] = @ + 1]
    /\ totalUnread' = totalUnread + 1
    /\ work' = [work EXCEPT !.pc = "show"]
    /\ UNCHANGED <<outside, ui, marks, lists, tasks, shade, accidents, acts, log>>
    /\ Watch

\* showOrUpdateNotification: nothing to show ...
ShowOrUpdate ==
    /\ Busy("show")
    /\ work' = [work EXCEPT !.pc = IF pushMessages = <<>> THEN "clear" ELSE "notify"]
    /\ UNCHANGED <<outside, ui, controller, tasks, shade, accidents, acts, log>>
    /\ Watch

\* ... or pushMessages.get(0) decides: an exception is caught and ends the
\* task, a message not newer than the dismissal ends in dismissNotification.
Notify ==
    /\ Busy("notify")
    /\ \/ /\ pushMessages = <<>>
          /\ work' = WorkIdle
          /\ UNCHANGED <<shade, tasks>>
       \/ /\ pushMessages # <<>>
          /\ Date[Head(pushMessages)] <= dismissDate
          /\ work' = [work EXCEPT !.pc = "clear"]
          /\ UNCHANGED <<shade, tasks>>
       \/ /\ pushMessages # <<>>
          /\ Date[Head(pushMessages)] > dismissDate
          /\ shade' = [count |-> totalUnread,
                       chats |-> Cardinality({c \in Chats : pushDialogs[c] > 0}),
                       date  |-> Date[Head(pushMessages)]]
          /\ tasks' = IF badgeNumber THEN Append(tasks, BadgeTask(totalUnread)) ELSE tasks
          /\ work' = WorkIdle
    /\ UNCHANGED <<outside, ui, controller, accidents, acts, log>>
    /\ Watch

\* dismissNotification clears the lists and the total, and not pushDialogs.
ClearList ==
    /\ Busy("clear")
    /\ shade' = NoNotification
    /\ pushMessages' = <<>>
    /\ forgotten' = [c \in Chats |-> forgotten[c] + Cardinality(Listed \cap Of(c))]
    /\ cleared' = (cleared \/ Removing)
    /\ shifted' = (shifted \/ ui.pc \in {"drop", "remove"})
    /\ work' = [work EXCEPT !.pc = "clearDict"]
    /\ UNCHANGED <<outside, ui, marks, pushMessagesDict, counts, tasks, crashed, acts,
                   due, outcome>>
    /\ Watch

\* Mutant: the index by message is kept.
ClearDictKeeping ==
    /\ Busy("clearDict")
    /\ UNCHANGED pushMessagesDict
    /\ work' = [work EXCEPT !.pc = "clearCount"]
    /\ UNCHANGED <<outside, ui, marks, pushMessages, counts, tasks, shade, accidents,
                   acts, log>>
    /\ Watch

ClearDict ==
    /\ Busy("clearDict")
    /\ pushMessagesDict' = {}
    /\ work' = [work EXCEPT !.pc = "clearCount"]
    /\ UNCHANGED <<outside, ui, marks, pushMessages, counts, tasks, shade, accidents,
                   acts, log>>
    /\ Watch

\* Mutant: a dismissal leaves the badge alone.
ClearCountOnly ==
    /\ Busy("clearCount")
    /\ totalUnread' = 0
    /\ UNCHANGED tasks
    /\ work' = WorkIdle
    /\ UNCHANGED <<outside, ui, marks, lists, pushDialogs, shade, accidents, acts,
                   log>>
    /\ Watch

ClearCount ==
    /\ Busy("clearCount")
    /\ totalUnread' = 0
    /\ tasks' = Append(tasks, BadgeTask(0))
    /\ work' = WorkIdle
    /\ UNCHANGED <<outside, ui, marks, lists, pushDialogs, shade, accidents, acts,
                   log>>
    /\ Watch

-----------------------------------------------------------------------------
RemoveSeen == SeenStart \/ SeenLoop \/ SeenGet \/ SeenDrop \/ SeenRemove \/ SeenUncount

User ==
    \/ \E c \in Chats : OpenChat(c) \/ SetMuted(c, c \notin muted)
    \/ Pause \/ Resume \/ LeaveChat \/ Dismiss
    \/ \E m \in Messages : DeleteMsg(m)
    \/ SetBadgeEnabled(~badgeNumber)

MainThread ==
    \/ HandleIncoming \/ Announce \/ RemoveSeen
    \/ \E c \in Chats : FirstRead(c)

QueueThread ==
    \/ TakeTask \/ AddToList \/ AddToDict \/ AddToCounts
    \/ ShowOrUpdate \/ Notify \/ ClearList \/ ClearDict \/ ClearCount

Next == Arrive \/ User \/ MainThread \/ QueueThread

Spec == Init /\ [][Next]_vars

\* Both threads are scheduled; the user and the network owe nothing.
FairSpec == Spec /\ WF_vars(MainThread) /\ WF_vars(QueueThread)

-----------------------------------------------------------------------------
(* Properties.                                                             *)

TypeOK ==
    /\ arrived \in 0..MaxMsgs /\ handled \in 0..arrived
    /\ unseen \in SUBSET (1..arrived) /\ deleted \in SUBSET (1..arrived)
    /\ muted \in SUBSET Chats /\ badgeNumber \in BOOLEAN /\ dismissDate \in Nat
    /\ activity \in [chat : Chats \cup {0}, paused : BOOLEAN, readWhenResume : BOOLEAN]
    /\ firstReads \in SUBSET Chats
    /\ ui \in [pc : {"idle", "announce", "seen", "loop", "get", "drop", "remove", "uncount"},
               snapshot : SUBSET Messages, i : Nat, msg : Messages \cup {0},
               removed : BOOLEAN, next : Messages \cup {0}]
    /\ openedDialog \in Chats \cup {0}
    /\ pushMessages \in Seq(Messages) /\ pushMessagesDict \in SUBSET Messages
    /\ pushDialogs \in [Chats -> Nat]
    /\ totalUnread \in Int /\ lastBadgeCount \in Int
    /\ tasks \in Seq([kind : {"open", "new", "show", "badge"}, of : Int])
    /\ work \in [pc : {"idle", "list", "dict", "count", "show", "notify", "clear",
                       "clearDict", "clearCount"},
                 msg : Messages \cup {0}, alert : BOOLEAN]
    /\ shade \in [count : Int, chats : Nat, date : Nat]
    /\ crashed \in BOOLEAN /\ acts \in 0..MaxActs
    /\ overlapped \in BOOLEAN /\ cleared \in BOOLEAN /\ shifted \in BOOLEAN
    /\ forgotten \in [Chats -> Nat]
    /\ due \in SUBSET Messages
    /\ outcome \in [Messages -> {"none", "sound", "skipped", "listed"}]

Settled == ui = UiIdle /\ work = WorkIdle /\ ~overlapped

\* As long as no task ran during a removeSeenMessages, the list, its index by
\* message and the counts agree whenever both threads are between two pieces of
\* work, whatever was added, seen, dismissed and added again: the total is the
\* length of the list, and the count of a chat the number of its messages in the
\* list plus exactly those that a dismissal took out behind the chat's back.
ListsAgree ==
    Settled =>
        /\ IsInjective(pushMessages)
        /\ pushMessagesDict = Listed
        /\ totalUnread = Len(pushMessages)
        /\ \A c \in Chats :
               pushDialogs[c] = Cardinality(Listed \cap Of(c)) + forgotten[c]

\* What a removeSeenMessages finds listed and read, or deleted, when it begins
\* is out of the list when it ends, and never comes back, whatever the queue's
\* thread adds in front of it or clears while the loop goes on by its index.
ReadIsTakenOut == ~Removing => due \cap Listed = {}

\* When the queue is empty the launcher's badge and the notification show the
\* total of now, and not the one of a task that was overtaken.
BadgeSettles ==
    Settled /\ tasks = <<>> =>
        \/ lastBadgeCount = IF badgeNumber THEN totalUnread ELSE 0
        \/ lastBadgeCount = -1 /\ (badgeNumber => totalUnread = 0)

ShadeSettles ==
    Settled /\ tasks = <<>> /\ shade # NoNotification =>
        /\ shade.count = totalUnread
        /\ shade.chats = Cardinality({c \in Chats : pushDialogs[c] > 0})

\* Messages that are added while removeSeenMessages walks the list cannot make
\* it fail with an IndexOutOfBoundsException; only a dismissal can.
CrashNeedsClearing == crashed => cleared

\* A message that nobody has read leaves the list by a dismissal only, unless
\* the list was moved under the index removeSeenMessages removes from.
RemovesOnlyRead ==
    [][\A m \in Listed \ Listed' : work.pc = "clear" \/ m \notin unseen \/ shifted]_vars

\* The chat that the user sees.
OnScreen == IF activity.paused THEN 0 ELSE activity.chat

\* A message that is answered by a sound only, and that nothing will list any
\* more, is of the chat that the user sees, unless the task that tells the
\* controller of the screen is still on its way: no order of openings, pauses
\* and leavings makes openedDialog stay with a chat that is not seen.
SilentOnlyIfSeen ==
    [][\A m \in Messages : outcome[m] # "sound" /\ outcome'[m] = "sound" =>
          ChatOf[m] = OnScreen \/ \E t \in ToSet(tasks) : t.kind = "open"]_vars

\* Every incoming message is answered by the sound of the open chat, by being
\* listed, or by a decision not to notify, also when it is read on arrival.
EveryMessageIsHandled ==
    \A m \in Messages : (arrived >= m) ~> (outcome[m] # "none" \/ crashed)

=============================================================================
