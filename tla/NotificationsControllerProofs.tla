--------------------- MODULE NotificationsControllerProofs ---------------------
(***************************************************************************)
(* The safety properties of NotificationsController for any chats, any     *)
(* messages with any dates, and any number of acts of the user.            *)
(*                                                                         *)
(* The inductive invariant IInv has a part that always holds (Always: a    *)
(* message is announced once; what the main thread knows of the list it    *)
(* walks) and a part that holds as long as no task ran during a removal    *)
(* (InStep): by how much the list, its index, the total and the counts per *)
(* chat differ at each step of either thread, and that the notification    *)
(* and the badge will show the total, unless an update of them is on its   *)
(* way.                                                                    *)
(***************************************************************************)
EXTENDS NotificationsController, ListLemmas

Walking == ui.pc \in {"loop", "get", "drop", "remove", "uncount"}

UiPcs == {"idle", "announce", "seen", "loop", "get", "drop", "remove", "uncount"}
WorkPcs == {"idle", "list", "dict", "count", "show", "notify", "clear", "clearDict", "clearCount"}

UiState ==
    [pc : UiPcs, snapshot : SUBSET Messages, i : Nat, msg : Messages \cup {0},
     removed : BOOLEAN, next : Messages \cup {0}]

Task ==
    [kind : {"open"}, of : Chats \cup {0}] \cup [kind : {"new"}, of : Messages]
        \cup [kind : {"show"}, of : {0}] \cup [kind : {"badge"}, of : Int]

-----------------------------------------------------------------------------
(* The types, in groups of variables that change together.                 *)

BackendTyped ==
    /\ arrived \in 0..MaxMsgs
    /\ unseen \in SUBSET (1..arrived) /\ deleted \in SUBSET (1..arrived)

HandledTyped == handled \in 0..arrived

SettingsTyped ==
    /\ muted \in SUBSET Chats /\ badgeNumber \in BOOLEAN /\ dismissDate \in Nat

ScreenTyped ==
    /\ activity \in [chat : Chats \cup {0}, paused : BOOLEAN, readWhenResume : BOOLEAN]
    /\ firstReads \in SUBSET Chats

ActsTyped == acts \in 0..MaxActs

\* removeSeenMessages has a message once it found one to remove.
UiTyped ==
    /\ ui \in UiState
    /\ ui.pc \in {"drop", "remove", "uncount"} => ui.msg \in Messages
    /\ ui.pc = "announce" => ui.next \in Messages
    /\ Walking => ui.i >= 1

ListTyped == pushMessages \in Seq(Messages)
DictTyped == pushMessagesDict \in SUBSET Messages
CountsTyped == pushDialogs \in [Chats -> Nat] /\ totalUnread \in Int
MarksTyped == openedDialog \in Chats \cup {0} /\ lastBadgeCount \in Int
TasksTyped == tasks \in Seq(Task)

WorkTyped ==
    /\ work \in [pc : WorkPcs, msg : Messages \cup {0}, alert : BOOLEAN]
    /\ work.pc \in {"list", "dict", "count"} => work.msg \in Messages

ShadeTyped == shade \in [count : Int, chats : Nat, date : Nat]

FlagsTyped ==
    /\ crashed \in BOOLEAN /\ overlapped \in BOOLEAN
    /\ cleared \in BOOLEAN /\ shifted \in BOOLEAN

LogTyped ==
    /\ forgotten \in [Chats -> Nat] /\ due \in SUBSET Messages
    /\ outcome \in [Messages -> {"none", "sound", "skipped", "listed"}]

Typed ==
    /\ BackendTyped /\ HandledTyped /\ SettingsTyped /\ ScreenTyped /\ ActsTyped /\ UiTyped
    /\ ListTyped /\ DictTyped /\ CountsTyped /\ MarksTyped /\ TasksTyped /\ WorkTyped
    /\ ShadeTyped /\ FlagsTyped /\ LogTyped

-----------------------------------------------------------------------------
(* What always holds.                                                      *)

\* A message is announced once: by the main thread, then by one task ...
AnnouncedOnce ==
    /\ \A m \in Messages : m > handled => outcome[m] = "none"
    /\ ui.next # 0 =>
           /\ outcome[ui.next] = "none" /\ ui.next <= handled
           /\ NewTask(ui.next) \notin ToSet(tasks)
    /\ \A m \in Messages :
           /\ OnceIn(tasks, NewTask(m))
           /\ NewTask(m) \in ToSet(tasks) => outcome[m] = "none" /\ m <= handled

\* ... so that it is listed once.
ListedOnce ==
    /\ IsInjective(pushMessages)
    /\ \A m \in Listed : outcome[m] = "listed"
    /\ work.pc = "list" => outcome[work.msg] = "listed" /\ work.msg \notin Listed

\* While the main thread walks the list nothing becomes read, and what becomes
\* unread is not listed yet.
SnapshotIsCurrent ==
    Walking =>
        /\ ui.snapshot \subseteq unseen
        /\ \A m \in unseen : m <= handled => m \in ui.snapshot

\* The index is one of the list unless a dismissal cleared it, and the index
\* of the message that is removed unless the list was moved.
IndexIsRight ==
    /\ ui.pc \in {"get", "drop", "remove"} /\ ~cleared => ui.i <= Len(pushMessages)
    /\ ui.pc \in {"drop", "remove"} => ui.msg \notin ui.snapshot /\ ui.msg <= handled
    /\ ui.pc \in {"drop", "remove"} /\ ~shifted =>
           ui.i <= Len(pushMessages) /\ pushMessages[ui.i] = ui.msg

\* What overlaps is known, and the only cause of the accidents.
OverlapIsKnown ==
    /\ Overlap => overlapped
    /\ cleared => overlapped
    /\ shifted => overlapped
    /\ crashed => cleared

Always ==
    /\ Typed
    /\ AnnouncedOnce
    /\ ListedOnce
    /\ SnapshotIsCurrent
    /\ IndexIsRight
    /\ OverlapIsKnown

-----------------------------------------------------------------------------
(* What holds as long as no task ran during a removal.                     *)

One(p) == IF p THEN 1 ELSE 0

\* The list, its index by message, and the total.
ListsInStep ==
    /\ ui.pc = "remove" => pushMessagesDict = Listed \ {ui.msg}
    /\ ui.pc = "uncount" => ui.msg \notin Listed
    /\ work.pc = "dict" => pushMessagesDict = Listed \ {work.msg}
    /\ work.pc \in {"dict", "count"} => work.msg \in Listed
    /\ work.pc \in {"clearDict", "clearCount"} => pushMessages = <<>>
    /\ work.pc = "notify" => pushMessages # <<>>
    /\ ui.pc # "remove" /\ work.pc \notin {"dict", "clearDict"} => pushMessagesDict = Listed

TotalInStep ==
    work.pc \notin {"clearDict", "clearCount"} =>
        totalUnread = Len(pushMessages) + One(ui.pc = "uncount")
                        - One(work.pc \in {"dict", "count"})

InChat(c) == Listed \cap Of(c)

ChatsInStep ==
    \A c \in Chats :
        pushDialogs[c] = Cardinality(InChat(c)) + forgotten[c]
                            + One(ui.pc = "uncount" /\ ChatOf[ui.msg] = c)
                            - One(work.pc \in {"dict", "count"} /\ ChatOf[work.msg] = c)

\* An update of the notification is on its way.
UpdateDue ==
    \/ ShowTask \in ToSet(tasks)
    \/ work.pc \in {"show", "notify", "clear"}
    \/ Walking /\ ui.removed

ShadeInStep ==
    /\ work.pc \in {"clearDict", "clearCount"} => shade = NoNotification
    /\ shade # NoNotification /\ ~UpdateDue =>
           /\ shade.count = totalUnread
           /\ shade.chats = Cardinality({c \in Chats : pushDialogs[c] > 0})

\* What the tasks of kind k in list s leave behind when all have run: the last
\* one decides, and n stays if there is none.
LastOf(k, s, n, v) ==
    \/ \E i \in DOMAIN s :
           /\ s[i] = [kind |-> k, of |-> v]
           /\ \A j \in DOMAIN s : j > i => s[j].kind # k
    \/ n = v /\ \A i \in DOMAIN s : s[i].kind # k

\* The badge.
LastBadge(s, n, v) == LastOf("badge", s, n, v)

BadgeWillBe(v) == LastBadge(tasks, lastBadgeCount, v)

BadgeInStep ==
    IF badgeNumber
    THEN \/ UpdateDue \/ work.pc \in {"clearDict", "clearCount"}
         \/ BadgeWillBe(totalUnread)
         \/ BadgeWillBe(-1) /\ totalUnread = 0
    ELSE BadgeWillBe(0) \/ BadgeWillBe(-1)

InStep ==
    /\ ListsInStep
    /\ TotalInStep
    /\ ChatsInStep
    /\ ShadeInStep
    /\ BadgeInStep

IInv ==
    /\ Always
    /\ ~overlapped => InStep

-----------------------------------------------------------------------------
(* Types.                                                                  *)

\* The chats and the messages.
LEMMA ChatFacts ==
    /\ MaxMsgs \in Nat /\ MaxActs \in Nat
    /\ Chats \subseteq Nat \ {0} /\ IsFiniteSet(Chats)
    /\ ChatOf \in [Messages -> Chats] /\ Date \in [Messages -> Nat]
    /\ \A m \in Messages : m \in Nat /\ m # 0 /\ ChatOf[m] \in Chats /\ Date[m] \in Nat
    /\ \A c : Of(c) \subseteq Messages
BY ControllerAssumption DEF Messages, Of

\* The tasks.
LEMMA TaskKinds ==
    /\ \A c \in Chats \cup {0} : OpenTask(c) \in Task /\ OpenTask(c).kind = "open"
    /\ \A m \in Messages : /\ NewTask(m) \in Task
                           /\ NewTask(m).kind = "new" /\ NewTask(m).of = m
    /\ ShowTask \in Task /\ ShowTask.kind = "show"
    /\ \A n \in Int : /\ BadgeTask(n) \in Task
                      /\ BadgeTask(n).kind = "badge" /\ BadgeTask(n).of = n
    /\ \A t \in Task :
           /\ t.kind \in {"open", "new", "show", "badge"}
           /\ t.kind = "open" => t.of \in Chats \cup {0}
           /\ t.kind = "new" => t.of \in Messages /\ t = NewTask(t.of)
           /\ t.kind = "show" => t = ShowTask
           /\ t.kind = "badge" => t.of \in Int /\ t = BadgeTask(t.of)
BY DEF Task, OpenTask, NewTask, ShowTask, BadgeTask

\* The groups say what TypeOK says.
LEMMA TypedIsTypeOK == Typed => TypeOK
<1> SUFFICES ASSUME Typed
             PROVE  TypeOK
  OBVIOUS
<1>1. /\ arrived \in 0..MaxMsgs /\ handled \in 0..arrived
      /\ unseen \in SUBSET (1..arrived) /\ deleted \in SUBSET (1..arrived)
      /\ muted \in SUBSET Chats /\ badgeNumber \in BOOLEAN /\ dismissDate \in Nat
      /\ activity \in [chat : Chats \cup {0}, paused : BOOLEAN, readWhenResume : BOOLEAN]
      /\ firstReads \in SUBSET Chats
  BY DEF Typed, BackendTyped, HandledTyped, SettingsTyped, ScreenTyped
<1>2. /\ ui \in [pc : {"idle", "announce", "seen", "loop", "get", "drop", "remove", "uncount"},
                 snapshot : SUBSET Messages, i : Nat, msg : Messages \cup {0},
                 removed : BOOLEAN, next : Messages \cup {0}]
      /\ work \in [pc : {"idle", "list", "dict", "count", "show", "notify", "clear",
                         "clearDict", "clearCount"},
                   msg : Messages \cup {0}, alert : BOOLEAN]
  BY DEF Typed, UiTyped, WorkTyped, UiPcs, WorkPcs, UiState
<1>3. /\ openedDialog \in Chats \cup {0} /\ lastBadgeCount \in Int
      /\ pushMessages \in Seq(Messages) /\ pushMessagesDict \in SUBSET Messages
      /\ pushDialogs \in [Chats -> Nat] /\ totalUnread \in Int
      /\ shade \in [count : Int, chats : Nat, date : Nat]
  BY DEF Typed, MarksTyped, ListTyped, DictTyped, CountsTyped, ShadeTyped
<1>4. tasks \in Seq([kind : {"open", "new", "show", "badge"}, of : Int])
  <2> DEFINE T == [kind : {"open", "new", "show", "badge"}, of : Int]
  <2>1. Chats \subseteq Int /\ Messages \subseteq Int
    BY ChatFacts
  <2>2. Task \subseteq T
    <3> SUFFICES ASSUME NEW t \in Task
                 PROVE  t \in T
      OBVIOUS
    <3>1. t = [kind |-> t.kind, of |-> t.of]
      BY DEF Task
    <3>2. t.kind \in {"open", "new", "show", "badge"}
      BY TaskKinds
    <3>3. t.kind = "open" \/ t.kind = "new" \/ t.kind = "badge" => t.of \in Int
      <4>1. /\ t.kind = "open" => t.of \in Chats \cup {0}
            /\ t.kind = "new" => t.of \in Messages
            /\ t.kind = "badge" => t.of \in Int
        BY TaskKinds
      <4>2. \A n \in Chats \cup {0} : n \in Int
        BY <2>1
      <4>3. QED
        BY <2>1, <4>1, <4>2
    <3>4. t.kind = "show" => t.of = 0
      BY TaskKinds DEF ShowTask
    <3>5. QED
      BY <3>1, <3>2, <3>3, <3>4
  <2>3. tasks \in Seq(Task) /\ \A i \in 1..Len(tasks) : tasks[i] \in Task
    BY ElementOfSeq DEF Typed, TasksTyped
  <2> HIDE DEF T
  <2>4. \A i \in 1..Len(tasks) : tasks[i] \in T
    BY <2>2, <2>3
  <2>5. tasks \in Seq(T)
    BY <2>3, <2>4
  <2>6. QED
    BY <2>5 DEF T
<1>5. /\ crashed \in BOOLEAN /\ acts \in 0..MaxActs
      /\ overlapped \in BOOLEAN /\ cleared \in BOOLEAN /\ shifted \in BOOLEAN
      /\ forgotten \in [Chats -> Nat] /\ due \in SUBSET Messages
      /\ outcome \in [Messages -> {"none", "sound", "skipped", "listed"}]
  BY DEF Typed, ActsTyped, FlagsTyped, LogTyped
<1>6. QED
  BY <1>1, <1>2, <1>3, <1>4, <1>5 DEF TypeOK

\* A group whose variables do not change stays typed.
LEMMA SameTyped ==
    /\ BackendTyped /\ UNCHANGED <<arrived, unseen, deleted>> => BackendTyped'
    /\ HandledTyped /\ UNCHANGED <<arrived, handled>> => HandledTyped'
    /\ SettingsTyped /\ UNCHANGED <<muted, badgeNumber, dismissDate>> => SettingsTyped'
    /\ ScreenTyped /\ UNCHANGED <<activity, firstReads>> => ScreenTyped'
    /\ ActsTyped /\ UNCHANGED acts => ActsTyped'
    /\ UiTyped /\ UNCHANGED ui => UiTyped'
    /\ ListTyped /\ UNCHANGED pushMessages => ListTyped'
    /\ DictTyped /\ UNCHANGED pushMessagesDict => DictTyped'
    /\ CountsTyped /\ UNCHANGED <<pushDialogs, totalUnread>> => CountsTyped'
    /\ MarksTyped /\ UNCHANGED <<openedDialog, lastBadgeCount>> => MarksTyped'
    /\ TasksTyped /\ UNCHANGED tasks => TasksTyped'
    /\ WorkTyped /\ UNCHANGED work => WorkTyped'
    /\ ShadeTyped /\ UNCHANGED shade => ShadeTyped'
    /\ LogTyped /\ UNCHANGED <<forgotten, due, outcome>> => LogTyped'
<1>1. /\ BackendTyped /\ UNCHANGED <<arrived, unseen, deleted>> => BackendTyped'
      /\ HandledTyped /\ UNCHANGED <<arrived, handled>> => HandledTyped'
      /\ SettingsTyped /\ UNCHANGED <<muted, badgeNumber, dismissDate>> => SettingsTyped'
      /\ ScreenTyped /\ UNCHANGED <<activity, firstReads>> => ScreenTyped'
      /\ ActsTyped /\ UNCHANGED acts => ActsTyped'
  BY DEF BackendTyped, HandledTyped, SettingsTyped, ScreenTyped, ActsTyped
<1>2. UiTyped /\ UNCHANGED ui => UiTyped'
  BY DEF UiTyped, Walking
<1>3. /\ ListTyped /\ UNCHANGED pushMessages => ListTyped'
      /\ DictTyped /\ UNCHANGED pushMessagesDict => DictTyped'
      /\ CountsTyped /\ UNCHANGED <<pushDialogs, totalUnread>> => CountsTyped'
      /\ MarksTyped /\ UNCHANGED <<openedDialog, lastBadgeCount>> => MarksTyped'
      /\ TasksTyped /\ UNCHANGED tasks => TasksTyped'
      /\ WorkTyped /\ UNCHANGED work => WorkTyped'
      /\ ShadeTyped /\ UNCHANGED shade => ShadeTyped'
      /\ LogTyped /\ UNCHANGED <<forgotten, due, outcome>> => LogTyped'
  BY DEF ListTyped, DictTyped, CountsTyped, MarksTyped, TasksTyped, WorkTyped, ShadeTyped,
         LogTyped
<1>4. QED
  BY <1>1, <1>2, <1>3

\* Accidents and overlaps are marked with a Boolean.
LEMMA WatchTyped ==
    /\ Watch => overlapped' \in BOOLEAN
    /\ FlagsTyped /\ UNCHANGED <<crashed, cleared, shifted>> /\ overlapped' \in BOOLEAN
           => FlagsTyped'
<1>1. Watch => overlapped' \in BOOLEAN
  BY Zenon DEF Watch
<1>2. FlagsTyped /\ UNCHANGED <<crashed, cleared, shifted>> /\ overlapped' \in BOOLEAN
        => FlagsTyped'
  BY DEF FlagsTyped
<1>3. QED
  BY <1>1, <1>2

\* A task is added.
LEMMA AppendTyped ==
    ASSUME TasksTyped, NEW t \in Task, tasks' = Append(tasks, t)
    PROVE  TasksTyped'
BY DEF TasksTyped

\* The steps of removeSeenMessages: where the main thread goes, what it keeps.
LEMMA UiPcSet ==
    ASSUME NEW u \in UiState, NEW p \in UiPcs, NEW v, v = [u EXCEPT !.pc = p]
    PROVE  /\ v \in UiState /\ v.pc = p
           /\ v.snapshot = u.snapshot /\ v.i = u.i /\ v.msg = u.msg
           /\ v.removed = u.removed /\ v.next = u.next
BY DEF UiState

LEMMA UiNextSet ==
    ASSUME NEW u \in UiState, NEW v, v = [u EXCEPT !.pc = "loop", !.i = @ + 1]
    PROVE  /\ v \in UiState /\ v.pc = "loop" /\ v.i = u.i + 1
           /\ v.snapshot = u.snapshot /\ v.msg = u.msg
           /\ v.removed = u.removed /\ v.next = u.next
<1>1. "loop" \in UiPcs /\ u.i \in Nat /\ u.i + 1 \in Nat
  BY DEF UiPcs, UiState
<1>2. QED
  BY <1>1 DEF UiState

LEMMA UiRemovedSet ==
    ASSUME NEW u \in UiState, NEW v, v = [u EXCEPT !.pc = "loop", !.removed = TRUE]
    PROVE  /\ v \in UiState /\ v.pc = "loop" /\ v.removed = TRUE
           /\ v.snapshot = u.snapshot /\ v.i = u.i /\ v.msg = u.msg /\ v.next = u.next
<1>1. "loop" \in UiPcs
  BY DEF UiPcs
<1>2. QED
  BY <1>1 DEF UiState

LEMMA UiStates ==
    /\ UiIdle.pc = "idle" /\ UiIdle.next = 0 /\ UiIdle.removed = FALSE
    /\ UiIdle \in UiState
    /\ \A m \in Messages \cup {0} :
           /\ ToRemoval(m).pc = "seen" /\ ToRemoval(m).next = m
           /\ ToRemoval(m) \in UiState
           /\ ToAnnounce(m).pc = "announce" /\ ToAnnounce(m).next = m
           /\ ToAnnounce(m) \in UiState
BY DEF UiIdle, ToRemoval, ToAnnounce, UiPcs, UiState

\* The main thread is done, or goes on to announce a message.
LEMMA ReturnTyped ==
    ASSUME UiTyped, ui' = Return(ui)
    PROVE  /\ UiTyped' /\ ui'.pc \in {"idle", "announce"} /\ ui'.next = ui.next
<1>1. ui.next \in Messages \cup {0}
  BY DEF UiTyped, UiState
<1>2. CASE ui.next = 0
  BY <1>2, UiStates DEF Return, UiTyped, Walking
<1>3. CASE ui.next # 0
  BY <1>1, <1>3, UiStates DEF Return, UiTyped, Walking
<1>4. QED
  BY <1>2, <1>3

-----------------------------------------------------------------------------
(* What the actions do, on the variables one by one.                       *)

\* Nothing becomes unread.
Reads == unseen' \subseteq unseen

LEMMA MarkSeenReads ==
    ASSUME NEW S, MarkSeen(S)
    PROVE  Reads
BY DEF MarkSeen, Reads

\* An overlap is noted.
Noted == overlapped' \in BOOLEAN /\ (overlapped \/ Overlap' => overlapped')

LEMMA WatchNotes == Watch => Noted
BY Zenon DEF Watch, Noted

\* A task that neither announces a message nor sets the badge is added.
Posts(kinds) ==
    \/ tasks' = tasks
    \/ \E t \in Task : t.kind \in kinds /\ tasks' = Append(tasks, t)

\* The main thread outside removeSeenMessages: the user.
UserStep ==
    /\ ui.pc = "idle" /\ ~crashed
    /\ UNCHANGED ui \/ ui' = ToRemoval(0)
    /\ Reads /\ Noted
    /\ \/ Posts({"open"}) /\ UNCHANGED badgeNumber
       \/ /\ tasks' = Append(tasks, BadgeTask(IF badgeNumber' THEN totalUnread ELSE 0))
          /\ work.pc # "idle" => overlapped'
    /\ shade' \in {shade, NoNotification}
    /\ UNCHANGED <<arrived, handled, openedDialog, lastBadgeCount, pushMessages,
                   pushMessagesDict, pushDialogs, totalUnread, work, crashed, cleared,
                   shifted, forgotten, due, outcome>>

LEMMA PostsTyped ==
    ASSUME TasksTyped, NEW kinds, Posts(kinds)
    PROVE  TasksTyped'
BY DEF Posts, TasksTyped

LEMMA UserStepTyped ==
    ASSUME Typed, UserStep, deleted' \in SUBSET (1..arrived), SettingsTyped', ScreenTyped',
           acts' \in 0..MaxActs
    PROVE  Typed'
<1>1. UNCHANGED <<arrived, handled, openedDialog, lastBadgeCount, pushMessages,
                  pushMessagesDict, pushDialogs, totalUnread, work, crashed, cleared,
                  shifted, forgotten, due, outcome>>
  BY DEF UserStep
<1>2. BackendTyped' /\ HandledTyped' /\ ActsTyped'
  BY <1>1 DEF Typed, BackendTyped, HandledTyped, ActsTyped, UserStep, Reads
<1>3. UiTyped'
  BY SameTyped, UiStates DEF UserStep, Typed, UiTyped, Walking
<1>4. TasksTyped'
  <2>1. CASE Posts({"open"})
    BY <2>1, PostsTyped DEF Typed
  <2>2. CASE tasks' = Append(tasks, BadgeTask(IF badgeNumber' THEN totalUnread ELSE 0))
    <3>1. (IF badgeNumber' THEN totalUnread ELSE 0) \in Int
      BY DEF Typed, CountsTyped
    <3>2. QED
      BY <2>2, <3>1, TaskKinds DEF Typed, TasksTyped
  <2>3. QED
    BY <2>1, <2>2 DEF UserStep
<1>5. ShadeTyped'
  BY DEF Typed, ShadeTyped, NoNotification, UserStep
<1>6. FlagsTyped'
  BY <1>1, WatchTyped DEF Typed, UserStep, Noted
<1>7. LogTyped'
  BY <1>1 DEF Typed, LogTyped
<1>8. QED
  BY <1>1, <1>2, <1>3, <1>4, <1>5, <1>6, <1>7, SameTyped DEF Typed

LEMMA OpenChatIsUserStep ==
    ASSUME Typed, NEW c \in Chats, OpenChat(c)
    PROVE  UserStep /\ Typed'
<1>1. /\ ui.pc = "idle" /\ ~crashed /\ acts < MaxActs /\ acts' = acts + 1
      /\ activity' = [NoActivity EXCEPT !.chat = c]
      /\ firstReads' \subseteq firstReads \cup {c}
      /\ tasks' = Append(tasks, OpenTask(c))
      /\ UNCHANGED <<arrived, unseen, deleted, muted, badgeNumber, dismissDate, handled, ui,
                     openedDialog, lastBadgeCount, pushMessages, pushMessagesDict,
                     pushDialogs, totalUnread, work, shade, crashed, cleared, shifted,
                     forgotten, due, outcome>>
      /\ Watch
  BY DEF OpenChat, UserActs, MainIdle, outside, backend, settings, screen, controller, marks,
     lists, counts, accidents, log
<1>2. UserStep
  BY <1>1, WatchNotes, TaskKinds DEF UserStep, Reads, Posts
<1>3. SettingsTyped' /\ ScreenTyped'
  BY <1>1 DEF Typed, SettingsTyped, ScreenTyped, NoActivity
<1>4. acts' \in 0..MaxActs
  BY <1>1, ChatFacts DEF Typed, ActsTyped
<1>5. QED
  BY <1>1, <1>2, <1>3, <1>4, UserStepTyped DEF Typed, BackendTyped, LogTyped

LEMMA FirstReadIsUserStep ==
    ASSUME Typed, NEW c \in Chats, FirstRead(c)
    PROVE  UserStep /\ Typed'
<1>1. /\ ui.pc = "idle" /\ ~crashed
      /\ firstReads' \subseteq firstReads
      /\ MarkSeen(Of(c)) /\ ui' = ToRemoval(0)
      /\ UNCHANGED <<arrived, deleted, muted, badgeNumber, dismissDate, handled, activity,
                     openedDialog, lastBadgeCount, pushMessages, pushMessagesDict,
                     pushDialogs, totalUnread, tasks, work, shade, crashed, cleared, shifted,
                     acts, forgotten, due, outcome>>
      /\ Watch
  BY DEF FirstRead, MainIdle, outside, backend, settings, screen, controller, marks, lists,
     counts, accidents, log
<1>2. Reads
  BY <1>1, MarkSeenReads
<1>3. UserStep
  BY <1>1, <1>2, WatchNotes DEF UserStep, Posts
<1>4. SettingsTyped' /\ ScreenTyped'
  BY <1>1 DEF Typed, SettingsTyped, ScreenTyped
<1>5. QED
  BY <1>1, <1>2, <1>3, <1>4, UserStepTyped DEF Typed, BackendTyped, ActsTyped

LEMMA PauseIsUserStep ==
    ASSUME Typed, Pause
    PROVE  UserStep /\ Typed'
<1>1. /\ ui.pc = "idle" /\ ~crashed /\ acts < MaxActs /\ acts' = acts + 1
      /\ activity' = [activity EXCEPT !.paused = TRUE]
      /\ tasks' = Append(tasks, OpenTask(0))
      /\ UNCHANGED <<arrived, unseen, deleted, muted, badgeNumber, dismissDate, handled,
                     firstReads, ui, openedDialog, lastBadgeCount, pushMessages,
                     pushMessagesDict, pushDialogs, totalUnread, work, shade, crashed,
                     cleared, shifted, forgotten, due, outcome>>
      /\ Watch
  BY DEF Pause, UserActs, MainIdle, outside, backend, settings, screen, controller, marks,
     lists, counts, accidents, log
<1>2. UserStep
  BY <1>1, WatchNotes, TaskKinds DEF UserStep, Reads, Posts
<1>3. SettingsTyped' /\ ScreenTyped'
  BY <1>1 DEF Typed, SettingsTyped, ScreenTyped
<1>4. acts' \in 0..MaxActs
  BY <1>1, ChatFacts DEF Typed, ActsTyped
<1>5. QED
  BY <1>1, <1>2, <1>3, <1>4, UserStepTyped DEF Typed, BackendTyped, LogTyped

LEMMA ResumeIsUserStep ==
    ASSUME Typed, Resume
    PROVE  UserStep /\ Typed'
<1>1. PICK c : c = activity.chat
  OBVIOUS
<1>2. /\ ui.pc = "idle" /\ ~crashed /\ acts < MaxActs /\ acts' = acts + 1
      /\ activity' = [activity EXCEPT !.paused = FALSE, !.readWhenResume = FALSE]
      /\ tasks' = Append(tasks, OpenTask(c))
      /\ \/ MarkSeen(Of(c)) /\ ui' = ToRemoval(0)
         \/ UNCHANGED <<unseen, ui>>
      /\ UNCHANGED <<arrived, deleted, muted, badgeNumber, dismissDate, handled, firstReads,
                     openedDialog, lastBadgeCount, pushMessages, pushMessagesDict,
                     pushDialogs, totalUnread, work, shade, crashed, cleared, shifted,
                     forgotten, due, outcome>>
      /\ Watch
  BY <1>1 DEF Resume, UserActs, MainIdle, outside, backend, settings, screen, controller,
     marks, lists, counts, accidents, log
<1>3. Reads
  <2>1. CASE MarkSeen(Of(c))
    BY <2>1, MarkSeenReads
  <2>2. CASE UNCHANGED <<unseen, ui>>
    BY <2>2 DEF Typed, LogTyped, Reads
  <2>3. QED
    BY <1>2, <2>1, <2>2
<1>4. c \in Chats \cup {0}
  BY <1>1 DEF Typed, ScreenTyped
<1>5. Posts({"open"})
  BY <1>2, <1>4, TaskKinds DEF Posts
<1>6. UserStep
  BY <1>2, <1>3, <1>5, WatchNotes DEF UserStep
<1>7. SettingsTyped' /\ ScreenTyped'
  BY <1>2 DEF Typed, SettingsTyped, ScreenTyped
<1>8. acts' \in 0..MaxActs
  BY <1>2, ChatFacts DEF Typed, ActsTyped
<1>9. QED
  BY <1>2, <1>3, <1>6, <1>7, <1>8, UserStepTyped DEF Typed, BackendTyped

LEMMA LeaveChatIsUserStep ==
    ASSUME Typed, LeaveChat
    PROVE  UserStep /\ Typed'
<1>1. /\ ui.pc = "idle" /\ ~crashed
      /\ activity' = NoActivity
      /\ UNCHANGED <<arrived, unseen, deleted, muted, badgeNumber, dismissDate, handled,
                     firstReads, ui, openedDialog, lastBadgeCount, pushMessages,
                     pushMessagesDict, pushDialogs, totalUnread, tasks, work, shade, crashed,
                     cleared, shifted, acts, forgotten, due, outcome>>
      /\ Watch
  BY DEF LeaveChat, MainIdle, outside, backend, settings, screen, controller, marks, lists,
     counts, accidents, log
<1>2. UserStep
  BY <1>1, WatchNotes DEF UserStep, Reads, Posts
<1>3. SettingsTyped' /\ ScreenTyped'
  BY <1>1 DEF Typed, SettingsTyped, ScreenTyped, NoActivity
<1>4. QED
  BY <1>1, <1>2, <1>3, UserStepTyped DEF Typed, BackendTyped, ActsTyped, LogTyped

LEMMA DeleteMsgIsUserStep ==
    ASSUME Typed, NEW m \in Messages, DeleteMsg(m)
    PROVE  UserStep /\ Typed'
<1>1. /\ ui.pc = "idle" /\ ~crashed /\ acts < MaxActs /\ acts' = acts + 1
      /\ m <= arrived
      /\ deleted' = deleted \cup {m} /\ unseen' = unseen \ {m}
      /\ UNCHANGED <<arrived, muted, badgeNumber, dismissDate, handled, activity, firstReads,
                     ui, openedDialog, lastBadgeCount, pushMessages, pushMessagesDict,
                     pushDialogs, totalUnread, tasks, work, shade, crashed, cleared, shifted,
                     forgotten, due, outcome>>
      /\ Watch
  BY DEF DeleteMsg, UserActs, MainIdle, outside, backend, settings, screen, controller, marks,
     lists, counts, accidents, log
<1>2. UserStep
  BY <1>1, WatchNotes DEF UserStep, Reads, Posts
<1>3. SettingsTyped' /\ ScreenTyped'
  BY <1>1 DEF Typed, SettingsTyped, ScreenTyped
<1>4. acts' \in 0..MaxActs
  BY <1>1, ChatFacts DEF Typed, ActsTyped
<1>5. m \in 1..arrived
  BY <1>1 DEF Typed, BackendTyped, Messages
<1>6. QED
  BY <1>1, <1>2, <1>3, <1>4, <1>5, UserStepTyped DEF Typed, BackendTyped

LEMMA SetMutedIsUserStep ==
    ASSUME Typed, NEW c \in Chats, SetMuted(c, c \notin muted)
    PROVE  UserStep /\ Typed'
<1>1. /\ ui.pc = "idle" /\ ~crashed /\ acts < MaxActs /\ acts' = acts + 1
      /\ muted' = muted \cup {c} \/ muted' = muted \ {c}
      /\ UNCHANGED <<arrived, unseen, deleted, badgeNumber, dismissDate, handled, activity,
                     firstReads, ui, openedDialog, lastBadgeCount, pushMessages,
                     pushMessagesDict, pushDialogs, totalUnread, tasks, work, shade, crashed,
                     cleared, shifted, forgotten, due, outcome>>
      /\ Watch
  BY DEF SetMuted, UserActs, MainIdle, outside, backend, settings, screen, controller, marks,
     lists, counts, accidents, log
<1>2. UserStep
  BY <1>1, WatchNotes DEF UserStep, Reads, Posts
<1>3. SettingsTyped' /\ ScreenTyped'
  BY <1>1 DEF Typed, SettingsTyped, ScreenTyped
<1>4. acts' \in 0..MaxActs
  BY <1>1, ChatFacts DEF Typed, ActsTyped
<1>5. QED
  BY <1>1, <1>2, <1>3, <1>4, UserStepTyped DEF Typed, BackendTyped, LogTyped

\* The one act of the user that reads the controller's state.
LEMMA SetBadgeEnabledIsUserStep ==
    ASSUME Typed, SetBadgeEnabled(~badgeNumber)
    PROVE  UserStep /\ Typed'
<1>1. PICK b \in BOOLEAN : b = ~badgeNumber
  OBVIOUS
<1>2. /\ ui.pc = "idle" /\ ~crashed /\ acts < MaxActs /\ acts' = acts + 1
      /\ badgeNumber' = b
      /\ tasks' = Append(tasks, BadgeTask(IF b THEN totalUnread ELSE 0))
      /\ overlapped' = (overlapped \/ work.pc # "idle")
      /\ UNCHANGED <<arrived, unseen, deleted, muted, dismissDate, handled, activity,
                     firstReads, ui, openedDialog, lastBadgeCount, pushMessages,
                     pushMessagesDict, pushDialogs, totalUnread, work, shade, crashed,
                     cleared, shifted, forgotten, due, outcome>>
  BY <1>1 DEF SetBadgeEnabled, UserActs, MainIdle, outside, backend, settings, screen,
     controller, marks, lists, counts, accidents, log
<1>3. Noted
  <2>1. ~Overlap'
    BY <1>2 DEF Overlap, Removing
  <2>2. QED
    BY Zenon, <1>2, <2>1 DEF Noted
<1>4. work.pc # "idle" => overlapped'
  BY Zenon, <1>2
<1>5. UserStep
  BY <1>2, <1>3, <1>4 DEF UserStep, Reads
<1>6. SettingsTyped' /\ ScreenTyped'
  BY <1>2 DEF Typed, SettingsTyped, ScreenTyped
<1>7. acts' \in 0..MaxActs
  BY <1>2, ChatFacts DEF Typed, ActsTyped
<1>8. QED
  BY <1>2, <1>5, <1>6, <1>7, UserStepTyped DEF Typed, BackendTyped, LogTyped

LEMMA DismissIsUserStep ==
    ASSUME Typed, Dismiss
    PROVE  UserStep /\ Typed'
<1>1. /\ ui.pc = "idle" /\ ~crashed /\ acts < MaxActs /\ acts' = acts + 1
      /\ dismissDate' = shade.date /\ shade' = NoNotification
      /\ UNCHANGED <<arrived, unseen, deleted, muted, badgeNumber, handled, activity,
                     firstReads, ui, openedDialog, lastBadgeCount, pushMessages,
                     pushMessagesDict, pushDialogs, totalUnread, tasks, work, crashed,
                     cleared, shifted, forgotten, due, outcome>>
      /\ Watch
  BY DEF Dismiss, UserActs, MainIdle, outside, backend, settings, screen, controller, marks,
     lists, counts, accidents, log
<1>2. UserStep
  BY <1>1, WatchNotes DEF UserStep, Reads, Posts
<1>3. SettingsTyped' /\ ScreenTyped'
  BY <1>1 DEF Typed, SettingsTyped, ScreenTyped, ShadeTyped
<1>4. acts' \in 0..MaxActs
  BY <1>1, ChatFacts DEF Typed, ActsTyped
<1>5. QED
  BY <1>1, <1>2, <1>3, <1>4, UserStepTyped DEF Typed, BackendTyped, LogTyped

\* Every act of the user, and the delayed first reading of a chat.
LEMMA UserTyped ==
    ASSUME Typed, User \/ \E c \in Chats : FirstRead(c)
    PROVE  UserStep /\ Typed'
<1>1. CASE User
  BY <1>1, OpenChatIsUserStep, PauseIsUserStep, ResumeIsUserStep, LeaveChatIsUserStep,
     DeleteMsgIsUserStep, SetMutedIsUserStep, SetBadgeEnabledIsUserStep, DismissIsUserStep
     DEF User
<1>2. CASE \E c \in Chats : FirstRead(c)
  BY <1>2, FirstReadIsUserStep
<1>3. QED
  BY <1>1, <1>2

-----------------------------------------------------------------------------
\* A message comes in at the backend.
LEMMA ArriveDoes ==
    ASSUME Typed, Arrive
    PROVE  /\ arrived' = arrived + 1 /\ unseen' = unseen \cup {arrived + 1}
           /\ UNCHANGED <<deleted, muted, badgeNumber, dismissDate, handled, activity,
                          firstReads, ui, openedDialog, lastBadgeCount, pushMessages,
                          pushMessagesDict, pushDialogs, totalUnread, tasks, work, shade,
                          crashed, cleared, shifted, acts, forgotten, due, outcome>>
           /\ Noted
           /\ Typed'
<1>1. /\ arrived < MaxMsgs /\ arrived' = arrived + 1 /\ unseen' = unseen \cup {arrived + 1}
      /\ UNCHANGED <<deleted, muted, badgeNumber, dismissDate, handled, activity, firstReads,
                     ui, openedDialog, lastBadgeCount, pushMessages, pushMessagesDict,
                     pushDialogs, totalUnread, tasks, work, shade, crashed, cleared, shifted,
                     acts, forgotten, due, outcome>>
      /\ Watch
  BY DEF Arrive, outside, backend, settings, screen, controller, marks, lists, counts,
     accidents, log
<1>2. BackendTyped'
  BY <1>1, ChatFacts DEF Typed, BackendTyped
<1>3. HandledTyped'
  BY <1>1 DEF Typed, BackendTyped, HandledTyped
<1>4. Typed'
  BY <1>1, <1>2, <1>3, SameTyped, WatchTyped DEF Typed
<1>5. QED
  BY <1>1, <1>4, WatchNotes

\* The event of an incoming message: it is read, or it will be announced.
LEMMA HandleIncomingDoes ==
    ASSUME Typed, HandleIncoming
    PROVE  /\ ui.pc = "idle" /\ ~crashed
           /\ handled' = handled + 1 /\ handled' \in Messages /\ handled' <= arrived
           /\ \/ ui' = ToRemoval(handled')
              \/ ui' = ToAnnounce(handled') /\ UNCHANGED unseen
           /\ Reads /\ Noted
           /\ UNCHANGED <<arrived, deleted, muted, badgeNumber, dismissDate, firstReads,
                          openedDialog, lastBadgeCount, pushMessages, pushMessagesDict,
                          pushDialogs, totalUnread, tasks, work, shade, crashed, cleared,
                          shifted, acts, forgotten, due, outcome>>
           /\ Typed'
<1>1. PICK m : m = handled + 1
  OBVIOUS
<1>2. /\ ui.pc = "idle" /\ ~crashed /\ handled < arrived /\ handled' = m
      /\ UNCHANGED <<arrived, deleted, muted, badgeNumber, dismissDate, firstReads,
                     openedDialog, lastBadgeCount, pushMessages, pushMessagesDict,
                     pushDialogs, totalUnread, tasks, work, shade, crashed, cleared, shifted,
                     acts, forgotten, due, outcome>>
      /\ Watch
      /\ \/ MarkSeen({m}) /\ ui' = ToRemoval(m)
         \/ UNCHANGED unseen /\ ui' = ToAnnounce(m)
      /\ \/ UNCHANGED activity
         \/ activity' = [activity EXCEPT !.readWhenResume = TRUE]
  BY <1>1 DEF HandleIncoming, MainIdle, outside, backend, settings, screen, controller, marks,
     lists, counts, accidents, log
<1>3. m \in Messages /\ m <= arrived /\ HandledTyped'
  BY <1>1, <1>2, ChatFacts DEF Typed, BackendTyped, HandledTyped, Messages
<1>4. Reads
  BY <1>2, MarkSeenReads DEF Reads, Typed, LogTyped
<1>5. BackendTyped' /\ LogTyped'
  BY <1>2, <1>4 DEF Typed, BackendTyped, LogTyped, Reads
<1>6. UiTyped'
  BY <1>2, <1>3, UiStates DEF UiTyped, Walking
<1>7. ScreenTyped'
  BY <1>2 DEF Typed, ScreenTyped
<1>8. Typed'
  BY <1>2, <1>3, <1>5, <1>6, <1>7, SameTyped, WatchTyped DEF Typed
<1>9. QED
  BY <1>1, <1>2, <1>3, <1>4, <1>8, WatchNotes

\* A message is announced with a sound, or to the queue.
LEMMA AnnounceDoes ==
    ASSUME Typed, Announce
    PROVE  /\ ui.pc = "announce" /\ ~crashed /\ ui' = UiIdle /\ ui.next \in Messages
           /\ \/ outcome' = [outcome EXCEPT ![ui.next] = "sound"] /\ UNCHANGED tasks
              \/ tasks' = Append(tasks, NewTask(ui.next)) /\ UNCHANGED outcome
           /\ Noted
           /\ UNCHANGED <<arrived, unseen, deleted, muted, badgeNumber, dismissDate, handled,
                          activity, firstReads, openedDialog, lastBadgeCount, pushMessages,
                          pushMessagesDict, pushDialogs, totalUnread, work, shade, crashed,
                          cleared, shifted, acts, forgotten, due>>
           /\ Typed'
<1>1. PICK m : m = ui.next
  OBVIOUS
<1>2. /\ ui.pc = "announce" /\ ~crashed /\ ui' = UiIdle
      /\ UNCHANGED <<arrived, unseen, deleted, muted, badgeNumber, dismissDate, handled,
                     activity, firstReads, openedDialog, lastBadgeCount, pushMessages,
                     pushMessagesDict, pushDialogs, totalUnread, work, shade, crashed,
                     cleared, shifted, acts, forgotten, due>>
      /\ Watch
      /\ \/ outcome' = [outcome EXCEPT ![m] = "sound"] /\ UNCHANGED tasks
         \/ tasks' = Append(tasks, NewTask(m)) /\ UNCHANGED outcome
  BY <1>1 DEF Announce, outside, backend, settings, screen, controller, marks, lists, counts,
     accidents, log
<1>3. m \in Messages
  BY <1>1, <1>2 DEF Typed, UiTyped
<1>4. UiTyped'
  BY <1>2, UiStates DEF UiTyped, Walking
<1>5. LogTyped' /\ TasksTyped'
  <2>1. CASE outcome' = [outcome EXCEPT ![m] = "sound"] /\ UNCHANGED tasks
    BY <1>2, <1>3, <2>1, SameTyped DEF Typed, LogTyped
  <2>2. CASE tasks' = Append(tasks, NewTask(m)) /\ UNCHANGED outcome
    <3>1. NewTask(m) \in Task
      BY <1>3, TaskKinds
    <3>2. QED
      BY <1>2, <2>2, <3>1, SameTyped, AppendTyped DEF Typed
  <2>3. QED
    BY <1>2, <2>1, <2>2
<1>6. Typed'
  BY <1>2, <1>4, <1>5, SameTyped, WatchTyped DEF Typed
<1>7. QED
  BY <1>1, <1>2, <1>3, <1>6, WatchNotes

-----------------------------------------------------------------------------
(* removeSeenMessages.                                                     *)

RemovalStep ==
    /\ ~crashed /\ Noted /\ ui'.next = ui.next
    /\ UNCHANGED <<arrived, unseen, deleted, muted, badgeNumber, dismissDate, handled,
                   activity, firstReads, openedDialog, lastBadgeCount, work, shade, cleared,
                   shifted, acts, forgotten, outcome>>

LEMMA RemovalStepTyped ==
    ASSUME Typed, RemovalStep, crashed' \in BOOLEAN, LogTyped',
           UiTyped', ListTyped', DictTyped', CountsTyped', TasksTyped'
    PROVE  Typed'
<1>1. UNCHANGED <<arrived, unseen, deleted, muted, badgeNumber, dismissDate, handled,
                  activity, firstReads, openedDialog, lastBadgeCount, work, shade, cleared,
                  shifted, acts, forgotten, outcome>>
  BY DEF RemovalStep
<1>2. FlagsTyped'
  BY <1>1 DEF Typed, FlagsTyped, RemovalStep, Noted
<1>3. QED
  BY <1>1, <1>2, SameTyped DEF Typed

LEMMA SeenStartDoes ==
    ASSUME Typed, SeenStart
    PROVE  /\ ui.pc = "seen" /\ RemovalStep
           /\ UNCHANGED <<pushMessages, pushMessagesDict, pushDialogs, totalUnread, tasks,
                          crashed>>
           /\ \/ pushMessages = <<>> /\ ui'.pc \in {"idle", "announce"}
              \/ /\ pushMessages # <<>>
                 /\ ui'.pc = "loop" /\ ui'.snapshot = unseen /\ ui'.i = 1
           /\ due' = due \cup (Listed \ unseen)
           /\ Typed'
<1>1. /\ ui.pc = "seen" /\ ~crashed
      /\ UNCHANGED <<arrived, unseen, deleted, muted, badgeNumber, dismissDate, handled,
                     activity, firstReads, openedDialog, lastBadgeCount, pushMessages,
                     pushMessagesDict, pushDialogs, totalUnread, tasks, work, shade, crashed,
                     cleared, shifted, acts, forgotten, outcome>>
      /\ due' = due \cup (Listed \ unseen)
      /\ Watch
      /\ \/ pushMessages = <<>> /\ ui' = Return(ui)
         \/ /\ pushMessages # <<>>
            /\ ui' = [ui EXCEPT !.pc = "loop", !.snapshot = unseen, !.i = 1]
  BY DEF SeenStart, outside, backend, settings, screen, controller, marks, lists, counts,
     accidents, log
<1>2. /\ UiTyped' /\ ui'.next = ui.next
      /\ \/ pushMessages = <<>> /\ ui'.pc \in {"idle", "announce"}
         \/ /\ pushMessages # <<>>
            /\ ui'.pc = "loop" /\ ui'.snapshot = unseen /\ ui'.i = 1
  <2>1. CASE pushMessages = <<>> /\ ui' = Return(ui)
    BY <2>1, ReturnTyped DEF Typed
  <2>2. CASE /\ pushMessages # <<>>
             /\ ui' = [ui EXCEPT !.pc = "loop", !.snapshot = unseen, !.i = 1]
    <3>1. PICK S \in SUBSET Messages : S = unseen
      BY ChatFacts DEF Typed, BackendTyped, Messages
    <3>2. ui' = [ui EXCEPT !.pc = "loop", !.snapshot = S, !.i = 1] /\ ui \in UiState
      BY <2>2, <3>1 DEF Typed, UiTyped
    <3>3. /\ ui' \in UiState /\ ui'.pc = "loop" /\ ui'.snapshot = S /\ ui'.i = 1
          /\ ui'.next = ui.next
      BY <3>2 DEF UiState, UiPcs
    <3>4. UiTyped'
      BY <3>3 DEF UiTyped
    <3>5. QED
      BY <2>2, <3>1, <3>3, <3>4
  <2>3. QED
    BY <1>1, <2>1, <2>2
<1>3. RemovalStep
  BY <1>1, <1>2, WatchNotes DEF RemovalStep
<1>4. LogTyped'
  <2>1. Listed \subseteq Messages
    BY ElementOfSeq DEF Typed, ListTyped, Listed, ToSet
  <2>2. QED
    BY <1>1, <2>1 DEF Typed, LogTyped
<1>5. Typed'
  BY <1>1, <1>2, <1>3, <1>4, SameTyped, RemovalStepTyped DEF Typed, FlagsTyped
<1>6. QED
  BY <1>1, <1>2, <1>3, <1>5

LEMMA SeenLoopDoes ==
    ASSUME Typed, SeenLoop
    PROVE  /\ ui.pc = "loop" /\ RemovalStep
           /\ UNCHANGED <<pushMessages, pushMessagesDict, pushDialogs, totalUnread, crashed>>
           /\ \/ /\ ui.i <= Len(pushMessages) /\ UNCHANGED tasks
                 /\ ui'.pc = "get" /\ ui'.snapshot = ui.snapshot /\ ui'.i = ui.i
                 /\ ui'.removed = ui.removed
              \/ /\ ui.i > Len(pushMessages) /\ ui'.pc \in {"idle", "announce"}
                 /\ tasks' = IF ui.removed THEN Append(tasks, ShowTask) ELSE tasks
           /\ Typed'
<1>1. /\ ui.pc = "loop" /\ ~crashed
      /\ UNCHANGED <<arrived, unseen, deleted, muted, badgeNumber, dismissDate, handled,
                     activity, firstReads, openedDialog, lastBadgeCount, pushMessages,
                     pushMessagesDict, pushDialogs, totalUnread, work, shade, crashed,
                     cleared, shifted, acts, forgotten, due, outcome>>
      /\ Watch
      /\ \/ /\ ui.i <= Len(pushMessages) /\ UNCHANGED tasks
            /\ ui' = [ui EXCEPT !.pc = "get"]
         \/ /\ ui.i > Len(pushMessages) /\ ui' = Return(ui)
            /\ tasks' = IF ui.removed THEN Append(tasks, ShowTask) ELSE tasks
  BY DEF SeenLoop, outside, backend, settings, screen, controller, marks, lists, counts,
     accidents, log
<1>2. /\ UiTyped' /\ ui'.next = ui.next
      /\ \/ /\ ui.i <= Len(pushMessages) /\ UNCHANGED tasks
            /\ ui'.pc = "get" /\ ui'.snapshot = ui.snapshot /\ ui'.i = ui.i
            /\ ui'.removed = ui.removed
         \/ /\ ui.i > Len(pushMessages) /\ ui'.pc \in {"idle", "announce"}
            /\ tasks' = IF ui.removed THEN Append(tasks, ShowTask) ELSE tasks
  <2>1. CASE /\ ui.i > Len(pushMessages) /\ ui' = Return(ui)
             /\ tasks' = IF ui.removed THEN Append(tasks, ShowTask) ELSE tasks
    BY <2>1, ReturnTyped DEF Typed
  <2>2. CASE /\ ui.i <= Len(pushMessages) /\ UNCHANGED tasks
             /\ ui' = [ui EXCEPT !.pc = "get"]
    <3>1. ui \in UiState /\ ui.i >= 1 /\ "get" \in UiPcs
      BY <1>1 DEF Typed, UiTyped, Walking, UiPcs
    <3>2. /\ ui' \in UiState /\ ui'.pc = "get" /\ ui'.snapshot = ui.snapshot
          /\ ui'.i = ui.i /\ ui'.removed = ui.removed /\ ui'.next = ui.next
      BY <2>2, <3>1, UiPcSet
    <3>3. UiTyped'
      BY <3>1, <3>2 DEF UiTyped
    <3>4. QED
      BY <2>2, <3>2, <3>3
  <2>3. QED
    BY <1>1, <2>1, <2>2
<1>3. RemovalStep
  BY <1>1, <1>2, WatchNotes DEF RemovalStep
<1>4. TasksTyped'
  BY <1>1, TaskKinds DEF Typed, TasksTyped
<1>5. Typed'
  BY <1>1, <1>2, <1>3, <1>4, SameTyped, RemovalStepTyped DEF Typed, FlagsTyped
<1>6. QED
  BY <1>1, <1>2, <1>3, <1>5

LEMMA SeenGetDoes ==
    ASSUME Typed, SeenGet
    PROVE  /\ ui.pc = "get" /\ RemovalStep
           /\ UNCHANGED <<pushMessages, pushMessagesDict, pushDialogs, totalUnread, tasks>>
           /\ \/ ui.i > Len(pushMessages) /\ crashed' /\ UNCHANGED ui
              \/ /\ ui.i \in 1..Len(pushMessages) /\ UNCHANGED crashed
                 /\ ui'.snapshot = ui.snapshot /\ ui'.removed = ui.removed
                 /\ \/ /\ pushMessages[ui.i] \in ui.snapshot
                       /\ ui'.pc = "loop" /\ ui'.i = ui.i + 1
                    \/ /\ pushMessages[ui.i] \notin ui.snapshot
                       /\ ui'.pc = "drop" /\ ui'.i = ui.i /\ ui'.msg = pushMessages[ui.i]
           /\ Typed'
<1>1. /\ ui.pc = "get" /\ ~crashed
      /\ UNCHANGED <<arrived, unseen, deleted, muted, badgeNumber, dismissDate, handled,
                     activity, firstReads, openedDialog, lastBadgeCount, pushMessages,
                     pushMessagesDict, pushDialogs, totalUnread, tasks, work, shade, cleared,
                     shifted, acts, forgotten, due, outcome>>
      /\ Watch
      /\ \/ ui.i > Len(pushMessages) /\ crashed' = TRUE /\ UNCHANGED ui
         \/ /\ ui.i <= Len(pushMessages) /\ UNCHANGED crashed
            /\ \/ /\ pushMessages[ui.i] \in ui.snapshot
                  /\ ui' = [ui EXCEPT !.pc = "loop", !.i = @ + 1]
               \/ /\ pushMessages[ui.i] \notin ui.snapshot
                  /\ ui' = [ui EXCEPT !.pc = "drop", !.msg = pushMessages[ui.i]]
  BY DEF SeenGet, outside, backend, settings, screen, controller, marks, lists, counts,
     accidents, log
<1>2. ui \in UiState /\ ui.i \in Nat /\ ui.i >= 1 /\ pushMessages \in Seq(Messages)
  BY <1>1 DEF Typed, UiTyped, UiState, Walking, ListTyped
<1>3. ui.i <= Len(pushMessages) => ui.i \in 1..Len(pushMessages)
  BY <1>2
<1>4. ui.i \in 1..Len(pushMessages) => pushMessages[ui.i] \in Messages
  BY <1>2, ElementOfSeq
<1>5. /\ UiTyped' /\ ui'.next = ui.next
      /\ \/ ui.i > Len(pushMessages) /\ crashed' /\ UNCHANGED ui
         \/ /\ ui.i \in 1..Len(pushMessages) /\ UNCHANGED crashed
            /\ ui'.snapshot = ui.snapshot /\ ui'.removed = ui.removed
            /\ \/ /\ pushMessages[ui.i] \in ui.snapshot
                  /\ ui'.pc = "loop" /\ ui'.i = ui.i + 1
               \/ /\ pushMessages[ui.i] \notin ui.snapshot
                  /\ ui'.pc = "drop" /\ ui'.i = ui.i /\ ui'.msg = pushMessages[ui.i]
  <2>1. CASE ui.i > Len(pushMessages) /\ crashed' = TRUE /\ UNCHANGED ui
    BY <2>1, SameTyped DEF Typed
  <2>2. CASE /\ ui.i <= Len(pushMessages) /\ UNCHANGED crashed
             /\ pushMessages[ui.i] \in ui.snapshot
             /\ ui' = [ui EXCEPT !.pc = "loop", !.i = @ + 1]
    <3>1. /\ ui' \in UiState /\ ui'.pc = "loop" /\ ui'.i = ui.i + 1
          /\ ui'.snapshot = ui.snapshot /\ ui'.removed = ui.removed /\ ui'.next = ui.next
      BY <1>2, <2>2, UiNextSet
    <3>2. UiTyped'
      BY <1>2, <3>1 DEF UiTyped
    <3>3. QED
      BY <1>3, <2>2, <3>1, <3>2
  <2>3. CASE /\ ui.i <= Len(pushMessages) /\ UNCHANGED crashed
             /\ pushMessages[ui.i] \notin ui.snapshot
             /\ ui' = [ui EXCEPT !.pc = "drop", !.msg = pushMessages[ui.i]]
    <3>1. PICK m \in Messages : m = pushMessages[ui.i]
      BY <1>3, <1>4, <2>3
    <3>2. ui' = [ui EXCEPT !.pc = "drop", !.msg = m]
      BY <2>3, <3>1
    <3>3. /\ ui' \in UiState /\ ui'.pc = "drop" /\ ui'.msg = m /\ ui'.i = ui.i
          /\ ui'.snapshot = ui.snapshot /\ ui'.removed = ui.removed /\ ui'.next = ui.next
      BY <1>2, <3>2 DEF UiState, UiPcs
    <3>4. UiTyped'
      BY <1>2, <3>3 DEF UiTyped
    <3>5. QED
      BY <1>3, <2>3, <3>1, <3>3, <3>4
  <2>4. QED
    BY <1>1, <2>1, <2>2, <2>3
<1>6. RemovalStep
  BY <1>1, <1>5, WatchNotes DEF RemovalStep
<1>7. Typed'
  BY <1>1, <1>5, <1>6, SameTyped, RemovalStepTyped DEF Typed, FlagsTyped
<1>8. QED
  BY <1>1, <1>5, <1>6, <1>7

LEMMA SeenDropDoes ==
    ASSUME Typed, SeenDrop
    PROVE  /\ ui.pc = "drop" /\ RemovalStep /\ ui.msg \in Messages
           /\ UNCHANGED <<pushMessages, pushDialogs, totalUnread, tasks, crashed>>
           /\ pushMessagesDict' = pushMessagesDict \ {ui.msg}
           /\ ui'.pc = "remove" /\ ui'.snapshot = ui.snapshot /\ ui'.i = ui.i
           /\ ui'.msg = ui.msg /\ ui'.removed = ui.removed
           /\ Typed'
<1>1. /\ ui.pc = "drop" /\ ~crashed /\ ui' = [ui EXCEPT !.pc = "remove"]
      /\ pushMessagesDict' = pushMessagesDict \ {ui.msg}
      /\ UNCHANGED <<arrived, unseen, deleted, muted, badgeNumber, dismissDate, handled,
                     activity, firstReads, openedDialog, lastBadgeCount, pushMessages,
                     pushDialogs, totalUnread, tasks, work, shade, crashed, cleared, shifted,
                     acts, forgotten, due, outcome>>
      /\ Watch
  BY DEF SeenDrop, outside, backend, settings, screen, controller, marks, lists, counts,
     accidents, log
<1>2. ui \in UiState /\ ui.i >= 1 /\ ui.msg \in Messages /\ "remove" \in UiPcs
  BY <1>1 DEF Typed, UiTyped, Walking, UiPcs
<1>3. /\ ui' \in UiState /\ ui'.pc = "remove" /\ ui'.snapshot = ui.snapshot /\ ui'.i = ui.i
      /\ ui'.msg = ui.msg /\ ui'.removed = ui.removed /\ ui'.next = ui.next
  BY <1>1, <1>2, UiPcSet
<1>4. UiTyped' /\ DictTyped'
  BY <1>1, <1>2, <1>3 DEF Typed, UiTyped, DictTyped
<1>5. RemovalStep
  BY <1>1, <1>3, WatchNotes DEF RemovalStep
<1>6. Typed'
  BY <1>1, <1>4, <1>5, SameTyped, RemovalStepTyped DEF Typed, FlagsTyped
<1>7. QED
  BY <1>1, <1>2, <1>3, <1>5, <1>6

LEMMA SeenRemoveDoes ==
    ASSUME Typed, SeenRemove
    PROVE  /\ ui.pc = "remove" /\ RemovalStep /\ ui.msg \in Messages
           /\ UNCHANGED <<pushMessagesDict, pushDialogs, totalUnread, tasks>>
           /\ \/ ui.i > Len(pushMessages) /\ crashed' /\ UNCHANGED <<pushMessages, ui>>
              \/ /\ ui.i \in 1..Len(pushMessages) /\ UNCHANGED crashed
                 /\ pushMessages' = RemoveAt(pushMessages, ui.i)
                 /\ ui'.pc = "uncount" /\ ui'.snapshot = ui.snapshot /\ ui'.i = ui.i
                 /\ ui'.msg = ui.msg /\ ui'.removed = ui.removed
           /\ Typed'
<1>1. /\ ui.pc = "remove" /\ ~crashed
      /\ UNCHANGED <<arrived, unseen, deleted, muted, badgeNumber, dismissDate, handled,
                     activity, firstReads, openedDialog, lastBadgeCount, pushMessagesDict,
                     pushDialogs, totalUnread, tasks, work, shade, cleared, shifted, acts,
                     forgotten, due, outcome>>
      /\ Watch
      /\ \/ ui.i > Len(pushMessages) /\ crashed' = TRUE /\ UNCHANGED <<pushMessages, ui>>
         \/ /\ ui.i <= Len(pushMessages) /\ UNCHANGED crashed
            /\ pushMessages' = RemoveAt(pushMessages, ui.i)
            /\ ui' = [ui EXCEPT !.pc = "uncount"]
  BY DEF SeenRemove, outside, backend, settings, screen, controller, marks, lists, counts,
     accidents, log
<1>2. /\ ui \in UiState /\ ui.i \in Nat /\ ui.i >= 1 /\ ui.msg \in Messages
      /\ pushMessages \in Seq(Messages) /\ "uncount" \in UiPcs
  BY <1>1 DEF Typed, UiTyped, UiState, Walking, ListTyped, UiPcs
<1>3. CASE ui.i > Len(pushMessages) /\ crashed' = TRUE /\ UNCHANGED <<pushMessages, ui>>
  <2>1. RemovalStep
    BY <1>1, <1>3, WatchNotes DEF RemovalStep
  <2>2. Typed'
    BY <1>1, <1>3, <2>1, SameTyped, RemovalStepTyped DEF Typed
  <2>3. QED
    BY <1>1, <1>2, <1>3, <2>1, <2>2
<1>4. CASE /\ ui.i <= Len(pushMessages) /\ UNCHANGED crashed
           /\ pushMessages' = RemoveAt(pushMessages, ui.i)
           /\ ui' = [ui EXCEPT !.pc = "uncount"]
  <2>1. ui.i \in 1..Len(pushMessages)
    BY <1>2, <1>4
  <2>2. ListTyped'
    BY <1>2, <1>4, <2>1, RemoveAtFromSeq DEF ListTyped
  <2>3. /\ ui' \in UiState /\ ui'.pc = "uncount" /\ ui'.snapshot = ui.snapshot
        /\ ui'.i = ui.i /\ ui'.msg = ui.msg /\ ui'.removed = ui.removed
        /\ ui'.next = ui.next
    BY <1>2, <1>4, UiPcSet
  <2>4. UiTyped'
    BY <1>2, <2>3 DEF UiTyped
  <2>5. RemovalStep
    BY <1>1, <2>3, WatchNotes DEF RemovalStep
  <2>6. Typed'
    BY <1>1, <1>4, <2>2, <2>4, <2>5, SameTyped, RemovalStepTyped DEF Typed, FlagsTyped
  <2>7. QED
    BY <1>1, <1>2, <1>4, <2>1, <2>3, <2>5, <2>6
<1>5. QED
  BY <1>1, <1>3, <1>4

LEMMA SeenUncountDoes ==
    ASSUME Typed, SeenUncount
    PROVE  /\ ui.pc = "uncount" /\ RemovalStep /\ ui.msg \in Messages
           /\ UNCHANGED <<pushMessages, pushMessagesDict, tasks, crashed>>
           /\ totalUnread' = totalUnread - 1
           /\ pushDialogs' = [pushDialogs EXCEPT ![ChatOf[ui.msg]] =
                                  IF @ <= 1 THEN 0 ELSE @ - 1]
           /\ ui'.pc = "loop" /\ ui'.snapshot = ui.snapshot /\ ui'.i = ui.i
           /\ ui'.removed = TRUE
           /\ Typed'
<1>1. PICK c : c = ChatOf[ui.msg]
  OBVIOUS
<1>2. /\ ui.pc = "uncount" /\ ~crashed /\ ui' = [ui EXCEPT !.pc = "loop", !.removed = TRUE]
      /\ totalUnread' = totalUnread - 1
      /\ pushDialogs' = [pushDialogs EXCEPT ![c] = IF @ <= 1 THEN 0 ELSE @ - 1]
      /\ UNCHANGED <<arrived, unseen, deleted, muted, badgeNumber, dismissDate, handled,
                     activity, firstReads, openedDialog, lastBadgeCount, pushMessages,
                     pushMessagesDict, tasks, work, shade, crashed, cleared, shifted, acts,
                     forgotten, due, outcome>>
      /\ Watch
  BY <1>1 DEF SeenUncount, outside, backend, settings, screen, controller, marks, lists,
     counts, accidents, log
<1>3. ui \in UiState /\ ui.i >= 1 /\ ui.msg \in Messages
  BY <1>2 DEF Typed, UiTyped, Walking
<1>4. /\ ui' \in UiState /\ ui'.pc = "loop" /\ ui'.snapshot = ui.snapshot /\ ui'.i = ui.i
      /\ ui'.removed = TRUE /\ ui'.next = ui.next
  BY <1>2, <1>3, UiRemovedSet
<1>5. UiTyped'
  BY <1>3, <1>4 DEF UiTyped
<1>6. CountsTyped'
  <2>1. c \in Chats
    BY <1>1, <1>3, ChatFacts
  <2>2. PICK n \in Nat : n = pushDialogs[c]
    BY <2>1 DEF Typed, CountsTyped
  <2>3. pushDialogs' = [pushDialogs EXCEPT ![c] = IF n <= 1 THEN 0 ELSE n - 1]
    BY <1>2, <2>1, <2>2 DEF Typed, CountsTyped
  <2>4. (IF n <= 1 THEN 0 ELSE n - 1) \in Nat
    OBVIOUS
  <2>5. QED
    BY <1>2, <2>1, <2>3, <2>4 DEF Typed, CountsTyped
<1>7. RemovalStep
  BY <1>2, <1>4, WatchNotes DEF RemovalStep
<1>8. Typed'
  BY <1>2, <1>5, <1>6, <1>7, SameTyped, RemovalStepTyped DEF Typed, FlagsTyped
<1>9. QED
  BY <1>1, <1>2, <1>3, <1>4, <1>7, <1>8

-----------------------------------------------------------------------------
(* The thread of notificationsQueue.                                       *)

QueueStep ==
    /\ ~crashed /\ Noted
    /\ UNCHANGED <<arrived, unseen, deleted, muted, badgeNumber, dismissDate, handled,
                   activity, firstReads, ui, crashed, acts, due>>

\* What is counted is finite.
LEMMA FiniteParts ==
    /\ IsFiniteSet(Messages)
    /\ \A S \in SUBSET Messages : IsFiniteSet(S) /\ Cardinality(S) \in Nat
    /\ \A S \in SUBSET Chats : IsFiniteSet(S) /\ Cardinality(S) \in Nat
<1>1. IsFiniteSet(Messages)
  BY ChatFacts, FS_Interval DEF Messages
<1>2. QED
  BY <1>1, ChatFacts, FS_Subset, FS_CardinalityType

LEMMA QueueStepTyped ==
    ASSUME Typed, QueueStep, ListTyped', DictTyped', CountsTyped', MarksTyped', TasksTyped',
           WorkTyped', ShadeTyped', cleared' \in BOOLEAN, shifted' \in BOOLEAN,
           forgotten' \in [Chats -> Nat],
           outcome' \in [Messages -> {"none", "sound", "skipped", "listed"}]
    PROVE  Typed'
<1>1. UNCHANGED <<arrived, unseen, deleted, muted, badgeNumber, dismissDate, handled,
                  activity, firstReads, ui, crashed, acts, due>>
  BY DEF QueueStep
<1>2. FlagsTyped' /\ LogTyped'
  BY <1>1 DEF Typed, FlagsTyped, LogTyped, QueueStep, Noted
<1>3. QED
  BY <1>1, <1>2, SameTyped DEF Typed

\* The task goes on, or ends.
LEMMA WorkGoesOn ==
    ASSUME WorkTyped
    PROVE  /\ \A p \in WorkPcs :
                  /\ [work EXCEPT !.pc = p].pc = p
                  /\ [work EXCEPT !.pc = p].msg = work.msg
                  /\ [work EXCEPT !.pc = p] \in
                         [pc : WorkPcs, msg : Messages \cup {0}, alert : BOOLEAN]
           /\ WorkIdle.pc = "idle"
           /\ WorkIdle \in [pc : WorkPcs, msg : Messages \cup {0}, alert : BOOLEAN]
           /\ [WorkIdle EXCEPT !.pc = "show"].pc = "show"
           /\ [WorkIdle EXCEPT !.pc = "show"]
                  \in [pc : WorkPcs, msg : Messages \cup {0}, alert : BOOLEAN]
<1>1. \A p \in WorkPcs :
          /\ [work EXCEPT !.pc = p].pc = p
          /\ [work EXCEPT !.pc = p].msg = work.msg
          /\ [work EXCEPT !.pc = p] \in
                 [pc : WorkPcs, msg : Messages \cup {0}, alert : BOOLEAN]
  BY DEF WorkTyped
<1>2. QED
  BY <1>1 DEF WorkIdle, WorkPcs

LEMMA TakeTaskDoes ==
    ASSUME Typed, TakeTask
    PROVE  /\ work.pc = "idle" /\ QueueStep /\ tasks # <<>> /\ tasks' = Tail(tasks)
           /\ UNCHANGED <<pushMessages, pushMessagesDict, pushDialogs, totalUnread, shade,
                          cleared, shifted, forgotten>>
           /\ \E t \in Task :
                  /\ t = Head(tasks)
                  /\ \/ t.kind = "open" /\ UNCHANGED <<lastBadgeCount, work, outcome>>
                     \/ t.kind = "badge" /\ lastBadgeCount' = t.of /\ UNCHANGED <<work, outcome>>
                     \/ /\ t.kind = "show" /\ work'.pc = "show"
                        /\ UNCHANGED <<lastBadgeCount, outcome>>
                     \/ /\ t.kind = "new" /\ UNCHANGED <<lastBadgeCount, work>>
                        /\ outcome' = [outcome EXCEPT ![t.of] = "skipped"]
                     \/ /\ t.kind = "new" /\ UNCHANGED lastBadgeCount
                        /\ t.of \notin pushMessagesDict
                        /\ outcome' = [outcome EXCEPT ![t.of] = "listed"]
                        /\ work'.pc = "list" /\ work'.msg = t.of
           /\ Typed'
<1>1. /\ work.pc = "idle" /\ ~crashed /\ tasks # <<>> /\ tasks' = Tail(tasks)
      /\ UNCHANGED <<arrived, unseen, deleted, muted, badgeNumber, dismissDate, handled,
                     activity, firstReads, ui, pushMessages, pushMessagesDict, pushDialogs,
                     totalUnread, shade, crashed, cleared, shifted, acts, forgotten, due>>
      /\ Watch
  BY DEF TakeTask, Busy, outside, backend, settings, screen, controller, marks, lists, counts,
     accidents, log
<1>2. tasks \in Seq(Task)
  BY DEF Typed, TasksTyped
<1>3. PICK t \in Task : t = Head(tasks)
  BY <1>1, <1>2, HeadTailProperties
<1>4. /\ \/ /\ t.kind = "open" /\ openedDialog' = t.of
            /\ UNCHANGED <<lastBadgeCount, work, outcome>>
         \/ /\ t.kind = "badge" /\ lastBadgeCount' = t.of
            /\ UNCHANGED <<openedDialog, work, outcome>>
         \/ /\ t.kind = "show" /\ work' = [WorkIdle EXCEPT !.pc = "show"]
            /\ UNCHANGED <<openedDialog, lastBadgeCount, outcome>>
         \/ /\ t.kind = "new" /\ UNCHANGED <<openedDialog, lastBadgeCount, work>>
            /\ outcome' = [outcome EXCEPT ![t.of] = "skipped"]
         \/ /\ t.kind = "new" /\ UNCHANGED <<openedDialog, lastBadgeCount>>
            /\ t.of \notin pushMessagesDict
            /\ outcome' = [outcome EXCEPT ![t.of] = "listed"]
            /\ work' = [pc |-> "list", msg |-> t.of, alert |-> TRUE]
  BY <1>3 DEF TakeTask
<1>5. /\ t.kind = "open" => t.of \in Chats \cup {0}
      /\ t.kind = "new" => t.of \in Messages
      /\ t.kind = "badge" => t.of \in Int
  BY TaskKinds
<1>6. QueueStep
  BY <1>1, WatchNotes DEF QueueStep
<1>7. TasksTyped'
  BY <1>1, <1>2, HeadTailProperties DEF TasksTyped
<1>8. MarksTyped'
  BY <1>4, <1>5 DEF Typed, MarksTyped
<1>9. WorkTyped'
  <2>1. CASE UNCHANGED work
    BY <2>1, SameTyped DEF Typed
  <2>2. CASE work' = [WorkIdle EXCEPT !.pc = "show"]
    BY <2>2, WorkGoesOn DEF Typed, WorkTyped
  <2>3. CASE t.kind = "new" /\ work' = [pc |-> "list", msg |-> t.of, alert |-> TRUE]
    BY <1>5, <2>3 DEF WorkTyped, WorkPcs
  <2>4. QED
    BY <1>4, <2>1, <2>2, <2>3
<1>10. outcome' \in [Messages -> {"none", "sound", "skipped", "listed"}]
  BY <1>4, <1>5 DEF Typed, LogTyped
<1>11. Typed'
  BY <1>1, <1>6, <1>7, <1>8, <1>9, <1>10, SameTyped, QueueStepTyped DEF Typed, FlagsTyped,
     LogTyped
<1>12. /\ t.kind = "show" => (work' = [WorkIdle EXCEPT !.pc = "show"] => work'.pc = "show")
       /\ work' = [pc |-> "list", msg |-> t.of, alert |-> TRUE] =>
              work'.pc = "list" /\ work'.msg = t.of
  BY WorkGoesOn DEF Typed
<1>13. QED
  BY <1>1, <1>3, <1>4, <1>6, <1>11, <1>12

LEMMA AddToListDoes ==
    ASSUME Typed, AddToList
    PROVE  /\ work.pc = "list" /\ work.msg \in Messages /\ QueueStep
           /\ UNCHANGED <<arrived, unseen, deleted, muted, badgeNumber, dismissDate, handled,
                          activity, firstReads, ui, openedDialog, lastBadgeCount,
                          pushMessagesDict, pushDialogs, totalUnread, tasks, shade, crashed,
                          cleared, acts, forgotten, due, outcome>>
           /\ pushMessages' = <<work.msg>> \o pushMessages
           /\ shifted' = (shifted \/ ui.pc \in {"drop", "remove"})
           /\ work'.pc = "dict" /\ work'.msg = work.msg
           /\ Typed'
<1>1. /\ work.pc = "list" /\ ~crashed
      /\ pushMessages' = <<work.msg>> \o pushMessages
      /\ shifted' = (shifted \/ ui.pc \in {"drop", "remove"})
      /\ work' = [work EXCEPT !.pc = "dict"]
      /\ UNCHANGED <<arrived, unseen, deleted, muted, badgeNumber, dismissDate, handled,
                     activity, firstReads, ui, openedDialog, lastBadgeCount, pushMessagesDict,
                     pushDialogs, totalUnread, tasks, shade, crashed, cleared, acts,
                     forgotten, due, outcome>>
      /\ Watch
  BY DEF AddToList, Busy, outside, backend, settings, screen, controller, marks, lists,
     counts, accidents, log
<1>2. work.msg \in Messages /\ WorkTyped /\ "dict" \in WorkPcs
  BY <1>1 DEF Typed, WorkTyped, WorkPcs
<1>3. QueueStep
  BY <1>1, WatchNotes DEF QueueStep
<1>4. work'.pc = "dict" /\ work'.msg = work.msg /\ WorkTyped'
  BY <1>1, <1>2, WorkGoesOn DEF WorkTyped
<1>5. ListTyped'
  <2>1. <<work.msg>> \in Seq(Messages)
    BY <1>2
  <2>2. QED
    BY <1>1, <2>1, ConcatProperties DEF Typed, ListTyped
<1>6. shifted' \in BOOLEAN
  BY <1>1 DEF Typed, FlagsTyped
<1>7. Typed'
  BY <1>1, <1>3, <1>4, <1>5, <1>6, SameTyped, QueueStepTyped DEF Typed, FlagsTyped, LogTyped
<1>8. QED
  BY <1>1, <1>2, <1>3, <1>4, <1>7

LEMMA AddToDictDoes ==
    ASSUME Typed, AddToDict
    PROVE  /\ work.pc = "dict" /\ work.msg \in Messages /\ QueueStep
           /\ UNCHANGED <<arrived, unseen, deleted, muted, badgeNumber, dismissDate, handled,
                          activity, firstReads, ui, openedDialog, lastBadgeCount,
                          pushMessages, pushDialogs, totalUnread, tasks, shade, crashed,
                          cleared, shifted, acts, forgotten, due, outcome>>
           /\ pushMessagesDict' = pushMessagesDict \cup {work.msg}
           /\ work'.pc = "count" /\ work'.msg = work.msg
           /\ Typed'
<1>1. /\ work.pc = "dict" /\ ~crashed
      /\ pushMessagesDict' = pushMessagesDict \cup {work.msg}
      /\ work' = [work EXCEPT !.pc = "count"]
      /\ UNCHANGED <<arrived, unseen, deleted, muted, badgeNumber, dismissDate, handled,
                     activity, firstReads, ui, openedDialog, lastBadgeCount, pushMessages,
                     pushDialogs, totalUnread, tasks, shade, crashed, cleared, shifted, acts,
                     forgotten, due, outcome>>
      /\ Watch
  BY DEF AddToDict, Busy, outside, backend, settings, screen, controller, marks, lists,
     counts, accidents, log
<1>2. work.msg \in Messages /\ WorkTyped /\ "count" \in WorkPcs
  BY <1>1 DEF Typed, WorkTyped, WorkPcs
<1>3. QueueStep
  BY <1>1, WatchNotes DEF QueueStep
<1>4. work'.pc = "count" /\ work'.msg = work.msg /\ WorkTyped'
  BY <1>1, <1>2, WorkGoesOn DEF WorkTyped
<1>5. DictTyped'
  BY <1>1, <1>2 DEF Typed, DictTyped
<1>6. Typed'
  BY <1>1, <1>3, <1>4, <1>5, SameTyped, QueueStepTyped DEF Typed, FlagsTyped, LogTyped
<1>7. QED
  BY <1>1, <1>2, <1>3, <1>4, <1>6

LEMMA AddToCountsDoes ==
    ASSUME Typed, AddToCounts
    PROVE  /\ work.pc = "count" /\ work.msg \in Messages /\ QueueStep
           /\ UNCHANGED <<arrived, unseen, deleted, muted, badgeNumber, dismissDate, handled,
                          activity, firstReads, ui, openedDialog, lastBadgeCount,
                          pushMessages, pushMessagesDict, tasks, shade, crashed, cleared,
                          shifted, acts, forgotten, due, outcome>>
           /\ pushDialogs' = [pushDialogs EXCEPT ![ChatOf[work.msg]] = @ + 1]
           /\ totalUnread' = totalUnread + 1
           /\ work'.pc = "show"
           /\ Typed'
<1>1. PICK c : c = ChatOf[work.msg]
  OBVIOUS
<1>2. /\ work.pc = "count" /\ ~crashed
      /\ pushDialogs' = [pushDialogs EXCEPT ![c] = @ + 1]
      /\ totalUnread' = totalUnread + 1
      /\ work' = [work EXCEPT !.pc = "show"]
      /\ UNCHANGED <<arrived, unseen, deleted, muted, badgeNumber, dismissDate, handled,
                     activity, firstReads, ui, openedDialog, lastBadgeCount, pushMessages,
                     pushMessagesDict, tasks, shade, crashed, cleared, shifted, acts,
                     forgotten, due, outcome>>
      /\ Watch
  BY <1>1 DEF AddToCounts, Busy, outside, backend, settings, screen, controller, marks, lists,
     counts, accidents, log
<1>3. work.msg \in Messages /\ WorkTyped /\ "show" \in WorkPcs
  BY <1>2 DEF Typed, WorkTyped, WorkPcs
<1>4. QueueStep
  BY <1>2, WatchNotes DEF QueueStep
<1>5. work'.pc = "show" /\ WorkTyped'
  BY <1>2, <1>3, WorkGoesOn DEF WorkTyped
<1>6. CountsTyped'
  <2>1. c \in Chats
    BY <1>1, <1>3, ChatFacts
  <2>2. QED
    BY <1>2, <2>1 DEF Typed, CountsTyped
<1>7. Typed'
  BY <1>2, <1>4, <1>5, <1>6, SameTyped, QueueStepTyped DEF Typed, FlagsTyped, LogTyped
<1>8. QED
  BY <1>1, <1>2, <1>3, <1>4, <1>5, <1>7

LEMMA ShowOrUpdateDoes ==
    ASSUME Typed, ShowOrUpdate
    PROVE  /\ work.pc = "show" /\ QueueStep
           /\ UNCHANGED <<arrived, unseen, deleted, muted, badgeNumber, dismissDate, handled,
                          activity, firstReads, ui, openedDialog, lastBadgeCount,
                          pushMessages, pushMessagesDict, pushDialogs, totalUnread, tasks,
                          shade, crashed, cleared, shifted, acts, forgotten, due,
                          outcome>>
           /\ \/ pushMessages = <<>> /\ work'.pc = "clear"
              \/ pushMessages # <<>> /\ work'.pc = "notify"
           /\ Typed'
<1>1. /\ work.pc = "show" /\ ~crashed
      /\ \/ pushMessages = <<>> /\ work' = [work EXCEPT !.pc = "clear"]
         \/ pushMessages # <<>> /\ work' = [work EXCEPT !.pc = "notify"]
      /\ UNCHANGED <<arrived, unseen, deleted, muted, badgeNumber, dismissDate, handled,
                     activity, firstReads, ui, openedDialog, lastBadgeCount, pushMessages,
                     pushMessagesDict, pushDialogs, totalUnread, tasks, shade, crashed,
                     cleared, shifted, acts, forgotten, due, outcome>>
      /\ Watch
  BY DEF ShowOrUpdate, Busy, outside, backend, settings, screen, controller, marks, lists,
     counts, accidents, log
<1>2. WorkTyped /\ "clear" \in WorkPcs /\ "notify" \in WorkPcs
  BY <1>1 DEF Typed, WorkPcs
<1>3. QueueStep
  BY <1>1, WatchNotes DEF QueueStep
<1>4. /\ \/ pushMessages = <<>> /\ work'.pc = "clear"
         \/ pushMessages # <<>> /\ work'.pc = "notify"
      /\ WorkTyped'
  BY <1>1, <1>2, WorkGoesOn DEF WorkTyped
<1>5. Typed'
  BY <1>1, <1>3, <1>4, SameTyped, QueueStepTyped DEF Typed, FlagsTyped, LogTyped
<1>6. QED
  BY <1>1, <1>3, <1>4, <1>5

ShownChats == {c \in Chats : pushDialogs[c] > 0}

LEMMA NotifyDoes ==
    ASSUME Typed, Notify
    PROVE  /\ work.pc = "notify" /\ QueueStep
           /\ UNCHANGED <<arrived, unseen, deleted, muted, badgeNumber, dismissDate, handled,
                          activity, firstReads, ui, openedDialog, lastBadgeCount,
                          pushMessages, pushMessagesDict, pushDialogs, totalUnread, crashed,
                          cleared, shifted, acts, forgotten, due, outcome>>
           /\ \/ pushMessages = <<>> /\ work'.pc = "idle" /\ UNCHANGED <<shade, tasks>>
              \/ work'.pc = "clear" /\ UNCHANGED <<shade, tasks>>
              \/ /\ work'.pc = "idle"
                 /\ shade'.count = totalUnread /\ shade'.chats = Cardinality(ShownChats)
                 /\ tasks' = IF badgeNumber THEN Append(tasks, BadgeTask(totalUnread))
                             ELSE tasks
           /\ Typed'
<1>1. PICK d : d = Date[Head(pushMessages)]
  OBVIOUS
<1>2. PICK n : n = Cardinality(ShownChats)
  OBVIOUS
<1>3. /\ work.pc = "notify" /\ ~crashed
      /\ UNCHANGED <<arrived, unseen, deleted, muted, badgeNumber, dismissDate, handled,
                     activity, firstReads, ui, openedDialog, lastBadgeCount, pushMessages,
                     pushMessagesDict, pushDialogs, totalUnread, crashed, cleared, shifted,
                     acts, forgotten, due, outcome>>
      /\ Watch
      /\ \/ pushMessages = <<>> /\ work' = WorkIdle /\ UNCHANGED <<shade, tasks>>
         \/ work' = [work EXCEPT !.pc = "clear"] /\ UNCHANGED <<shade, tasks>>
         \/ /\ pushMessages # <<>> /\ work' = WorkIdle
            /\ shade' = [count |-> totalUnread, chats |-> n, date |-> d]
            /\ tasks' = IF badgeNumber THEN Append(tasks, BadgeTask(totalUnread)) ELSE tasks
  BY <1>1, <1>2 DEF Notify, Busy, ShownChats, outside, backend, settings, screen, controller,
     marks, lists, counts, accidents, log
<1>4. QueueStep
  BY <1>3, WatchNotes DEF QueueStep
<1>5. WorkTyped /\ totalUnread \in Int /\ n \in Nat
  BY <1>2, FiniteParts DEF Typed, CountsTyped, ShownChats
<1>6. pushMessages # <<>> => d \in Nat
  <2> SUFFICES ASSUME pushMessages # <<>>
               PROVE  d \in Nat
    OBVIOUS
  <2>1. Head(pushMessages) \in Messages
    BY HeadTailProperties DEF Typed, ListTyped
  <2>2. QED
    BY <1>1, <2>1, ChatFacts
<1>7. CASE work' = [work EXCEPT !.pc = "clear"] /\ UNCHANGED <<shade, tasks>>
  <2>1. "clear" \in WorkPcs
    BY DEF WorkPcs
  <2>2. WorkTyped' /\ work'.pc = "clear"
    BY <1>5, <1>7, <2>1, WorkGoesOn DEF WorkTyped
  <2>3. Typed'
    BY <1>3, <1>4, <1>7, <2>2, SameTyped, QueueStepTyped DEF Typed, FlagsTyped, LogTyped
  <2>4. QED
    BY <1>3, <1>4, <1>7, <2>2, <2>3
<1>8. CASE /\ pushMessages # <<>> /\ work' = WorkIdle
           /\ shade' = [count |-> totalUnread, chats |-> n, date |-> d]
           /\ tasks' = IF badgeNumber THEN Append(tasks, BadgeTask(totalUnread)) ELSE tasks
  <2>1. WorkTyped' /\ work'.pc = "idle"
    BY <1>5, <1>8, WorkGoesOn DEF WorkTyped
  <2>2. ShadeTyped' /\ shade'.count = totalUnread /\ shade'.chats = n
    BY <1>5, <1>6, <1>8 DEF ShadeTyped
  <2>3. TasksTyped'
    BY <1>5, <1>8, TaskKinds DEF Typed, TasksTyped
  <2>4. Typed'
    BY <1>3, <1>4, <2>1, <2>2, <2>3, SameTyped, QueueStepTyped DEF Typed, FlagsTyped, LogTyped
  <2>5. QED
    BY <1>2, <1>3, <1>4, <1>8, <2>1, <2>2, <2>4
<1>9. CASE pushMessages = <<>> /\ work' = WorkIdle /\ UNCHANGED <<shade, tasks>>
  <2>1. WorkTyped' /\ work'.pc = "idle"
    BY <1>5, <1>9, WorkGoesOn DEF WorkTyped
  <2>2. Typed'
    BY <1>3, <1>4, <1>9, <2>1, SameTyped, QueueStepTyped DEF Typed, FlagsTyped, LogTyped
  <2>3. QED
    BY <1>3, <1>4, <1>9, <2>1, <2>2
<1>10. QED
  BY <1>3, <1>7, <1>8, <1>9

LEMMA ClearListDoes ==
    ASSUME Typed, ClearList
    PROVE  /\ work.pc = "clear" /\ QueueStep
           /\ UNCHANGED <<arrived, unseen, deleted, muted, badgeNumber, dismissDate, handled,
                          activity, firstReads, ui, openedDialog, lastBadgeCount,
                          pushMessagesDict, pushDialogs, totalUnread, tasks, crashed, acts,
                          due, outcome>>
           /\ shade' = NoNotification /\ pushMessages' = <<>>
           /\ forgotten' = [c \in Chats |-> forgotten[c] + Cardinality(Listed \cap Of(c))]
           /\ cleared' = (cleared \/ Removing)
           /\ shifted' = (shifted \/ ui.pc \in {"drop", "remove"})
           /\ work'.pc = "clearDict"
           /\ Typed'
<1>1. /\ work.pc = "clear" /\ ~crashed
      /\ shade' = NoNotification /\ pushMessages' = <<>>
      /\ forgotten' = [c \in Chats |-> forgotten[c] + Cardinality(Listed \cap Of(c))]
      /\ cleared' = (cleared \/ Removing)
      /\ shifted' = (shifted \/ ui.pc \in {"drop", "remove"})
      /\ work' = [work EXCEPT !.pc = "clearDict"]
      /\ UNCHANGED <<arrived, unseen, deleted, muted, badgeNumber, dismissDate, handled,
                     activity, firstReads, ui, openedDialog, lastBadgeCount, pushMessagesDict,
                     pushDialogs, totalUnread, tasks, crashed, acts, due, outcome>>
      /\ Watch
  BY DEF ClearList, Busy, outside, backend, settings, screen, controller, marks, lists,
     counts, accidents, log
<1>2. WorkTyped /\ "clearDict" \in WorkPcs
  BY DEF Typed, WorkPcs
<1>3. QueueStep
  BY <1>1, WatchNotes DEF QueueStep
<1>4. WorkTyped' /\ work'.pc = "clearDict"
  BY <1>1, <1>2, WorkGoesOn DEF WorkTyped
<1>5. ListTyped' /\ ShadeTyped'
  BY <1>1 DEF ListTyped, ShadeTyped, NoNotification
<1>6. cleared' \in BOOLEAN /\ shifted' \in BOOLEAN
  BY <1>1 DEF Typed, FlagsTyped, Removing
<1>7. forgotten' \in [Chats -> Nat]
  <2>1. \A c : Cardinality(Listed \cap Of(c)) \in Nat
    BY ChatFacts, FiniteParts
  <2>2. QED
    BY <1>1, <2>1 DEF Typed, LogTyped
<1>8. Typed'
  BY <1>1, <1>3, <1>4, <1>5, <1>6, <1>7, SameTyped, QueueStepTyped DEF Typed, LogTyped
<1>9. QED
  BY <1>1, <1>3, <1>4, <1>8

LEMMA ClearDictDoes ==
    ASSUME Typed, ClearDict
    PROVE  /\ work.pc = "clearDict" /\ QueueStep
           /\ UNCHANGED <<arrived, unseen, deleted, muted, badgeNumber, dismissDate, handled,
                          activity, firstReads, ui, openedDialog, lastBadgeCount,
                          pushMessages, pushDialogs, totalUnread, tasks, shade, crashed,
                          cleared, shifted, acts, forgotten, due, outcome>>
           /\ pushMessagesDict' = {} /\ work'.pc = "clearCount"
           /\ Typed'
<1>1. /\ work.pc = "clearDict" /\ ~crashed
      /\ pushMessagesDict' = {} /\ work' = [work EXCEPT !.pc = "clearCount"]
      /\ UNCHANGED <<arrived, unseen, deleted, muted, badgeNumber, dismissDate, handled,
                     activity, firstReads, ui, openedDialog, lastBadgeCount, pushMessages,
                     pushDialogs, totalUnread, tasks, shade, crashed, cleared, shifted, acts,
                     forgotten, due, outcome>>
      /\ Watch
  BY DEF ClearDict, Busy, outside, backend, settings, screen, controller, marks, lists,
     counts, accidents, log
<1>2. WorkTyped /\ "clearCount" \in WorkPcs
  BY DEF Typed, WorkPcs
<1>3. QueueStep
  BY <1>1, WatchNotes DEF QueueStep
<1>4. WorkTyped' /\ work'.pc = "clearCount" /\ DictTyped'
  BY <1>1, <1>2, WorkGoesOn DEF WorkTyped, DictTyped
<1>5. Typed'
  BY <1>1, <1>3, <1>4, SameTyped, QueueStepTyped DEF Typed, FlagsTyped, LogTyped
<1>6. QED
  BY <1>1, <1>3, <1>4, <1>5

LEMMA ClearCountDoes ==
    ASSUME Typed, ClearCount
    PROVE  /\ work.pc = "clearCount" /\ QueueStep
           /\ UNCHANGED <<arrived, unseen, deleted, muted, badgeNumber, dismissDate, handled,
                          activity, firstReads, ui, openedDialog, lastBadgeCount,
                          pushMessages, pushMessagesDict, pushDialogs, shade, crashed,
                          cleared, shifted, acts, forgotten, due, outcome>>
           /\ totalUnread' = 0 /\ tasks' = Append(tasks, BadgeTask(0)) /\ work'.pc = "idle"
           /\ Typed'
<1>1. /\ work.pc = "clearCount" /\ ~crashed
      /\ totalUnread' = 0 /\ tasks' = Append(tasks, BadgeTask(0)) /\ work' = WorkIdle
      /\ UNCHANGED <<arrived, unseen, deleted, muted, badgeNumber, dismissDate, handled,
                     activity, firstReads, ui, openedDialog, lastBadgeCount, pushMessages,
                     pushMessagesDict, pushDialogs, shade, crashed, cleared, shifted, acts,
                     forgotten, due, outcome>>
      /\ Watch
  BY DEF ClearCount, Busy, outside, backend, settings, screen, controller, marks, lists,
     counts, accidents, log
<1>2. QueueStep
  BY <1>1, WatchNotes DEF QueueStep
<1>3. WorkTyped' /\ work'.pc = "idle"
  BY <1>1, WorkGoesOn DEF Typed, WorkTyped
<1>4. TasksTyped' /\ CountsTyped'
  BY <1>1, TaskKinds DEF Typed, TasksTyped, CountsTyped
<1>5. Typed'
  BY <1>1, <1>2, <1>3, <1>4, SameTyped, QueueStepTyped DEF Typed, FlagsTyped, LogTyped
<1>6. QED
  BY <1>1, <1>2, <1>3, <1>5

-----------------------------------------------------------------------------
(* What always holds stays so.                                             *)

Quiet == {"open", "show", "badge"}

\* The other tasks leave the announcements alone.
LEMMA PostsKeepNews ==
    ASSUME TasksTyped, Posts(Quiet)
    PROVE  \A m \in Messages :
               /\ NewTask(m) \in ToSet(tasks') => NewTask(m) \in ToSet(tasks)
               /\ OnceIn(tasks, NewTask(m)) => OnceIn(tasks', NewTask(m))
<1> SUFFICES ASSUME NEW m \in Messages
             PROVE  /\ NewTask(m) \in ToSet(tasks') => NewTask(m) \in ToSet(tasks)
                    /\ OnceIn(tasks, NewTask(m)) => OnceIn(tasks', NewTask(m))
  OBVIOUS
<1>1. CASE tasks' = tasks
  BY <1>1
<1>2. CASE \E t \in Task : t.kind \in Quiet /\ tasks' = Append(tasks, t)
  <2>1. PICK t \in Task : t.kind \in Quiet /\ tasks' = Append(tasks, t)
    BY <1>2
  <2>2. t # NewTask(m) /\ tasks \in Seq(Task)
    BY <2>1, TaskKinds DEF TasksTyped, Quiet
  <2>3. ToSet(tasks') = ToSet(tasks) \cup {t}
    BY <2>1, <2>2, ToSetOfAppend
  <2>4. OnceIn(tasks, NewTask(m)) => OnceIn(tasks', NewTask(m))
    BY <2>1, <2>2, OnceAfterAppend
  <2>5. QED
    BY <2>2, <2>3, <2>4
<1>3. QED
  BY <1>1, <1>2 DEF Posts

LEMMA AnnouncedFrame ==
    ASSUME Typed, AnnouncedOnce, UNCHANGED <<handled, outcome>>, ui'.next \in {ui.next, 0},
           Posts(Quiet)
    PROVE  AnnouncedOnce'
<1>1. \A m \in Messages :
          /\ NewTask(m) \in ToSet(tasks') => NewTask(m) \in ToSet(tasks)
          /\ OnceIn(tasks, NewTask(m)) => OnceIn(tasks', NewTask(m))
  BY PostsKeepNews DEF Typed
<1>2. ui.next \in Messages \cup {0}
  BY DEF Typed, UiTyped, UiState
<1>3. \A m \in Messages : m > handled' => outcome'[m] = "none"
  BY DEF AnnouncedOnce
<1>4. ui'.next # 0 =>
          /\ outcome'[ui'.next] = "none" /\ ui'.next <= handled'
          /\ NewTask(ui'.next) \notin ToSet(tasks')
  BY <1>1, <1>2 DEF AnnouncedOnce
<1>5. \A m \in Messages :
          /\ OnceIn(tasks', NewTask(m))
          /\ NewTask(m) \in ToSet(tasks') => outcome'[m] = "none" /\ m <= handled'
  BY <1>1 DEF AnnouncedOnce
<1>6. QED
  BY <1>3, <1>4, <1>5 DEF AnnouncedOnce, NewTask

LEMMA ListedFrame ==
    ASSUME ListedOnce, UNCHANGED <<pushMessages, outcome>>,
           work'.pc # "list" \/ UNCHANGED work
    PROVE  ListedOnce'
BY DEF ListedOnce, Listed

LEMMA SnapshotFrame ==
    ASSUME SnapshotIsCurrent, UNCHANGED <<unseen, handled>>,
           Walking' => Walking /\ ui'.snapshot = ui.snapshot
    PROVE  SnapshotIsCurrent'
BY DEF SnapshotIsCurrent

LEMMA IndexFrame ==
    ASSUME IndexIsRight, UNCHANGED <<ui, pushMessages, cleared, shifted, handled>>
    PROVE  IndexIsRight'
BY DEF IndexIsRight

LEMMA OverlapFrame ==
    ASSUME OverlapIsKnown, Noted, UNCHANGED <<crashed, cleared, shifted>>
    PROVE  OverlapIsKnown'
BY DEF OverlapIsKnown, Noted

\* Steps that only change what the announcements and the walk do not see.
LEMMA AlwaysFrame ==
    ASSUME Always, Typed', Noted, Posts(Quiet), work'.pc # "list" \/ UNCHANGED work,
           UNCHANGED <<arrived, unseen, handled, ui, pushMessages, outcome, crashed,
                       cleared, shifted>>
    PROVE  Always'
<1>1. AnnouncedOnce' /\ ListedOnce'
  BY AnnouncedFrame, ListedFrame DEF Always
<1>2. SnapshotIsCurrent' /\ IndexIsRight' /\ OverlapIsKnown'
  BY SnapshotFrame, IndexFrame, OverlapFrame DEF Always, Walking
<1>3. QED
  BY <1>1, <1>2 DEF Always

LEMMA ArriveAlways ==
    ASSUME Always, Arrive
    PROVE  Always'
<1>1. /\ arrived' = arrived + 1 /\ unseen' = unseen \cup {arrived + 1}
      /\ UNCHANGED <<deleted, muted, badgeNumber, dismissDate, handled, activity, firstReads,
                     ui, openedDialog, lastBadgeCount, pushMessages, pushMessagesDict,
                     pushDialogs, totalUnread, tasks, work, shade, crashed, cleared, shifted,
                     acts, forgotten, due, outcome>>
      /\ Noted /\ Typed'
  BY ArriveDoes DEF Always
<1>2. arrived \in Nat /\ handled \in Nat /\ handled <= arrived
  BY DEF Always, Typed, BackendTyped, HandledTyped
<1>3. AnnouncedOnce' /\ ListedOnce'
  BY <1>1, AnnouncedFrame, ListedFrame DEF Always, Posts
<1>4. SnapshotIsCurrent'
  BY <1>1, <1>2 DEF Always, SnapshotIsCurrent, Walking
<1>5. IndexIsRight' /\ OverlapIsKnown'
  BY <1>1, IndexFrame, OverlapFrame DEF Always
<1>6. QED
  BY <1>1, <1>3, <1>4, <1>5 DEF Always

LEMMA UserStepPosts ==
    ASSUME Typed, UserStep
    PROVE  Posts(Quiet)
<1>1. CASE Posts({"open"})
  BY <1>1 DEF Posts, Quiet
<1>2. CASE tasks' = Append(tasks, BadgeTask(IF badgeNumber' THEN totalUnread ELSE 0))
  <2>1. PICK n \in Int : n = IF badgeNumber' THEN totalUnread ELSE 0
    BY DEF Typed, CountsTyped
  <2>2. BadgeTask(n) \in Task /\ BadgeTask(n).kind \in Quiet
    BY TaskKinds DEF Quiet
  <2>3. QED
    BY <1>2, <2>1, <2>2 DEF Posts
<1>3. QED
  BY <1>1, <1>2 DEF UserStep

LEMMA UserAlways ==
    ASSUME Always, UserStep, Typed'
    PROVE  Always'
<1>1. /\ ui.pc = "idle"
      /\ UNCHANGED ui \/ ui' = ToRemoval(0)
      /\ Reads /\ Noted
      /\ UNCHANGED <<arrived, handled, pushMessages, work, crashed, cleared, shifted,
                     outcome>>
  BY DEF UserStep
<1>2. ui'.pc \in {"idle", "seen"} /\ ui'.next \in {ui.next, 0}
  BY <1>1, UiStates
<1>3. AnnouncedOnce' /\ ListedOnce' /\ OverlapIsKnown'
  BY <1>1, <1>2, UserStepPosts, AnnouncedFrame, ListedFrame, OverlapFrame
     DEF Always
<1>4. SnapshotIsCurrent' /\ IndexIsRight'
  BY <1>2 DEF SnapshotIsCurrent, IndexIsRight, Walking
<1>5. QED
  BY <1>3, <1>4 DEF Always

LEMMA HandleIncomingAlways ==
    ASSUME Always, HandleIncoming
    PROVE  Always'
<1>1. PICK m : m = handled'
  OBVIOUS
<1>2. /\ m = handled + 1 /\ m \in Messages /\ m <= arrived /\ handled' = m
      /\ ui' = ToRemoval(m) \/ ui' = ToAnnounce(m)
      /\ Reads /\ Noted /\ Typed'
      /\ UNCHANGED <<arrived, deleted, muted, badgeNumber, dismissDate, firstReads,
                     openedDialog, lastBadgeCount, pushMessages, pushMessagesDict,
                     pushDialogs, totalUnread, tasks, work, shade, crashed, cleared, shifted,
                     acts, forgotten, outcome>>
  BY <1>1, HandleIncomingDoes DEF Always
<1>3. ui'.next = m /\ ui'.pc \in {"seen", "announce"}
  BY <1>2, UiStates
<1>4. AnnouncedOnce'
  <2>1. handled \in Int /\ m \in Int /\ m > handled /\ Messages \subseteq Int
    BY <1>2, ChatFacts DEF Always, Typed, HandledTyped
  <2>2. outcome[m] = "none" /\ NewTask(m) \notin ToSet(tasks)
    BY <1>2, <2>1 DEF Always, AnnouncedOnce
  <2>3. \A k \in Messages : k > handled' => outcome'[k] = "none"
    BY <1>2, <2>1 DEF Always, AnnouncedOnce
  <2>4. \A k \in Messages :
            /\ OnceIn(tasks', NewTask(k))
            /\ NewTask(k) \in ToSet(tasks') => outcome'[k] = "none" /\ k <= handled'
    BY <1>2, <2>1 DEF Always, AnnouncedOnce
  <2>5. m # 0 /\ outcome'[m] = "none" /\ m <= handled' /\ NewTask(m) \notin ToSet(tasks')
    BY <1>2, <2>1, <2>2, ChatFacts
  <2>6. QED
    BY <1>3, <2>3, <2>4, <2>5 DEF AnnouncedOnce, NewTask
<1>5. ListedOnce' /\ OverlapIsKnown'
  BY <1>2, ListedFrame, OverlapFrame DEF Always
<1>6. SnapshotIsCurrent' /\ IndexIsRight'
  BY <1>3 DEF SnapshotIsCurrent, IndexIsRight, Walking
<1>7. QED
  BY <1>2, <1>4, <1>5, <1>6 DEF Always

LEMMA AnnounceAlways ==
    ASSUME Always, Announce
    PROVE  Always'
<1>1. PICK m : m = ui.next
  OBVIOUS
<1>2. /\ ui.pc = "announce" /\ ui' = UiIdle /\ m \in Messages
      /\ \/ outcome' = [outcome EXCEPT ![m] = "sound"] /\ UNCHANGED tasks
         \/ tasks' = Append(tasks, NewTask(m)) /\ UNCHANGED outcome
      /\ Noted /\ Typed'
      /\ UNCHANGED <<arrived, unseen, deleted, muted, badgeNumber, dismissDate, handled,
                     activity, firstReads, openedDialog, lastBadgeCount, pushMessages,
                     pushMessagesDict, pushDialogs, totalUnread, work, shade, crashed,
                     cleared, shifted, acts, forgotten, due>>
  BY <1>1, AnnounceDoes DEF Always
<1>3. ui'.next = 0 /\ ui'.pc = "idle"
  BY <1>2, UiStates
<1>4. outcome[m] = "none" /\ m <= handled /\ NewTask(m) \notin ToSet(tasks)
  BY <1>1, <1>2, ChatFacts DEF Always, AnnouncedOnce
<1>5. /\ outcome \in [Messages -> {"none", "sound", "skipped", "listed"}]
      /\ handled \in Int /\ Messages \subseteq Int /\ tasks \in Seq(Task)
  BY ChatFacts DEF Always, Typed, LogTyped, HandledTyped, TasksTyped
<1>6. \A k \in Messages : k # m => outcome'[k] = outcome[k]
  BY <1>2, <1>5
<1>7. AnnouncedOnce'
  <2>1. \A k \in Messages : k > handled' => outcome'[k] = "none"
    BY <1>2, <1>4, <1>5, <1>6 DEF Always, AnnouncedOnce
  <2>2. ASSUME NEW k \in Messages
        PROVE  /\ OnceIn(tasks', NewTask(k))
               /\ NewTask(k) \in ToSet(tasks') => outcome'[k] = "none" /\ k <= handled'
    <3>1. CASE outcome' = [outcome EXCEPT ![m] = "sound"] /\ UNCHANGED tasks
      BY <1>2, <1>4, <1>6, <3>1 DEF Always, AnnouncedOnce
    <3>2. CASE tasks' = Append(tasks, NewTask(m)) /\ UNCHANGED outcome
      <4>1. NewTask(m) \in Task /\ (NewTask(k) = NewTask(m) => k = m)
        BY <1>2, TaskKinds
      <4>2. ToSet(tasks') = ToSet(tasks) \cup {NewTask(m)}
        BY <1>5, <3>2, <4>1, ToSetOfAppend
      <4>3. OnceIn(tasks', NewTask(k))
        BY <1>4, <1>5, <3>2, <4>1, OnceAfterAppend DEF Always, AnnouncedOnce
      <4>4. QED
        BY <1>2, <1>4, <3>2, <4>1, <4>2, <4>3 DEF Always, AnnouncedOnce
    <3>3. QED
      BY <1>2, <3>1, <3>2
  <2>3. QED
    BY <1>3, <2>1, <2>2 DEF AnnouncedOnce, NewTask
<1>8. ListedOnce'
  <2>1. Listed' = Listed /\ \A k \in Listed : k \in Messages
    BY <1>2, ElementOfSeq DEF Listed, Always, Typed, ListTyped, ToSet
  <2>2. \A k \in Listed : outcome'[k] = "listed"
    BY <1>4, <1>6, <2>1 DEF Always, ListedOnce
  <2>3. work.pc = "list" => outcome'[work.msg] = "listed"
    BY <1>4, <1>6 DEF Always, ListedOnce, Typed, WorkTyped
  <2>4. QED
    BY <1>2, <2>1, <2>2, <2>3 DEF Always, ListedOnce
<1>9. OverlapIsKnown'
  BY <1>2, OverlapFrame DEF Always
<1>10. SnapshotIsCurrent' /\ IndexIsRight'
  BY <1>3 DEF SnapshotIsCurrent, IndexIsRight, Walking
<1>11. QED
  BY <1>2, <1>7, <1>8, <1>9, <1>10 DEF Always

\* removeSeenMessages: what each of its steps leaves alone.
LEMMA RemovalFrame ==
    ASSUME Always, RemovalStep, Posts(Quiet)
    PROVE  AnnouncedOnce'
<1>1. ui'.next = ui.next /\ UNCHANGED <<handled, outcome>>
  BY DEF RemovalStep
<1>2. QED
  BY <1>1, AnnouncedFrame DEF Always

LEMMA SeenStartAlways ==
    ASSUME Always, SeenStart
    PROVE  Always'
<1>1. /\ RemovalStep /\ UNCHANGED <<pushMessages, tasks, crashed>>
      /\ \/ ui'.pc \in {"idle", "announce"}
         \/ ui'.pc = "loop" /\ ui'.snapshot = unseen
      /\ Typed'
  BY SeenStartDoes DEF Always
<1>2. UNCHANGED <<unseen, work, outcome, cleared, shifted>> /\ Noted
  BY <1>1 DEF RemovalStep
<1>3. AnnouncedOnce'
  BY <1>1, RemovalFrame DEF Posts
<1>4. ListedOnce' /\ OverlapIsKnown'
  BY <1>1, <1>2, ListedFrame, OverlapFrame DEF Always
<1>5. SnapshotIsCurrent' /\ IndexIsRight'
  BY <1>1, <1>2 DEF SnapshotIsCurrent, IndexIsRight, Walking
<1>6. QED
  BY <1>1, <1>3, <1>4, <1>5 DEF Always

LEMMA SeenLoopAlways ==
    ASSUME Always, SeenLoop
    PROVE  Always'
<1>1. /\ ui.pc = "loop" /\ RemovalStep /\ UNCHANGED <<pushMessages, crashed>>
      /\ \/ /\ ui.i <= Len(pushMessages) /\ UNCHANGED tasks
            /\ ui'.pc = "get" /\ ui'.snapshot = ui.snapshot /\ ui'.i = ui.i
         \/ /\ ui'.pc \in {"idle", "announce"}
            /\ tasks' = IF ui.removed THEN Append(tasks, ShowTask) ELSE tasks
      /\ Typed'
  BY SeenLoopDoes DEF Always
<1>2. UNCHANGED <<unseen, handled, work, outcome, cleared, shifted>> /\ Noted
  BY <1>1 DEF RemovalStep
<1>3. AnnouncedOnce'
  <2>1. tasks' = tasks \/ tasks' = Append(tasks, ShowTask)
    BY <1>1
  <2>2. Posts(Quiet)
    BY <2>1, TaskKinds DEF Posts, Quiet
  <2>3. QED
    BY <1>1, <2>2, RemovalFrame
<1>4. ListedOnce' /\ OverlapIsKnown'
  BY <1>1, <1>2, ListedFrame, OverlapFrame DEF Always
<1>5. SnapshotIsCurrent'
  BY <1>1, <1>2, SnapshotFrame DEF Walking, Always
<1>6. IndexIsRight'
  BY <1>1 DEF IndexIsRight
<1>7. QED
  BY <1>1, <1>3, <1>4, <1>5, <1>6 DEF Always

LEMMA SeenGetAlways ==
    ASSUME Always, SeenGet
    PROVE  Always'
<1>1. /\ ui.pc = "get" /\ RemovalStep /\ UNCHANGED <<pushMessages, tasks>>
      /\ \/ ui.i > Len(pushMessages) /\ crashed' /\ UNCHANGED ui
         \/ /\ ui.i \in 1..Len(pushMessages) /\ UNCHANGED crashed
            /\ ui'.snapshot = ui.snapshot
            /\ \/ ui'.pc = "loop"
               \/ /\ pushMessages[ui.i] \notin ui.snapshot
                  /\ ui'.pc = "drop" /\ ui'.i = ui.i /\ ui'.msg = pushMessages[ui.i]
      /\ Typed'
  BY SeenGetDoes DEF Always
<1>2. UNCHANGED <<unseen, handled, work, outcome, cleared, shifted>> /\ Noted
  BY <1>1 DEF RemovalStep
<1>3. AnnouncedOnce'
  BY <1>1, RemovalFrame DEF Posts
<1>4. ListedOnce'
  BY <1>1, <1>2, ListedFrame DEF Always
<1>5. SnapshotIsCurrent'
  BY <1>1, <1>2, SnapshotFrame DEF Walking, Always
<1>6. pushMessages \in Seq(Messages) /\ ui.i \in Nat /\ handled \in Int
  BY DEF Always, Typed, ListTyped, UiTyped, UiState, HandledTyped
<1>7. CASE ui.i > Len(pushMessages) /\ crashed' /\ UNCHANGED ui
  <2>1. cleared
    BY <1>1, <1>6, <1>7 DEF Always, IndexIsRight
  <2>2. OverlapIsKnown'
    BY <1>2, <2>1 DEF Always, OverlapIsKnown, Noted
  <2>3. IndexIsRight'
    BY <1>1, <1>2, <1>7, IndexFrame DEF Always
  <2>4. QED
    BY <1>1, <1>3, <1>4, <1>5, <2>2, <2>3 DEF Always
<1>8. CASE ui.i \in 1..Len(pushMessages) /\ UNCHANGED crashed /\ ui'.pc = "loop"
  <2>1. OverlapIsKnown' /\ IndexIsRight'
    BY <1>2, <1>8, OverlapFrame DEF Always, IndexIsRight
  <2>2. QED
    BY <1>1, <1>3, <1>4, <1>5, <2>1 DEF Always
<1>9. CASE /\ ui.i \in 1..Len(pushMessages) /\ UNCHANGED crashed
           /\ ui'.snapshot = ui.snapshot
           /\ pushMessages[ui.i] \notin ui.snapshot
           /\ ui'.pc = "drop" /\ ui'.i = ui.i /\ ui'.msg = pushMessages[ui.i]
  <2>1. OverlapIsKnown'
    BY <1>2, <1>9, OverlapFrame DEF Always
  <2>2. PICK m : m = pushMessages[ui.i]
    OBVIOUS
  <2>3. m \in Messages /\ m \in Listed
    BY <1>6, <1>9, <2>2, ElementOfSeq DEF Listed, ToSet
  <2>4. m <= handled
    BY <1>6, <2>3, ChatFacts DEF Always, ListedOnce, AnnouncedOnce
  <2>5. IndexIsRight'
    BY <1>1, <1>2, <1>6, <1>9, <2>2, <2>4 DEF IndexIsRight
  <2>6. QED
    BY <1>1, <1>3, <1>4, <1>5, <2>1, <2>5 DEF Always
<1>10. QED
  BY <1>1, <1>7, <1>8, <1>9

LEMMA SeenDropAlways ==
    ASSUME Always, SeenDrop
    PROVE  Always'
<1>1. /\ ui.pc = "drop" /\ RemovalStep /\ UNCHANGED <<pushMessages, tasks, crashed>>
      /\ ui'.pc = "remove" /\ ui'.snapshot = ui.snapshot /\ ui'.i = ui.i
      /\ ui'.msg = ui.msg
      /\ Typed'
  BY SeenDropDoes DEF Always
<1>2. UNCHANGED <<unseen, handled, work, outcome, cleared, shifted>> /\ Noted
  BY <1>1 DEF RemovalStep
<1>3. AnnouncedOnce'
  BY <1>1, RemovalFrame DEF Posts
<1>4. ListedOnce' /\ OverlapIsKnown'
  BY <1>1, <1>2, ListedFrame, OverlapFrame DEF Always
<1>5. SnapshotIsCurrent'
  BY <1>1, <1>2, SnapshotFrame DEF Walking, Always
<1>6. IndexIsRight'
  BY <1>1, <1>2 DEF Always, IndexIsRight
<1>7. QED
  BY <1>1, <1>3, <1>4, <1>5, <1>6 DEF Always

LEMMA SeenRemoveAlways ==
    ASSUME Always, SeenRemove
    PROVE  Always'
<1>1. /\ ui.pc = "remove" /\ RemovalStep /\ UNCHANGED tasks
      /\ \/ ui.i > Len(pushMessages) /\ crashed' /\ UNCHANGED <<pushMessages, ui>>
         \/ /\ ui.i \in 1..Len(pushMessages) /\ UNCHANGED crashed
            /\ pushMessages' = RemoveAt(pushMessages, ui.i)
            /\ ui'.pc = "uncount" /\ ui'.snapshot = ui.snapshot
      /\ Typed'
  BY SeenRemoveDoes DEF Always
<1>2. UNCHANGED <<unseen, handled, work, outcome, cleared, shifted>> /\ Noted
  BY <1>1 DEF RemovalStep
<1>3. AnnouncedOnce'
  BY <1>1, RemovalFrame DEF Posts
<1>4. SnapshotIsCurrent'
  BY <1>1, <1>2, SnapshotFrame DEF Walking, Always
<1>5. pushMessages \in Seq(Messages) /\ ui.i \in Nat
  BY DEF Always, Typed, ListTyped, UiTyped, UiState
<1>6. CASE ui.i > Len(pushMessages) /\ crashed' /\ UNCHANGED <<pushMessages, ui>>
  <2>1. cleared
    BY <1>1, <1>5, <1>6 DEF Always, IndexIsRight
  <2>2. OverlapIsKnown'
    BY <1>2, <2>1 DEF Always, OverlapIsKnown, Noted
  <2>3. ListedOnce' /\ IndexIsRight'
    BY <1>2, <1>6, ListedFrame, IndexFrame DEF Always
  <2>4. QED
    BY <1>1, <1>3, <1>4, <2>2, <2>3 DEF Always
<1>7. CASE /\ ui.i \in 1..Len(pushMessages) /\ UNCHANGED crashed
           /\ pushMessages' = RemoveAt(pushMessages, ui.i)
           /\ ui'.pc = "uncount"
  <2>1. OverlapIsKnown' /\ IndexIsRight'
    BY <1>2, <1>7, OverlapFrame DEF Always, IndexIsRight
  <2>2. IsInjective(pushMessages') /\ Listed' = Listed \ {pushMessages[ui.i]}
    BY <1>5, <1>7, RemoveAtOfDistinct DEF Always, ListedOnce, Listed
  <2>3. ListedOnce'
    BY <1>2, <2>2 DEF Always, ListedOnce
  <2>4. QED
    BY <1>1, <1>3, <1>4, <2>1, <2>3 DEF Always
<1>8. QED
  BY <1>1, <1>6, <1>7

LEMMA SeenUncountAlways ==
    ASSUME Always, SeenUncount
    PROVE  Always'
<1>1. /\ ui.pc = "uncount" /\ RemovalStep /\ UNCHANGED <<pushMessages, tasks, crashed>>
      /\ ui'.pc = "loop" /\ ui'.snapshot = ui.snapshot
      /\ Typed'
  BY SeenUncountDoes DEF Always
<1>2. UNCHANGED <<unseen, handled, work, outcome, cleared, shifted>> /\ Noted
  BY <1>1 DEF RemovalStep
<1>3. AnnouncedOnce'
  BY <1>1, RemovalFrame DEF Posts
<1>4. ListedOnce' /\ OverlapIsKnown'
  BY <1>1, <1>2, ListedFrame, OverlapFrame DEF Always
<1>5. SnapshotIsCurrent'
  BY <1>1, <1>2, SnapshotFrame DEF Walking, Always
<1>6. IndexIsRight'
  BY <1>1 DEF IndexIsRight
<1>7. QED
  BY <1>1, <1>3, <1>4, <1>5, <1>6 DEF Always

-----------------------------------------------------------------------------
LEMMA TakeTaskAlways ==
    ASSUME Always, TakeTask
    PROVE  Always'
<1>1. /\ work.pc = "idle" /\ QueueStep /\ tasks # <<>> /\ tasks' = Tail(tasks)
      /\ UNCHANGED <<pushMessages, cleared, shifted>>
      /\ Typed'
  BY TakeTaskDoes DEF Always
<1>2. UNCHANGED <<arrived, unseen, handled, ui, crashed>> /\ Noted
  BY <1>1 DEF QueueStep
<1>3. PICK t \in Task :
          /\ t = Head(tasks)
          /\ \/ UNCHANGED <<work, outcome>>
             \/ work'.pc = "show" /\ UNCHANGED outcome
             \/ /\ t.kind = "new" /\ UNCHANGED work
                /\ outcome' = [outcome EXCEPT ![t.of] = "skipped"]
             \/ /\ t.kind = "new"
                /\ outcome' = [outcome EXCEPT ![t.of] = "listed"]
                /\ work'.pc = "list" /\ work'.msg = t.of
  BY TakeTaskDoes DEF Always
<1>4. /\ tasks \in Seq(Task) /\ handled \in Int /\ arrived \in Int /\ Messages \subseteq Int
      /\ handled <= arrived /\ pushMessages \in Seq(Messages)
      /\ outcome \in [Messages -> {"none", "sound", "skipped", "listed"}]
  BY ChatFacts DEF Always, Typed, TasksTyped, HandledTyped, BackendTyped, LogTyped, ListTyped
<1>5. ToSet(tasks) = {t} \cup ToSet(tasks')
  BY <1>1, <1>3, <1>4, ToSetOfTail
<1>6. \A k \in Messages :
          /\ OnceIn(tasks', NewTask(k))
          /\ NewTask(k) = t => NewTask(k) \notin ToSet(tasks')
  BY <1>1, <1>3, <1>4, OnceInTail DEF Always, AnnouncedOnce
<1>7. \A k \in Messages : NewTask(k) \in ToSet(tasks) => outcome[k] = "none" /\ k <= handled
  BY DEF Always, AnnouncedOnce
<1>8. SnapshotIsCurrent' /\ IndexIsRight' /\ OverlapIsKnown'
  BY <1>1, <1>2, SnapshotFrame, IndexFrame, OverlapFrame DEF Always, Walking
<1>9. CASE UNCHANGED outcome /\ (UNCHANGED work \/ work'.pc # "list")
  <2>1. AnnouncedOnce'
    BY <1>2, <1>5, <1>6, <1>9 DEF Always, AnnouncedOnce
  <2>2. ListedOnce'
    BY <1>1, <1>9, ListedFrame DEF Always
  <2>3. QED
    BY <1>1, <1>8, <2>1, <2>2 DEF Always
<1>10. CASE /\ t.kind = "new"
            /\ \/ UNCHANGED work /\ outcome' = [outcome EXCEPT ![t.of] = "skipped"]
               \/ /\ outcome' = [outcome EXCEPT ![t.of] = "listed"]
                  /\ work'.pc = "list" /\ work'.msg = t.of
  <2>1. PICK m \in Messages : m = t.of /\ t = NewTask(m)
    BY <1>10, TaskKinds
  <2>2. outcome[m] = "none" /\ m <= handled
    BY <1>5, <1>7, <2>1
  <2>3. /\ \A k \in Messages : k # m => outcome'[k] = outcome[k]
        /\ outcome'[m] # "none"
    BY <1>4, <1>10, <2>1
  <2>4. AnnouncedOnce'
    <3>1. \A k \in Messages : k > handled' => outcome'[k] = "none"
      BY <1>2, <1>4, <2>2, <2>3 DEF Always, AnnouncedOnce
    <3>2. \A k \in Messages : NewTask(k) \in ToSet(tasks') => outcome'[k] = "none" /\ k <= handled'
      BY <1>2, <1>5, <1>6, <1>7, <2>1, <2>3
    <3>3. ui.next # 0 => ui.next # m /\ NewTask(ui.next) \notin ToSet(tasks')
      BY <1>5, <2>1 DEF Always, AnnouncedOnce
    <3>4. ui.next # 0 => ui.next \in Messages
      BY DEF Always, Typed, UiTyped, UiState
    <3>5. ui'.next # 0 =>
              /\ outcome'[ui'.next] = "none" /\ ui'.next <= handled'
              /\ NewTask(ui'.next) \notin ToSet(tasks')
      BY <1>2, <2>3, <3>3, <3>4 DEF Always, AnnouncedOnce
    <3>6. QED
      BY <1>6, <3>1, <3>2, <3>5 DEF AnnouncedOnce, NewTask
  <2>5. Listed' = Listed /\ \A k \in Listed : k \in Messages /\ k # m
    BY <1>1, <1>4, <2>2, ElementOfSeq DEF Listed, ToSet, Always, ListedOnce
  <2>6. ListedOnce'
    <3>1. IsInjective(pushMessages') /\ \A k \in Listed' : outcome'[k] = "listed"
      BY <1>1, <2>3, <2>5 DEF Always, ListedOnce
    <3>2. work'.pc = "list" => outcome'[work'.msg] = "listed" /\ work'.msg \notin Listed'
      BY <1>1, <1>4, <1>10, <2>1, <2>5
    <3>3. QED
      BY <3>1, <3>2 DEF ListedOnce
  <2>7. QED
    BY <1>1, <1>8, <2>4, <2>6 DEF Always
<1>11. QED
  BY <1>3, <1>9, <1>10

LEMMA AddToListAlways ==
    ASSUME Always, AddToList
    PROVE  Always'
<1>1. PICK m : m = work.msg
  OBVIOUS
<1>2. /\ work.pc = "list" /\ m \in Messages /\ QueueStep
      /\ UNCHANGED <<tasks, outcome, cleared>>
      /\ pushMessages' = <<m>> \o pushMessages
      /\ shifted' = (shifted \/ ui.pc \in {"drop", "remove"})
      /\ work'.pc = "dict"
      /\ Typed'
  BY <1>1, AddToListDoes DEF Always
<1>3. UNCHANGED <<arrived, unseen, handled, ui, crashed>> /\ Noted
  BY <1>2 DEF QueueStep
<1>4. m \notin Listed /\ outcome[m] = "listed" /\ IsInjective(pushMessages)
  BY <1>1, <1>2 DEF Always, ListedOnce
<1>5. pushMessages \in Seq(Messages)
  BY DEF Always, Typed, ListTyped
<1>6. IsInjective(pushMessages') /\ Listed' = Listed \cup {m}
  BY <1>2, <1>4, <1>5, PrependToDistinct DEF Listed
<1>7. ListedOnce'
  BY <1>2, <1>4, <1>6 DEF Always, ListedOnce
<1>8. AnnouncedOnce' /\ SnapshotIsCurrent'
  BY <1>2, <1>3, AnnouncedFrame, SnapshotFrame DEF Always, Walking, Posts
<1>9. OverlapIsKnown'
  <2>1. ui.pc \in {"drop", "remove"} => overlapped'
    BY <1>2, <1>3 DEF Always, OverlapIsKnown, Noted, Overlap, Removing
  <2>2. QED
    BY <1>2, <1>3, <2>1 DEF Always, OverlapIsKnown, Noted
<1>10. IndexIsRight'
  <2>1. Len(pushMessages') = 1 + Len(pushMessages) /\ Len(pushMessages) \in Nat
    BY <1>2, <1>5
  <2>2. ui.i \in Nat
    BY DEF Always, Typed, UiTyped, UiState
  <2>3. ui.pc \in {"get", "drop", "remove"} /\ ~cleared => ui.i <= Len(pushMessages')
    BY <2>1, <2>2 DEF Always, IndexIsRight
  <2>4. ui.pc \in {"drop", "remove"} => shifted'
    BY <1>2
  <2>5. QED
    BY <1>2, <1>3, <2>3, <2>4 DEF Always, IndexIsRight
<1>11. QED
  BY <1>2, <1>7, <1>8, <1>9, <1>10 DEF Always

LEMMA ClearListAlways ==
    ASSUME Always, ClearList
    PROVE  Always'
<1>1. /\ work.pc = "clear" /\ QueueStep
      /\ UNCHANGED <<tasks, outcome>>
      /\ pushMessages' = <<>>
      /\ cleared' = (cleared \/ Removing)
      /\ shifted' = (shifted \/ ui.pc \in {"drop", "remove"})
      /\ work'.pc = "clearDict"
      /\ Typed'
  BY ClearListDoes DEF Always
<1>2. UNCHANGED <<arrived, unseen, handled, ui, crashed>> /\ Noted
  BY <1>1 DEF QueueStep
<1>3. ListedOnce'
  BY <1>1 DEF ListedOnce, Listed, IsInjective, ToSet
<1>4. AnnouncedOnce' /\ SnapshotIsCurrent'
  BY <1>1, <1>2, AnnouncedFrame, SnapshotFrame DEF Always, Walking, Posts
<1>5. OverlapIsKnown'
  <2>1. Removing => overlapped'
    BY <1>1, <1>2 DEF Always, OverlapIsKnown, Noted, Overlap
  <2>2. ui.pc \in {"drop", "remove"} => Removing
    BY DEF Removing
  <2>3. QED
    BY <1>1, <1>2, <2>1, <2>2 DEF Always, OverlapIsKnown, Noted
<1>6. IndexIsRight'
  <2>1. ui.pc \in {"get", "drop", "remove"} => cleared'
    BY <1>1 DEF Removing
  <2>2. ui.pc \in {"drop", "remove"} => shifted'
    BY <1>1
  <2>3. QED
    BY <1>2, <2>1, <2>2 DEF Always, IndexIsRight
<1>7. QED
  BY <1>1, <1>3, <1>4, <1>5, <1>6 DEF Always

\* The other steps of a task.
LEMMA QueueAlways ==
    ASSUME Always,
           AddToDict \/ AddToCounts \/ ShowOrUpdate \/ Notify \/ ClearDict \/ ClearCount
    PROVE  Always'
<1> SUFFICES /\ Typed' /\ QueueStep /\ Posts(Quiet) /\ work'.pc # "list"
             /\ UNCHANGED <<pushMessages, outcome, cleared, shifted>>
  BY AlwaysFrame DEF QueueStep
<1>1. CASE AddToDict
  BY <1>1, AddToDictDoes DEF Always, Posts
<1>2. CASE AddToCounts
  BY <1>2, AddToCountsDoes DEF Always, Posts
<1>3. CASE ShowOrUpdate
  BY <1>3, ShowOrUpdateDoes DEF Always, Posts
<1>4. CASE Notify
  <2>1. tasks' = tasks \/ tasks' = Append(tasks, BadgeTask(totalUnread))
    BY <1>4, NotifyDoes DEF Always
  <2>2. BadgeTask(totalUnread) \in Task /\ BadgeTask(totalUnread).kind = "badge"
    BY TaskKinds DEF Always, Typed, CountsTyped
  <2>3. Posts(Quiet)
    BY <2>1, <2>2 DEF Posts, Quiet
  <2>4. QED
    BY <1>4, <2>3, NotifyDoes DEF Always
<1>5. CASE ClearDict
  BY <1>5, ClearDictDoes DEF Always, Posts
<1>6. CASE ClearCount
  <2>1. BadgeTask(0) \in Task /\ BadgeTask(0).kind = "badge"
    BY TaskKinds
  <2>2. Posts(Quiet)
    BY <1>6, <2>1, ClearCountDoes DEF Always, Posts, Quiet
  <2>3. QED
    BY <1>6, <2>2, ClearCountDoes DEF Always
<1>7. QED
  BY <1>1, <1>2, <1>3, <1>4, <1>5, <1>6

LEMMA InitAlways == Init => Always
<1> SUFFICES ASSUME Init
             PROVE  Always
  OBVIOUS
<1>1. /\ arrived = 0 /\ unseen = {} /\ deleted = {}
      /\ muted = {} /\ badgeNumber = TRUE /\ dismissDate = 0
      /\ handled = 0 /\ activity = NoActivity /\ firstReads = {} /\ acts = 0
      /\ ui = UiIdle /\ openedDialog = 0 /\ pushMessages = <<>> /\ pushMessagesDict = {}
      /\ pushDialogs = [c \in Chats |-> 0] /\ totalUnread = 0 /\ lastBadgeCount = -1
      /\ tasks = <<>> /\ work = WorkIdle /\ shade = NoNotification
      /\ crashed = FALSE /\ overlapped = FALSE /\ cleared = FALSE /\ shifted = FALSE
      /\ forgotten = [c \in Chats |-> 0] /\ due = {}
      /\ outcome = [m \in Messages |-> "none"]
  BY DEF Init
<1>2. ui.pc = "idle" /\ ui.next = 0 /\ work.pc = "idle"
  BY <1>1 DEF UiIdle, WorkIdle
<1>3. Typed
  <2>1. BackendTyped /\ HandledTyped /\ SettingsTyped /\ ScreenTyped /\ ActsTyped
    BY <1>1, ChatFacts DEF BackendTyped, HandledTyped, SettingsTyped, ScreenTyped, ActsTyped,
       NoActivity
  <2>2. UiTyped
    BY <1>1, <1>2, UiStates DEF UiTyped, Walking
  <2>3. ListTyped /\ DictTyped /\ CountsTyped /\ MarksTyped /\ TasksTyped
    BY <1>1 DEF ListTyped, DictTyped, CountsTyped, MarksTyped, TasksTyped
  <2>4. WorkTyped
    BY <1>1 DEF WorkTyped, WorkIdle, WorkPcs
  <2>5. ShadeTyped
    BY <1>1 DEF ShadeTyped, NoNotification
  <2>6. LogTyped
    BY <1>1 DEF LogTyped
  <2>7. FlagsTyped
    BY <1>1 DEF FlagsTyped
  <2>8. QED
    BY <2>1, <2>2, <2>3, <2>4, <2>5, <2>6, <2>7 DEF Typed
<1>4. AnnouncedOnce /\ ListedOnce
  BY <1>1, <1>2 DEF AnnouncedOnce, ListedOnce, Listed, OnceIn, ToSet, IsInjective
<1>5. SnapshotIsCurrent /\ IndexIsRight
  BY <1>1, <1>2 DEF SnapshotIsCurrent, IndexIsRight, Walking
<1>6. OverlapIsKnown
  BY <1>1, <1>2 DEF OverlapIsKnown, Overlap, Removing
<1>7. QED
  BY <1>3, <1>4, <1>5, <1>6 DEF Always

LEMMA NextAlways == Always /\ [Next]_vars => Always'
<1> SUFFICES ASSUME Always, [Next]_vars
             PROVE  Always'
  OBVIOUS
<1>1. CASE UNCHANGED vars
  <2>1. UNCHANGED <<arrived, unseen, deleted, muted, badgeNumber, dismissDate, handled,
                    activity, firstReads, ui, openedDialog, lastBadgeCount, pushMessages,
                    pushMessagesDict, pushDialogs, totalUnread, tasks, work, shade, crashed,
                    cleared, shifted, acts, forgotten, due, outcome>>
    BY <1>1 DEF vars, outside, backend, settings, screen, controller, marks, lists, counts,
       accidents, log
  <2>2. UNCHANGED overlapped
    BY <1>1 DEF vars
  <2>3. Typed'
    BY <2>1, <2>2, SameTyped DEF Always, Typed, FlagsTyped
  <2>4. Noted
    BY <2>1, <2>2 DEF Always, Typed, FlagsTyped, OverlapIsKnown, Noted, Overlap, Removing
  <2>5. QED
    BY <2>1, <2>3, <2>4, AlwaysFrame DEF Posts
<1>2. CASE Arrive
  BY <1>2, ArriveAlways
<1>3. CASE User \/ \E c \in Chats : FirstRead(c)
  BY <1>3, UserTyped, UserAlways DEF Always
<1>4. CASE HandleIncoming \/ Announce
  BY <1>4, HandleIncomingAlways, AnnounceAlways
<1>5. CASE RemoveSeen
  BY <1>5, SeenStartAlways, SeenLoopAlways, SeenGetAlways, SeenDropAlways, SeenRemoveAlways,
     SeenUncountAlways DEF RemoveSeen
<1>6. CASE QueueThread
  BY <1>6, TakeTaskAlways, AddToListAlways, ClearListAlways, QueueAlways DEF QueueThread
<1>7. QED
  BY <1>1, <1>2, <1>3, <1>4, <1>5, <1>6 DEF Next, MainThread

\* The part of the invariant that needs no care about overlaps.
THEOREM AlwaysHolds == Spec => []Always
BY InitAlways, NextAlways, PTL DEF Spec

\* Every variable has its type (TypeOK): the state of the two threads, the lists,
\* the counts and the tasks.
THEOREM Typing == Spec => []TypeOK
<1>1. Always => TypeOK
  BY TypedIsTypeOK DEF Always
<1>2. QED
  BY <1>1, AlwaysHolds, PTL

\* removeSeenMessages reads and removes by an index that it checked before: only
\* a dismissal that clears the list meanwhile can make that an index too far.
THEOREM CrashesNeedClearing == Spec => []CrashNeedsClearing
<1>1. Always => CrashNeedsClearing
  BY DEF Always, OverlapIsKnown, CrashNeedsClearing
<1>2. QED
  BY <1>1, AlwaysHolds, PTL

\* What leaves the list otherwise than by a dismissal was read, unless the list
\* was moved under the index of the removal.
LEMMA StepRemovesOnlyRead ==
    ASSUME Always, [Next]_vars
    PROVE  \A m \in Listed \ Listed' : work.pc = "clear" \/ m \notin unseen \/ shifted
<1>1. CASE UNCHANGED pushMessages
  BY <1>1 DEF Listed
<1>2. CASE SeenRemove
  <2>1. /\ ui.pc = "remove"
        /\ \/ UNCHANGED pushMessages
           \/ /\ ui.i \in 1..Len(pushMessages)
              /\ pushMessages' = RemoveAt(pushMessages, ui.i)
    BY <1>2, SeenRemoveDoes DEF Always
  <2>2. CASE /\ ui.i \in 1..Len(pushMessages)
             /\ pushMessages' = RemoveAt(pushMessages, ui.i)
    <3>1. Listed' = Listed \ {pushMessages[ui.i]}
      BY <2>2, RemoveAtOfDistinct DEF Always, Typed, ListTyped, ListedOnce, Listed
    <3>2. ~shifted => ui.msg = pushMessages[ui.i] /\ ui.msg \notin unseen
      BY <2>1 DEF Always, IndexIsRight, SnapshotIsCurrent, Walking
    <3>3. QED
      BY <3>1, <3>2
  <2>3. QED
    BY <1>1, <2>1, <2>2
<1>3. CASE AddToList
  <2>1. /\ work.pc = "list" /\ work.msg \in Messages
        /\ pushMessages' = <<work.msg>> \o pushMessages
    BY <1>3, AddToListDoes DEF Always
  <2>2. PICK m \in Messages : m = work.msg
    BY <2>1
  <2>3. pushMessages' = <<m>> \o pushMessages /\ m \notin Listed
    BY <2>1, <2>2 DEF Always, ListedOnce
  <2>4. pushMessages \in Seq(Messages) /\ IsInjective(pushMessages)
    BY DEF Always, Typed, ListTyped, ListedOnce
  <2>5. Listed' = Listed \cup {m}
    BY <2>3, <2>4, PrependToDistinct DEF Listed
  <2>6. QED
    BY <2>5
<1>4. CASE ClearList
  BY <1>4, ClearListDoes DEF Always
<1>5. CASE UNCHANGED vars
  BY <1>1, <1>5 DEF vars, outside, backend, settings, screen, controller, marks, lists,
     counts, accidents, log
<1>6. CASE Arrive \/ HandleIncoming \/ Announce
  BY <1>1, <1>6, ArriveDoes, HandleIncomingDoes, AnnounceDoes DEF Always
<1>7. CASE User \/ \E c \in Chats : FirstRead(c)
  BY <1>1, <1>7, UserTyped DEF Always, UserStep
<1>8. CASE SeenStart \/ SeenLoop \/ SeenGet \/ SeenDrop \/ SeenUncount
  BY <1>1, <1>8, SeenStartDoes, SeenLoopDoes, SeenGetDoes, SeenDropDoes, SeenUncountDoes
     DEF Always
<1>9. CASE \/ TakeTask \/ AddToDict \/ AddToCounts \/ ShowOrUpdate \/ Notify \/ ClearDict
           \/ ClearCount
  BY <1>1, <1>9, TakeTaskDoes, AddToDictDoes, AddToCountsDoes, ShowOrUpdateDoes, NotifyDoes,
     ClearDictDoes, ClearCountDoes DEF Always
<1>10. QED
  BY <1>2, <1>3, <1>4, <1>5, <1>6, <1>7, <1>8, <1>9
     DEF Next, MainThread, RemoveSeen, QueueThread

\* RemovesOnlyRead always holds: removeSeenMessages and the queue drop a message
\* from the list only when it is read, the list is cleared, or the index had moved.
THEOREM OnlyReadIsRemoved == Spec => RemovesOnlyRead
<1>1. Always /\ [Next]_vars =>
          [\A m \in Listed \ Listed' : work.pc = "clear" \/ m \notin unseen \/ shifted]_vars
  BY StepRemovesOnlyRead
<1>2. QED
  BY <1>1, AlwaysHolds, PTL DEF Spec, RemovesOnlyRead

-----------------------------------------------------------------------------
(* What removeSeenMessages found read when it began is taken out.          *)

\* Such a message was listed, once, and nobody makes it unread; as long as the
\* walk goes on the index has not passed it, and then it is gone.
TakenOut ==
    /\ due \cap unseen = {}
    /\ \A m \in due : outcome[m] = "listed" /\ (work.pc = "list" => work.msg # m)
    /\ Walking => /\ due \cap ui.snapshot = {}
                  /\ \A j \in DOMAIN pushMessages : pushMessages[j] \in due => j >= ui.i
    /\ ~Walking => due \cap Listed = {}

\* Steps that the messages which are due do not see.
LEMMA OutFrame ==
    ASSUME TakenOut, UNCHANGED <<due, pushMessages>>,
           \A m \in due : /\ m \notin unseen' /\ outcome'[m] = outcome[m]
                          /\ work'.pc = "list" => work'.msg # m,
           \/ Walking /\ Walking' /\ ui'.snapshot = ui.snapshot /\ ui'.i = ui.i
           \/ ~Walking /\ ~Walking'
    PROVE  TakenOut'
<1>1. due' \cap unseen' = {}
  OBVIOUS
<1>2. \A m \in due' : outcome'[m] = "listed" /\ (work'.pc = "list" => work'.msg # m)
  BY DEF TakenOut
<1>3. Walking' => /\ due' \cap ui'.snapshot = {}
                  /\ \A j \in DOMAIN pushMessages' : pushMessages'[j] \in due' => j >= ui'.i
  BY DEF TakenOut
<1>4. ~Walking' => due' \cap Listed' = {}
  BY DEF TakenOut, Listed
<1>5. QED
  BY <1>1, <1>2, <1>3, <1>4 DEF TakenOut

\* Only the beginning of a removal makes a message due.
LEMMA DueStays ==
    ASSUME Always, [Next]_vars, ~SeenStart
    PROVE  UNCHANGED due
<1>1. CASE UNCHANGED vars
  BY <1>1 DEF vars, log
<1>2. CASE User \/ \E c \in Chats : FirstRead(c)
  BY <1>2, UserTyped DEF Always, UserStep
<1>3. CASE Arrive \/ HandleIncoming \/ Announce
  BY <1>3 DEF Arrive, HandleIncoming, Announce, log
<1>4. CASE SeenLoop \/ SeenGet \/ SeenDrop \/ SeenRemove \/ SeenUncount
  BY <1>4 DEF SeenLoop, SeenGet, SeenDrop, SeenRemove, SeenUncount, log
<1>5. CASE QueueThread
  BY <1>5 DEF QueueThread, TakeTask, AddToList, AddToDict, AddToCounts, ShowOrUpdate, Notify,
     ClearList, ClearDict, ClearCount, log
<1>6. QED
  BY <1>1, <1>2, <1>3, <1>4, <1>5 DEF Next, MainThread, RemoveSeen

\* What is due was listed, and so has been handled.
LEMMA DueIsKnown ==
    ASSUME Always, TakenOut, NEW m \in due
    PROVE  m \in Messages /\ m <= handled /\ m <= arrived /\ outcome[m] = "listed"
<1>1. m \in Messages /\ outcome[m] = "listed"
  BY DEF TakenOut, Always, Typed, LogTyped
<1>2. m \in Int /\ handled \in Int /\ arrived \in Int /\ handled <= arrived
  BY <1>1, ChatFacts DEF Always, Typed, HandledTyped, BackendTyped
<1>3. QED
  BY <1>1, <1>2 DEF Always, AnnouncedOnce

LEMMA SeenStartTakes ==
    ASSUME Always, TakenOut, SeenStart
    PROVE  TakenOut'
<1>1. /\ ui.pc = "seen" /\ UNCHANGED <<pushMessages, unseen, outcome, work>>
      /\ \/ pushMessages = <<>> /\ ui'.pc \in {"idle", "announce"}
         \/ ui'.pc = "loop" /\ ui'.snapshot = unseen /\ ui'.i = 1
      /\ due' = due \cup (Listed \ unseen)
  BY SeenStartDoes DEF Always, RemovalStep
<1>2. Listed' = Listed /\ pushMessages \in Seq(Messages)
  BY <1>1 DEF Listed, Always, Typed, ListTyped
<1>3. due' \cap unseen' = {}
  BY <1>1 DEF TakenOut
<1>4. \A m \in due' : outcome'[m] = "listed" /\ (work'.pc = "list" => work'.msg # m)
  <2>1. \A m \in Listed : outcome[m] = "listed" /\ (work.pc = "list" => work.msg # m)
    BY DEF Always, ListedOnce
  <2>2. QED
    BY <1>1, <2>1 DEF TakenOut
<1>5. Walking' => /\ due' \cap ui'.snapshot = {}
                  /\ \A j \in DOMAIN pushMessages' : pushMessages'[j] \in due' => j >= ui'.i
  <2>1. \A j \in DOMAIN pushMessages : j >= 1
    BY <1>2
  <2>2. QED
    BY <1>1, <1>3, <2>1 DEF Walking
<1>6. ~Walking' => due' \cap Listed' = {}
  <2>1. ~Walking' => pushMessages = <<>>
    BY <1>1 DEF Walking
  <2>2. pushMessages = <<>> => Listed = {}
    BY DEF Listed, ToSet
  <2>3. QED
    BY <1>2, <2>1, <2>2
<1>7. QED
  BY <1>3, <1>4, <1>5, <1>6 DEF TakenOut

\* The walk ends when its index has passed the end of the list.
LEMMA SeenLoopTakes ==
    ASSUME Always, TakenOut, SeenLoop
    PROVE  TakenOut'
<1>1. /\ ui.pc = "loop" /\ UNCHANGED <<pushMessages, unseen, outcome, work, due>>
      /\ \/ ui'.pc = "get" /\ ui'.snapshot = ui.snapshot /\ ui'.i = ui.i
         \/ ui.i > Len(pushMessages) /\ ui'.pc \in {"idle", "announce"}
  BY SeenLoopDoes, DueStays DEF Always, RemovalStep, SeenLoop, log
<1>2. CASE ui'.pc = "get" /\ ui'.snapshot = ui.snapshot /\ ui'.i = ui.i
  BY <1>1, <1>2, OutFrame DEF TakenOut, Walking
<1>3. CASE ui.i > Len(pushMessages) /\ ui'.pc \in {"idle", "announce"}
  <2>1. ui.i \in Nat /\ pushMessages \in Seq(Messages)
    BY DEF Always, Typed, UiTyped, UiState, ListTyped
  <2>2. \A j \in DOMAIN pushMessages : ~(j >= ui.i)
    BY <1>3, <2>1
  <2>3. due \cap Listed = {}
    BY <1>1, <2>2 DEF TakenOut, Walking, Listed, ToSet
  <2>4. Listed' = Listed
    BY <1>1 DEF Listed
  <2>5. QED
    BY <1>1, <1>3, <2>3, <2>4 DEF TakenOut, Walking
<1>4. QED
  BY <1>1, <1>2, <1>3

\* The index passes a message of the snapshot only.
LEMMA SeenGetTakes ==
    ASSUME Always, TakenOut, SeenGet
    PROVE  TakenOut'
<1>1. /\ ui.pc = "get" /\ UNCHANGED <<pushMessages, unseen, outcome, work, due>>
      /\ \/ UNCHANGED ui
         \/ ui'.pc = "drop" /\ ui'.snapshot = ui.snapshot /\ ui'.i = ui.i
         \/ /\ ui.i \in 1..Len(pushMessages) /\ pushMessages[ui.i] \in ui.snapshot
            /\ ui'.pc = "loop" /\ ui'.snapshot = ui.snapshot /\ ui'.i = ui.i + 1
  BY SeenGetDoes DEF Always, RemovalStep, SeenGet, log
<1>2. CASE UNCHANGED ui \/ (ui'.pc = "drop" /\ ui'.snapshot = ui.snapshot /\ ui'.i = ui.i)
  BY <1>1, <1>2, OutFrame DEF TakenOut, Walking
<1>3. CASE /\ ui.i \in 1..Len(pushMessages) /\ pushMessages[ui.i] \in ui.snapshot
           /\ ui'.pc = "loop" /\ ui'.snapshot = ui.snapshot /\ ui'.i = ui.i + 1
  <2>1. ui.i \in Nat /\ pushMessages \in Seq(Messages)
    BY DEF Always, Typed, UiTyped, UiState, ListTyped
  <2>2. pushMessages[ui.i] \notin due
    BY <1>1, <1>3 DEF TakenOut, Walking
  <2>3. \A j \in DOMAIN pushMessages : pushMessages[j] \in due => j >= ui.i /\ j # ui.i
    BY <1>1, <2>2 DEF TakenOut, Walking
  <2>4. \A j \in DOMAIN pushMessages : j >= ui.i /\ j # ui.i => j >= ui.i + 1
    BY <2>1
  <2>5. \A j \in DOMAIN pushMessages' : pushMessages'[j] \in due' => j >= ui'.i
    BY <1>1, <1>3, <2>3, <2>4
  <2>6. QED
    BY <1>1, <1>3, <2>5 DEF TakenOut, Walking
<1>4. QED
  BY <1>1, <1>2, <1>3

\* What is behind the index moves up by one, to the index or behind it.
LEMMA SeenRemoveTakes ==
    ASSUME Always, TakenOut, SeenRemove
    PROVE  TakenOut'
<1>1. /\ ui.pc = "remove" /\ UNCHANGED <<unseen, outcome, work, due>>
      /\ \/ UNCHANGED <<pushMessages, ui>>
         \/ /\ ui.i \in 1..Len(pushMessages)
            /\ pushMessages' = RemoveAt(pushMessages, ui.i)
            /\ ui'.pc = "uncount" /\ ui'.snapshot = ui.snapshot /\ ui'.i = ui.i
  BY SeenRemoveDoes DEF Always, RemovalStep, SeenRemove, log
<1>2. CASE UNCHANGED <<pushMessages, ui>>
  BY <1>1, <1>2, OutFrame DEF TakenOut, Walking
<1>3. CASE /\ ui.i \in 1..Len(pushMessages)
           /\ pushMessages' = RemoveAt(pushMessages, ui.i)
           /\ ui'.pc = "uncount" /\ ui'.snapshot = ui.snapshot /\ ui'.i = ui.i
  <2>1. PICK k \in 1..Len(pushMessages) : k = ui.i
    BY <1>3
  <2>2. pushMessages \in Seq(Messages) /\ k \in Nat
    BY <2>1 DEF Always, Typed, ListTyped
  <2>3. /\ Len(pushMessages') = Len(pushMessages) - 1 /\ pushMessages' \in Seq(Messages)
        /\ \A i \in 1..(Len(pushMessages) - 1) :
               pushMessages'[i] = IF i < k THEN pushMessages[i] ELSE pushMessages[i + 1]
    BY <1>3, <2>1, <2>2, RemoveAtFromSeq
  <2>4. \A j \in DOMAIN pushMessages : pushMessages[j] \in due => j >= k
    BY <1>1, <2>1 DEF TakenOut, Walking
  <2>5. ASSUME NEW j \in DOMAIN pushMessages', pushMessages'[j] \in due'
        PROVE  j >= ui'.i
    <3>1. j \in 1..(Len(pushMessages) - 1) /\ j \in DOMAIN pushMessages
      BY <2>2, <2>3
    <3>2. ~(j < k)
      <4>1. j < k => pushMessages'[j] = pushMessages[j]
        BY <2>3, <3>1
      <4>2. j < k => ~(j >= k)
        BY <2>2, <3>1
      <4>3. QED
        BY <1>1, <2>4, <2>5, <3>1, <4>1, <4>2
    <3>3. QED
      BY <1>3, <2>1, <2>2, <3>1, <3>2
  <2>6. QED
    BY <1>1, <1>3, <2>5 DEF TakenOut, Walking
<1>4. QED
  BY <1>1, <1>2, <1>3

\* What is in the list moves down by one, and the new message is not due.
LEMMA AddToListTakes ==
    ASSUME Always, TakenOut, AddToList
    PROVE  TakenOut'
<1>1. PICK m : m = work.msg
  OBVIOUS
<1>2. /\ work.pc = "list" /\ m \in Messages /\ work'.pc = "dict"
      /\ UNCHANGED <<ui, unseen, outcome, due>>
      /\ pushMessages' = <<m>> \o pushMessages
  BY <1>1, AddToListDoes DEF Always, QueueStep
<1>3. m \notin due /\ m \notin Listed
  BY <1>1, <1>2 DEF TakenOut, Always, ListedOnce
<1>4. /\ pushMessages \in Seq(Messages) /\ IsInjective(pushMessages) /\ ui.i \in Nat
  BY DEF Always, Typed, ListTyped, ListedOnce, UiTyped, UiState
<1>5. Listed' = Listed \cup {m}
  BY <1>2, <1>3, <1>4, PrependToDistinct DEF Listed
<1>6. Walking => \A j \in DOMAIN pushMessages' : pushMessages'[j] \in due' => j >= ui'.i
  <2> SUFFICES ASSUME Walking, NEW j \in DOMAIN pushMessages', pushMessages'[j] \in due
               PROVE  j >= ui.i
    BY <1>2
  <2>1. /\ DOMAIN pushMessages' = 1..(Len(pushMessages) + 1) /\ Len(pushMessages) \in Nat
        /\ pushMessages'[1] = m
        /\ \A k \in 2..(Len(pushMessages) + 1) : pushMessages'[k] = pushMessages[k - 1]
    BY <1>2, <1>4
  <2>2. j # 1
    BY <1>3, <2>1
  <2>3. j \in 2..(Len(pushMessages) + 1) /\ j - 1 \in DOMAIN pushMessages
    BY <1>4, <2>1, <2>2
  <2>4. j - 1 >= ui.i
    BY <2>1, <2>3 DEF TakenOut
  <2>5. QED
    BY <1>4, <2>3, <2>4
<1>7. QED
  BY <1>2, <1>3, <1>5, <1>6 DEF TakenOut, Walking

\* The task for a message is the first and only one, so that it is not due.
LEMMA TakeTaskTakes ==
    ASSUME Always, TakenOut, TakeTask
    PROVE  TakenOut'
<1>1. /\ work.pc = "idle" /\ tasks # <<>> /\ UNCHANGED <<pushMessages, ui, unseen, due>>
  BY TakeTaskDoes DEF Always, QueueStep
<1>2. PICK t \in Task :
          /\ t = Head(tasks)
          /\ \/ UNCHANGED <<work, outcome>>
             \/ work'.pc = "show" /\ UNCHANGED outcome
             \/ /\ t.kind = "new" /\ UNCHANGED work
                /\ outcome' = [outcome EXCEPT ![t.of] = "skipped"]
             \/ /\ t.kind = "new"
                /\ outcome' = [outcome EXCEPT ![t.of] = "listed"]
                /\ work'.pc = "list" /\ work'.msg = t.of
  BY TakeTaskDoes DEF Always
<1>3. t.kind = "new" => t.of \notin due
  <2>1. t \in ToSet(tasks)
    BY <1>1, <1>2, ToSetOfTail DEF Always, Typed, TasksTyped
  <2>2. t.kind = "new" => t.of \in Messages /\ t = NewTask(t.of)
    BY TaskKinds
  <2>3. t.kind = "new" => outcome[t.of] = "none"
    BY <2>1, <2>2 DEF Always, AnnouncedOnce
  <2>4. QED
    BY <2>3 DEF TakenOut
<1>4. ASSUME NEW m \in due
      PROVE  /\ m \notin unseen' /\ outcome'[m] = outcome[m]
             /\ work'.pc = "list" => work'.msg # m
  <2>1. m \notin unseen'
    BY <1>1 DEF TakenOut
  <2>2. t.kind = "new" => m # t.of
    BY <1>3
  <2>3. outcome'[m] = outcome[m]
    BY <1>2, <2>2, DueIsKnown DEF Always, Typed, LogTyped
  <2>4. work'.pc = "list" => work'.msg # m
    BY <1>1, <1>2, <2>2
  <2>5. QED
    BY <2>1, <2>3, <2>4
<1>5. QED
  BY <1>1, <1>4, OutFrame DEF Walking

LEMMA NextTakes ==
    ASSUME Always, TakenOut, [Next]_vars
    PROVE  TakenOut'
<1> DEFINE
      Unseen ==
        /\ UNCHANGED pushMessages
        /\ \A m \in due : /\ m \notin unseen' /\ outcome'[m] = outcome[m]
                          /\ work'.pc = "list" => work'.msg # m
        /\ \/ Walking /\ Walking' /\ ui'.snapshot = ui.snapshot /\ ui'.i = ui.i
           \/ ~Walking /\ ~Walking'
<1>1. SUFFICES ASSUME ~SeenStart
               PROVE  TakenOut'
  BY SeenStartTakes
<1>2. Unseen => TakenOut'
  BY <1>1, DueStays, OutFrame
<1>3. CASE UNCHANGED vars
  <2>1. UNCHANGED <<pushMessages, unseen, outcome, work, ui>>
    BY <1>3 DEF vars, outside, backend, controller, lists, log
  <2>2. Unseen
    BY <2>1 DEF TakenOut, Walking
  <2>3. QED
    BY <1>2, <2>2
<1>4. CASE Arrive
  <2>1. unseen' = unseen \cup {arrived + 1} /\ UNCHANGED <<pushMessages, outcome, work, ui>>
    BY <1>4, ArriveDoes DEF Always
  <2>2. \A m \in due : m # arrived + 1
    <3>1. \A m \in due : m \in Int /\ m <= arrived
      BY DueIsKnown, ChatFacts
    <3>2. arrived \in Int
      BY DEF Always, Typed, BackendTyped
    <3>3. QED
      BY <3>1, <3>2
  <2>3. Unseen
    BY <2>1, <2>2 DEF TakenOut, Walking
  <2>4. QED
    BY <1>2, <2>3
<1>5. CASE User \/ \E c \in Chats : FirstRead(c)
  <2>1. /\ ui.pc = "idle"
        /\ UNCHANGED ui \/ ui' = ToRemoval(0)
        /\ unseen' \subseteq unseen /\ UNCHANGED <<pushMessages, outcome, work>>
    BY <1>5, UserTyped DEF Always, UserStep, Reads
  <2>2. ~Walking /\ ~Walking'
    BY <1>5, <2>1, UserTyped, UiStates DEF Walking, Always, UserStep
  <2>3. Unseen
    BY <2>1, <2>2 DEF TakenOut
  <2>4. QED
    BY <1>2, <2>3
<1>6. CASE HandleIncoming
  <2>1. /\ ui.pc = "idle" /\ UNCHANGED <<pushMessages, outcome, work>> /\ unseen' \subseteq unseen
        /\ \E m \in Messages : ui' = ToRemoval(m) \/ ui' = ToAnnounce(m)
    BY <1>6, HandleIncomingDoes DEF Always, Reads
  <2>2. ~Walking /\ ~Walking'
    BY <2>1, UiStates DEF Walking
  <2>3. Unseen
    BY <2>1, <2>2 DEF TakenOut
  <2>4. QED
    BY <1>2, <2>3
<1>7. CASE Announce
  <2>1. PICK m : m = ui.next
    OBVIOUS
  <2>2. /\ ui.pc = "announce" /\ ui' = UiIdle /\ m \in Messages
        /\ UNCHANGED outcome \/ outcome' = [outcome EXCEPT ![m] = "sound"]
        /\ UNCHANGED <<pushMessages, unseen, work>>
    BY <1>7, <2>1, AnnounceDoes DEF Always
  <2>3. outcome[m] = "none"
    BY <2>1, <2>2, ChatFacts DEF Always, AnnouncedOnce
  <2>4. \A k \in due : outcome'[k] = outcome[k]
    BY <2>2, <2>3, DueIsKnown DEF Always, Typed, LogTyped
  <2>5. ~Walking /\ ~Walking'
    BY <2>2, UiStates DEF Walking
  <2>6. Unseen
    BY <2>2, <2>4, <2>5 DEF TakenOut
  <2>7. QED
    BY <1>2, <2>6
<1>8. CASE SeenDrop \/ SeenUncount
  <2>1. /\ ui.pc \in {"drop", "uncount"} /\ ui'.pc \in {"remove", "loop"}
        /\ ui'.snapshot = ui.snapshot /\ ui'.i = ui.i
        /\ UNCHANGED <<pushMessages, unseen, outcome, work>>
    BY <1>8, SeenDropDoes, SeenUncountDoes DEF Always, RemovalStep
  <2>2. Unseen
    BY <2>1 DEF TakenOut, Walking
  <2>3. QED
    BY <1>2, <2>2
<1>9. CASE ClearList
  <2>1. /\ pushMessages' = <<>> /\ work'.pc = "clearDict" /\ UNCHANGED <<ui, unseen, outcome>>
    BY <1>9, ClearListDoes DEF Always, QueueStep
  <2>2. Listed' = {} /\ DOMAIN pushMessages' = {} /\ UNCHANGED due
    BY <1>1, <2>1, DueStays DEF Listed, ToSet
  <2>3. QED
    BY <2>1, <2>2 DEF TakenOut, Walking
<1>10. CASE AddToDict \/ AddToCounts \/ ShowOrUpdate \/ Notify \/ ClearDict \/ ClearCount
  <2>1. work'.pc # "list" /\ UNCHANGED <<pushMessages, unseen, outcome, ui>>
    BY <1>10, AddToDictDoes, AddToCountsDoes, ShowOrUpdateDoes, NotifyDoes, ClearDictDoes,
       ClearCountDoes DEF Always, QueueStep
  <2>2. Unseen
    BY <2>1 DEF TakenOut, Walking
  <2>3. QED
    BY <1>2, <2>2
<1>11. CASE SeenLoop \/ SeenGet \/ SeenRemove \/ TakeTask \/ AddToList
  BY <1>11, SeenLoopTakes, SeenGetTakes, SeenRemoveTakes, TakeTaskTakes, AddToListTakes
<1>12. QED
  BY <1>1, <1>3, <1>4, <1>5, <1>6, <1>7, <1>8, <1>9, <1>10, <1>11
     DEF Next, MainThread, RemoveSeen, QueueThread

\* ReadIsTakenOut always holds: a message that a removeSeenMessages finds listed
\* and read is out of the list when it ends and stays out, also when the queue
\* adds messages or clears the list, or the index removes another one, meanwhile.
THEOREM ReadLeavesTheList == Spec => []ReadIsTakenOut
<1>1. Init => TakenOut
  BY DEF Init, TakenOut, Listed, ToSet
<1>2. Always /\ TakenOut /\ [Next]_vars => TakenOut'
  BY NextTakes
<1>3. TakenOut => ReadIsTakenOut
  BY DEF TakenOut, ReadIsTakenOut, Walking, Removing
<1>4. QED
  BY <1>1, <1>2, <1>3, AlwaysHolds, PTL DEF Spec

-----------------------------------------------------------------------------
(* As long as nothing overlaps.                                            *)

\* One thread at a time has work on the lists.
LEMMA Apart ==
    ASSUME Always, Noted, ~overlapped'
    PROVE  /\ ~overlapped /\ ~cleared /\ ~shifted /\ ~crashed
           /\ Removing => work.pc = "idle"
           /\ Removing' => work'.pc = "idle"
<1>1. ~overlapped /\ ~Overlap' /\ ~Overlap
  BY DEF Always, OverlapIsKnown, Noted
<1>2. ~cleared /\ ~shifted /\ ~crashed
  BY <1>1 DEF Always, OverlapIsKnown
<1>3. QED
  BY <1>1, <1>2 DEF Overlap

\* What the main thread and the task are doing at most.
UiKeeps ==
    \/ UNCHANGED ui
    \/ ui.pc \notin {"remove", "uncount"} /\ ui'.pc \notin {"remove", "uncount"}

WorkKeeps ==
    \/ UNCHANGED work
    \/ /\ work.pc \notin {"dict", "count", "clearDict", "clearCount"}
       /\ work'.pc \notin {"dict", "count", "clearDict", "clearCount"}
       /\ work'.pc = "notify" => pushMessages # <<>>

\* Steps that do not touch the lists and the counts.
LEMMA CountsFrame ==
    ASSUME ListsInStep, TotalInStep, ChatsInStep, UiKeeps, WorkKeeps,
           UNCHANGED <<pushMessages, pushMessagesDict, pushDialogs, totalUnread, forgotten>>
    PROVE  ListsInStep' /\ TotalInStep' /\ ChatsInStep'
<1>1. Listed' = Listed
  BY DEF Listed
<1>2. ListsInStep'
  <2>1. CASE UNCHANGED ui
    BY <1>1, <2>1 DEF ListsInStep, WorkKeeps
  <2>2. CASE ui.pc \notin {"remove", "uncount"} /\ ui'.pc \notin {"remove", "uncount"}
    BY <1>1, <2>2 DEF ListsInStep, WorkKeeps
  <2>3. QED
    BY <2>1, <2>2 DEF UiKeeps
<1>3. /\ (ui'.pc = "uncount") = (ui.pc = "uncount")
      /\ (work'.pc \in {"dict", "count"}) = (work.pc \in {"dict", "count"})
      /\ (work'.pc \in {"clearDict", "clearCount"}) = (work.pc \in {"clearDict", "clearCount"})
  BY DEF UiKeeps, WorkKeeps
<1>4. TotalInStep'
  BY <1>3 DEF TotalInStep, One
<1>5. ChatsInStep'
  <2> SUFFICES ASSUME NEW c \in Chats
               PROVE  pushDialogs'[c] =
                          Cardinality(InChat(c)') + forgotten'[c]
                              + One(ui'.pc = "uncount" /\ ChatOf[ui'.msg] = c)
                              - One(work'.pc \in {"dict", "count"} /\ ChatOf[work'.msg] = c)
    BY DEF ChatsInStep
  <2>1. InChat(c)' = InChat(c)
    BY <1>1 DEF InChat, Of
  <2>2. One(ui'.pc = "uncount" /\ ChatOf[ui'.msg] = c)
            = One(ui.pc = "uncount" /\ ChatOf[ui.msg] = c)
    BY <1>3 DEF UiKeeps, One
  <2>3. One(work'.pc \in {"dict", "count"} /\ ChatOf[work'.msg] = c)
            = One(work.pc \in {"dict", "count"} /\ ChatOf[work.msg] = c)
    BY <1>3 DEF WorkKeeps, One
  <2>4. QED
    BY <2>1, <2>2, <2>3 DEF ChatsInStep
<1>6. QED
  BY <1>2, <1>4, <1>5

-----------------------------------------------------------------------------
(* The badge the tasks will set.                                           *)

\* A task that is added decides, if it is of that kind.
LEMMA LastOfAppend ==
    ASSUME NEW k, NEW s \in Seq(Task), NEW n, NEW t \in Task
    PROVE  /\ \A v : t = [kind |-> k, of |-> v] => LastOf(k, Append(s, t), n, v)
           /\ t.kind # k => \A v : LastOf(k, s, n, v) => LastOf(k, Append(s, t), n, v)
<1> DEFINE a == Append(s, t)
<1>1. /\ DOMAIN a = 1..(Len(s) + 1) /\ DOMAIN s = 1..Len(s) /\ Len(s) \in Nat
      /\ \A i \in 1..Len(s) : a[i] = s[i]
      /\ a[Len(s) + 1] = t
  OBVIOUS
<1> HIDE DEF a
<1>2. \A i \in DOMAIN a : i \in DOMAIN s \/ i = Len(s) + 1
  BY <1>1
<1>3. Len(s) + 1 \in DOMAIN a /\ \A j \in DOMAIN a : ~(j > Len(s) + 1)
  BY <1>1
<1>4. \A v : t = [kind |-> k, of |-> v] => LastOf(k, a, n, v)
  BY <1>1, <1>3 DEF LastOf
<1>5. ASSUME t.kind # k, NEW v, LastOf(k, s, n, v)
      PROVE  LastOf(k, a, n, v)
  <2>1. CASE \E i \in DOMAIN s :
                 /\ s[i] = [kind |-> k, of |-> v]
                 /\ \A j \in DOMAIN s : j > i => s[j].kind # k
    <3>1. PICK i \in DOMAIN s : /\ s[i] = [kind |-> k, of |-> v]
                                /\ \A j \in DOMAIN s : j > i => s[j].kind # k
      BY <2>1
    <3>2. i \in DOMAIN a /\ a[i] = [kind |-> k, of |-> v]
      BY <1>1, <3>1
    <3>3. \A j \in DOMAIN a : j > i => a[j].kind # k
      BY <1>1, <1>2, <1>5, <3>1
    <3>4. QED
      BY <3>2, <3>3 DEF LastOf
  <2>2. CASE n = v /\ \A i \in DOMAIN s : s[i].kind # k
    <3>1. \A i \in DOMAIN a : a[i].kind # k
      BY <1>1, <1>2, <1>5, <2>2
    <3>2. QED
      BY <2>2, <3>1 DEF LastOf
  <2>3. QED
    BY <1>5, <2>1, <2>2 DEF LastOf
<1>6. QED
  BY <1>4, <1>5 DEF a

\* The first task runs: what they will leave behind stays the same.
LEMMA LastOfTail ==
    ASSUME NEW k, NEW s \in Seq(Task), s # <<>>, NEW n, NEW p,
           \/ Head(s).kind # k /\ p = n
           \/ Head(s) = [kind |-> k, of |-> p]
    PROVE  \A v : LastOf(k, s, n, v) => LastOf(k, Tail(s), p, v)
<1> DEFINE t == Tail(s)
<1>1. /\ t \in Seq(Task) /\ Len(t) = Len(s) - 1
      /\ \A i \in 1..Len(t) : t[i] = s[i + 1]
      /\ Len(s) \in Nat \ {0} /\ Head(s) = s[1]
  BY HeadTailProperties, EmptySeq
<1> HIDE DEF t
<1>2. /\ DOMAIN t = 1..(Len(s) - 1) /\ DOMAIN s = 1..Len(s) /\ 1 \in DOMAIN s
      /\ \A i \in DOMAIN t : i \in Int /\ i + 1 \in DOMAIN s /\ i + 1 > 1 /\ t[i] = s[i + 1]
      /\ \A i \in DOMAIN s : i \in Int /\ (i # 1 => i - 1 \in DOMAIN t /\ t[i - 1] = s[i])
  BY <1>1
<1>3. SUFFICES ASSUME NEW v, LastOf(k, s, n, v)
               PROVE  LastOf(k, t, p, v)
  BY DEF t
<1>4. \A w : [kind |-> k, of |-> w].kind = k /\ [kind |-> k, of |-> w].of = w
  OBVIOUS
<1>5. CASE \E i \in DOMAIN s :
               /\ s[i] = [kind |-> k, of |-> v]
               /\ \A j \in DOMAIN s : j > i => s[j].kind # k
  <2>1. PICK i \in DOMAIN s : /\ s[i] = [kind |-> k, of |-> v]
                              /\ \A j \in DOMAIN s : j > i => s[j].kind # k
    BY <1>5
  <2>2. CASE i = 1
    <3>1. p = v
      BY <1>1, <1>4, <2>1, <2>2
    <3>2. \A j \in DOMAIN t : t[j].kind # k
      BY <1>2, <2>1, <2>2
    <3>3. QED
      BY <3>1, <3>2 DEF LastOf
  <2>3. CASE i # 1
    <3>1. i - 1 \in DOMAIN t /\ t[i - 1] = [kind |-> k, of |-> v]
      BY <1>2, <2>1, <2>3
    <3>2. \A j \in DOMAIN t : j > i - 1 => t[j].kind # k
      BY <1>2, <2>1
    <3>3. QED
      BY <3>1, <3>2 DEF LastOf
  <2>4. QED
    BY <2>2, <2>3
<1>6. CASE n = v /\ \A i \in DOMAIN s : s[i].kind # k
  <2>1. p = v
    BY <1>1, <1>2, <1>4, <1>6
  <2>2. \A j \in DOMAIN t : t[j].kind # k
    BY <1>2, <1>6
  <2>3. QED
    BY <2>1, <2>2 DEF LastOf
<1>7. QED
  BY <1>3, <1>5, <1>6 DEF LastOf

\* The badge: a task that is added decides, if it sets the badge; the first runs.
LEMMA LastBadgeOfAppend ==
    ASSUME NEW s \in Seq(Task), NEW n, NEW t \in Task
    PROVE  /\ \A v : t = BadgeTask(v) => LastBadge(Append(s, t), n, v)
           /\ t.kind # "badge" =>
                  \A v : LastBadge(s, n, v) => LastBadge(Append(s, t), n, v)
BY LastOfAppend DEF LastBadge, BadgeTask

LEMMA LastBadgeOfTail ==
    ASSUME NEW s \in Seq(Task), s # <<>>, NEW n, NEW k,
           \/ Head(s).kind # "badge" /\ k = n
           \/ Head(s) = BadgeTask(k)
    PROVE  \A v : LastBadge(s, n, v) => LastBadge(Tail(s), k, v)
BY LastOfTail DEF LastBadge, BadgeTask

Unbadged == {"open", "new", "show"}

\* A task that does not set the badge is added, or none.
LEMMA PostsKeepBadge ==
    ASSUME TasksTyped, Posts(Unbadged), NEW n
    PROVE  \A v : LastBadge(tasks, n, v) => LastBadge(tasks', n, v)
<1>1. CASE tasks' = tasks
  BY <1>1
<1>2. CASE \E t \in Task : t.kind \in Unbadged /\ tasks' = Append(tasks, t)
  <2>1. PICK t \in Task : t.kind \in Unbadged /\ tasks' = Append(tasks, t)
    BY <1>2
  <2>2. t.kind # "badge" /\ tasks \in Seq(Task)
    BY <2>1 DEF Unbadged, TasksTyped
  <2>3. QED
    BY <2>1, <2>2, LastBadgeOfAppend
<1>3. QED
  BY <1>1, <1>2 DEF Posts

\* An update stays due until the notification is updated.
LEMMA DueFrame ==
    ASSUME \/ UNCHANGED tasks
           \/ TasksTyped /\ \E kinds : Posts(kinds),
           \/ UNCHANGED work
           \/ work.pc \notin {"show", "notify", "clear"}
           \/ work'.pc \in {"show", "notify", "clear"},
           Walking /\ ui.removed => Walking' /\ ui'.removed
    PROVE  UpdateDue => UpdateDue'
<1>1. ShowTask \in ToSet(tasks) => ShowTask \in ToSet(tasks')
  <2>1. CASE UNCHANGED tasks
    BY <2>1
  <2>2. CASE TasksTyped /\ \E t \in Task : tasks' = Append(tasks, t)
    <3>1. PICK t \in Task : tasks' = Append(tasks, t)
      BY <2>2
    <3>2. ToSet(tasks') = ToSet(tasks) \cup {t}
      BY <2>2, <3>1, ToSetOfAppend DEF TasksTyped
    <3>3. QED
      BY <3>2
  <2>3. QED
    BY <2>1, <2>2 DEF Posts
<1>2. QED
  BY <1>1 DEF UpdateDue

Clearing == work.pc \in {"clearDict", "clearCount"}

\* Steps that leave the notification and the badge as they will be.
LEMMA NewsFrame ==
    ASSUME ShadeInStep, BadgeInStep, UpdateDue => UpdateDue',
           shade' \in {shade, NoNotification}, UNCHANGED badgeNumber,
           \A v : LastBadge(tasks, lastBadgeCount, v) => LastBadge(tasks', lastBadgeCount', v),
           UNCHANGED <<pushDialogs, totalUnread>> \/ UpdateDue',
           Clearing' <=> Clearing
    PROVE  ShadeInStep' /\ BadgeInStep'
<1>1. ShadeInStep'
  <2>1. Clearing' => shade' = NoNotification
    BY DEF ShadeInStep, Clearing
  <2>2. ASSUME shade' # NoNotification, ~UpdateDue'
        PROVE  /\ shade'.count = totalUnread'
               /\ shade'.chats = Cardinality({c \in Chats : pushDialogs'[c] > 0})
    BY <2>2 DEF ShadeInStep
  <2>3. QED
    BY <2>1, <2>2 DEF ShadeInStep, Clearing
<1>2. BadgeInStep'
  <2>1. CASE badgeNumber
    <3>1. CASE UpdateDue \/ Clearing
      BY <2>1, <3>1 DEF BadgeInStep, Clearing
    <3>2. CASE UpdateDue'
      BY <2>1, <3>2 DEF BadgeInStep
    <3>3. CASE UNCHANGED totalUnread /\ ~UpdateDue /\ ~Clearing
      BY <2>1, <3>3 DEF BadgeInStep, Clearing, BadgeWillBe
    <3>4. QED
      BY <3>1, <3>2, <3>3
  <2>2. CASE ~badgeNumber
    BY <2>2 DEF BadgeInStep, BadgeWillBe
  <2>3. QED
    BY <2>1, <2>2
<1>3. QED
  BY <1>1, <1>2

-----------------------------------------------------------------------------
(* The main thread.                                                        *)

LEMMA ArriveInStep ==
    ASSUME Always, InStep, Arrive
    PROVE  InStep'
<1>1. unseen' = unseen \cup {arrived + 1} /\ UNCHANGED <<deleted, muted, badgeNumber,
                                                         dismissDate, handled, activity,
                                                         firstReads, ui, openedDialog,
                                                         lastBadgeCount, pushMessages,
                                                         pushMessagesDict, pushDialogs,
                                                         totalUnread, tasks, work, shade,
                                                         crashed, cleared, shifted, acts,
                                                         forgotten, due, outcome>>
  BY ArriveDoes DEF Always
<1>2. ListsInStep' /\ TotalInStep' /\ ChatsInStep'
  BY <1>1, CountsFrame DEF InStep, UiKeeps, WorkKeeps
<1>3. UpdateDue => UpdateDue'
  BY <1>1, DueFrame DEF Walking
<1>4. ShadeInStep' /\ BadgeInStep'
  BY <1>1, <1>3, NewsFrame DEF InStep, Clearing
<1>5. QED
  BY <1>2, <1>4 DEF InStep

\* The acts of the user; setBadgeEnabled sets the badge to the total of now.
LEMMA UserInStep ==
    ASSUME Always, InStep, UserStep, ~overlapped'
    PROVE  InStep'
<1>1. /\ ui.pc = "idle"
      /\ UNCHANGED <<pushMessages, pushMessagesDict, pushDialogs, totalUnread, forgotten,
                     work, lastBadgeCount>>
      /\ UNCHANGED ui \/ ui' = ToRemoval(0)
      /\ \/ Posts({"open"}) /\ UNCHANGED badgeNumber
         \/ /\ tasks' = Append(tasks, BadgeTask(IF badgeNumber' THEN totalUnread ELSE 0))
            /\ work.pc # "idle" => overlapped'
      /\ shade' \in {shade, NoNotification}
  BY DEF UserStep
<1>2. UNCHANGED ui \/ ui'.pc = "seen"
  BY <1>1, UiStates
<1>3. ListsInStep' /\ TotalInStep' /\ ChatsInStep'
  BY <1>1, <1>2, CountsFrame DEF InStep, UiKeeps, WorkKeeps
<1>4. TasksTyped /\ tasks \in Seq(Task) /\ totalUnread \in Int
  BY DEF Always, Typed, TasksTyped, CountsTyped
<1>5. UpdateDue => UpdateDue'
  <2>1. Posts(Quiet)
    BY UserStepPosts DEF Always
  <2>2. QED
    BY <1>1, <1>4, <2>1, DueFrame DEF Walking
<1>6. CASE Posts({"open"}) /\ UNCHANGED badgeNumber
  <2>1. Posts(Unbadged)
    BY <1>6 DEF Posts, Unbadged
  <2>2. ShadeInStep' /\ BadgeInStep'
    BY <1>1, <1>4, <1>5, <1>6, <2>1, PostsKeepBadge, NewsFrame DEF InStep, Clearing
  <2>3. QED
    BY <1>3, <2>2 DEF InStep
<1>7. CASE /\ tasks' = Append(tasks, BadgeTask(IF badgeNumber' THEN totalUnread ELSE 0))
           /\ work.pc # "idle" => overlapped'
  <2>1. PICK n \in Int : n = IF badgeNumber' THEN totalUnread ELSE 0
    BY <1>4
  <2>2. tasks' = Append(tasks, BadgeTask(n)) /\ BadgeTask(n) \in Task
    BY <1>7, <2>1, TaskKinds
  <2>3. LastBadge(tasks', lastBadgeCount', n)
    BY <1>4, <2>2, LastBadgeOfAppend
  <2>4. BadgeInStep'
    BY <1>1, <2>1, <2>3 DEF BadgeInStep, BadgeWillBe
  <2>5. work.pc = "idle"
    BY <1>7
  <2>6. ShadeInStep'
    BY <1>1, <1>5, <2>5 DEF InStep, ShadeInStep
  <2>7. QED
    BY <1>3, <2>4, <2>6 DEF InStep
<1>8. QED
  BY <1>1, <1>6, <1>7

LEMMA HandleIncomingInStep ==
    ASSUME Always, InStep, HandleIncoming
    PROVE  InStep'
<1>1. PICK m : m = handled'
  OBVIOUS
<1>2. /\ ui.pc = "idle" /\ m \in Messages
      /\ ui' = ToRemoval(m) \/ ui' = ToAnnounce(m)
      /\ UNCHANGED <<arrived, deleted, muted, badgeNumber, dismissDate, firstReads,
                     openedDialog, lastBadgeCount, pushMessages, pushMessagesDict,
                     pushDialogs, totalUnread, tasks, work, shade, crashed, cleared, shifted,
                     acts, forgotten, outcome>>
  BY <1>1, HandleIncomingDoes DEF Always
<1>3. ui'.pc \in {"seen", "announce"}
  BY <1>2, UiStates
<1>4. ListsInStep' /\ TotalInStep' /\ ChatsInStep'
  BY <1>2, <1>3, CountsFrame DEF InStep, UiKeeps, WorkKeeps
<1>5. UpdateDue => UpdateDue'
  BY <1>2, DueFrame DEF Walking
<1>6. ShadeInStep' /\ BadgeInStep'
  BY <1>2, <1>5, NewsFrame DEF InStep, Clearing
<1>7. QED
  BY <1>4, <1>6 DEF InStep

LEMMA AnnounceInStep ==
    ASSUME Always, InStep, Announce
    PROVE  InStep'
<1>1. /\ ui.pc = "announce" /\ ui'.pc = "idle" /\ ui.next \in Messages
      /\ UNCHANGED tasks \/ tasks' = Append(tasks, NewTask(ui.next))
      /\ UNCHANGED <<arrived, unseen, deleted, muted, badgeNumber, dismissDate, handled,
                     activity, firstReads, openedDialog, lastBadgeCount, pushMessages,
                     pushMessagesDict, pushDialogs, totalUnread, work, shade, crashed,
                     cleared, shifted, acts, forgotten, due>>
  BY AnnounceDoes, UiStates DEF Always
<1>2. Posts(Unbadged) /\ TasksTyped
  <2>1. NewTask(ui.next) \in Task /\ NewTask(ui.next).kind = "new"
    BY <1>1, TaskKinds
  <2>2. QED
    BY <1>1, <2>1 DEF Posts, Unbadged, Always, Typed
<1>3. ListsInStep' /\ TotalInStep' /\ ChatsInStep'
  BY <1>1, CountsFrame DEF InStep, UiKeeps, WorkKeeps
<1>4. UpdateDue => UpdateDue'
  BY <1>1, <1>2, DueFrame DEF Walking
<1>5. ShadeInStep' /\ BadgeInStep'
  BY <1>1, <1>2, <1>4, PostsKeepBadge, NewsFrame DEF InStep, Clearing
<1>6. QED
  BY <1>3, <1>5 DEF InStep

-----------------------------------------------------------------------------
(* removeSeenMessages.                                                     *)

LEMMA SeenStartInStep ==
    ASSUME Always, InStep, SeenStart
    PROVE  InStep'
<1>1. /\ ui.pc = "seen"
      /\ UNCHANGED <<pushMessages, pushMessagesDict, pushDialogs, totalUnread, tasks>>
      /\ \/ pushMessages = <<>> /\ ui'.pc \in {"idle", "announce"}
         \/ ui'.pc = "loop" /\ ui'.i = 1
      /\ UNCHANGED <<badgeNumber, lastBadgeCount, work, shade, forgotten>>
  BY SeenStartDoes DEF Always, RemovalStep
<1>2. ListsInStep' /\ TotalInStep' /\ ChatsInStep'
  BY <1>1, CountsFrame DEF InStep, UiKeeps, WorkKeeps
<1>3. UpdateDue => UpdateDue'
  BY <1>1, DueFrame DEF Walking
<1>4. ShadeInStep' /\ BadgeInStep'
  BY <1>1, <1>3, NewsFrame DEF InStep, Clearing
<1>5. QED
  BY <1>2, <1>4 DEF InStep

LEMMA SeenLoopInStep ==
    ASSUME Always, InStep, SeenLoop
    PROVE  InStep'
<1>1. /\ ui.pc = "loop"
      /\ UNCHANGED <<pushMessages, pushMessagesDict, pushDialogs, totalUnread>>
      /\ \/ /\ UNCHANGED tasks /\ ui'.pc = "get" /\ ui'.i = ui.i
            /\ ui'.removed = ui.removed
         \/ /\ ui.i > Len(pushMessages) /\ ui'.pc \in {"idle", "announce"}
            /\ tasks' = IF ui.removed THEN Append(tasks, ShowTask) ELSE tasks
      /\ UNCHANGED <<badgeNumber, lastBadgeCount, work, shade, forgotten>>
  BY SeenLoopDoes DEF Always, RemovalStep
<1>2. ListsInStep' /\ TotalInStep' /\ ChatsInStep'
  BY <1>1, CountsFrame DEF InStep, UiKeeps, WorkKeeps
<1>3. tasks \in Seq(Task) /\ TasksTyped /\ pushMessages \in Seq(Messages) /\ ui.i \in Nat
  BY DEF Always, Typed, TasksTyped, ListTyped, UiTyped, UiState
<1>4. tasks' = tasks \/ tasks' = Append(tasks, ShowTask)
  BY <1>1
<1>5. Posts(Unbadged)
  BY <1>4, TaskKinds DEF Posts, Unbadged
<1>6. CASE UNCHANGED tasks /\ ui'.pc = "get" /\ ui'.i = ui.i /\ ui'.removed = ui.removed
  <2>1. UpdateDue => UpdateDue'
    BY <1>1, <1>6, DueFrame DEF Walking
  <2>2. ShadeInStep' /\ BadgeInStep'
    BY <1>1, <1>6, <2>1, NewsFrame DEF InStep, Clearing
  <2>3. QED
    BY <1>2, <2>2 DEF InStep
<1>7. CASE /\ ui.i > Len(pushMessages) /\ ui'.pc \in {"idle", "announce"}
           /\ tasks' = IF ui.removed THEN Append(tasks, ShowTask) ELSE tasks
  <2>1. UpdateDue => UpdateDue'
    <3>1. CASE ui.removed
      <4>1. ToSet(tasks') = ToSet(tasks) \cup {ShowTask}
        BY <1>3, <1>7, <3>1, TaskKinds, ToSetOfAppend
      <4>2. QED
        BY <4>1 DEF UpdateDue
    <3>2. CASE ~ui.removed
      BY <1>1, <1>7, <3>2, DueFrame
    <3>3. QED
      BY <3>1, <3>2
  <2>2. ShadeInStep' /\ BadgeInStep'
    BY <1>1, <1>3, <1>5, <2>1, PostsKeepBadge, NewsFrame DEF InStep, Clearing
  <2>3. QED
    BY <1>2, <2>2 DEF InStep
<1>8. QED
  BY <1>1, <1>6, <1>7

LEMMA SeenGetInStep ==
    ASSUME Always, InStep, SeenGet
    PROVE  InStep'
<1>1. /\ ui.pc = "get"
      /\ UNCHANGED <<pushMessages, pushMessagesDict, pushDialogs, totalUnread, tasks>>
      /\ \/ UNCHANGED ui
         \/ /\ ui.i \in 1..Len(pushMessages) /\ ui'.removed = ui.removed
            /\ \/ /\ pushMessages[ui.i] \in ui.snapshot
                  /\ ui'.pc = "loop" /\ ui'.i = ui.i + 1
               \/ ui'.pc = "drop" /\ ui'.i = ui.i
      /\ UNCHANGED <<badgeNumber, lastBadgeCount, work, shade, forgotten>>
  BY SeenGetDoes DEF Always, RemovalStep
<1>2. ListsInStep' /\ TotalInStep' /\ ChatsInStep'
  BY <1>1, CountsFrame DEF InStep, UiKeeps, WorkKeeps
<1>3. UpdateDue => UpdateDue'
  BY <1>1, DueFrame DEF Walking
<1>4. ShadeInStep' /\ BadgeInStep'
  BY <1>1, <1>3, NewsFrame DEF InStep, Clearing
<1>5. QED
  BY <1>2, <1>4 DEF InStep

LEMMA SeenDropInStep ==
    ASSUME Always, InStep, SeenDrop, ~overlapped'
    PROVE  InStep'
<1>1. /\ ui.pc = "drop" /\ Noted
      /\ UNCHANGED <<pushMessages, pushDialogs, totalUnread, tasks>>
      /\ pushMessagesDict' = pushMessagesDict \ {ui.msg}
      /\ ui'.pc = "remove" /\ ui'.i = ui.i /\ ui'.msg = ui.msg /\ ui'.removed = ui.removed
      /\ UNCHANGED <<badgeNumber, lastBadgeCount, work, shade, forgotten>>
  BY SeenDropDoes DEF Always, RemovalStep
<1>2. work.pc = "idle"
  BY <1>1, Apart DEF Removing
<1>3. ListsInStep'
  BY <1>1, <1>2 DEF InStep, ListsInStep, Listed
<1>4. TotalInStep' /\ ChatsInStep'
  BY <1>1, <1>2 DEF InStep, TotalInStep, ChatsInStep, One, InChat, Listed, Of
<1>5. UpdateDue => UpdateDue'
  BY <1>1, DueFrame DEF Walking
<1>6. ShadeInStep' /\ BadgeInStep'
  BY <1>1, <1>5, NewsFrame DEF InStep, Clearing
<1>7. QED
  BY <1>3, <1>4, <1>6 DEF InStep

\* What is counted per chat when a message comes to the list or leaves it.
LEMMA InChatAdded ==
    ASSUME NEW L \in SUBSET Messages, NEW m \in Messages, m \notin L, NEW c
    PROVE  Cardinality((L \cup {m}) \cap Of(c))
               = Cardinality(L \cap Of(c)) + One(ChatOf[m] = c)
<1>1. IsFiniteSet(L \cap Of(c)) /\ Cardinality(L \cap Of(c)) \in Nat
  BY FiniteParts, ChatFacts
<1>2. CASE ChatOf[m] = c
  <2>1. (L \cup {m}) \cap Of(c) = (L \cap Of(c)) \cup {m} /\ m \notin L \cap Of(c)
    BY <1>2 DEF Of
  <2>2. QED
    BY <1>1, <1>2, <2>1, FS_AddElement DEF One
<1>3. CASE ChatOf[m] # c
  <2>1. (L \cup {m}) \cap Of(c) = L \cap Of(c)
    BY <1>3 DEF Of
  <2>2. QED
    BY <1>1, <1>3, <2>1 DEF One
<1>4. QED
  BY <1>2, <1>3

LEMMA InChatRemoved ==
    ASSUME NEW L \in SUBSET Messages, NEW m \in L, NEW c
    PROVE  Cardinality((L \ {m}) \cap Of(c))
               = Cardinality(L \cap Of(c)) - One(ChatOf[m] = c)
<1> DEFINE K == L \ {m}
<1>1. K \in SUBSET Messages /\ m \in Messages /\ m \notin K /\ K \cup {m} = L
  OBVIOUS
<1>2. Cardinality(K \cap Of(c)) \in Nat /\ One(ChatOf[m] = c) \in Nat
  BY <1>1, FiniteParts, ChatFacts DEF One
<1> HIDE DEF K
<1>3. Cardinality(L \cap Of(c)) = Cardinality(K \cap Of(c)) + One(ChatOf[m] = c)
  BY <1>1, InChatAdded
<1>4. Cardinality(K \cap Of(c)) = Cardinality(L \cap Of(c)) - One(ChatOf[m] = c)
  BY <1>2, <1>3
<1>5. QED
  BY <1>4 DEF K

LEMMA SeenRemoveInStep ==
    ASSUME Always, InStep, SeenRemove, ~overlapped'
    PROVE  InStep'
<1>1. /\ ui.pc = "remove" /\ Noted /\ ui.msg \in Messages
      /\ UNCHANGED <<pushMessagesDict, pushDialogs, totalUnread, tasks>>
      /\ \/ UNCHANGED <<pushMessages, ui>>
         \/ /\ ui.i \in 1..Len(pushMessages)
            /\ pushMessages' = RemoveAt(pushMessages, ui.i)
            /\ ui'.pc = "uncount" /\ ui'.i = ui.i
            /\ ui'.msg = ui.msg /\ ui'.removed = ui.removed
      /\ UNCHANGED <<badgeNumber, lastBadgeCount, work, shade, forgotten>>
  BY SeenRemoveDoes DEF Always, RemovalStep
<1>2. work.pc = "idle" /\ ~shifted
  BY <1>1, Apart DEF Removing
<1>3. UpdateDue => UpdateDue'
  BY <1>1, DueFrame DEF Walking
<1>4. ShadeInStep' /\ BadgeInStep'
  BY <1>1, <1>3, NewsFrame DEF InStep, Clearing
<1>5. CASE UNCHANGED <<pushMessages, ui>>
  <2>1. ListsInStep' /\ TotalInStep' /\ ChatsInStep'
    BY <1>1, <1>5, CountsFrame DEF InStep, UiKeeps, WorkKeeps
  <2>2. QED
    BY <1>4, <2>1 DEF InStep
<1>6. CASE /\ ui.i \in 1..Len(pushMessages)
           /\ pushMessages' = RemoveAt(pushMessages, ui.i)
           /\ ui'.pc = "uncount" /\ ui'.i = ui.i
           /\ ui'.msg = ui.msg /\ ui'.removed = ui.removed
  <2>1. PICK m \in Messages : m = ui.msg
    BY <1>1
  <2>2. PICK k \in 1..Len(pushMessages) : k = ui.i
    BY <1>6
  <2>3. pushMessages[k] = m /\ pushMessages \in Seq(Messages) /\ IsInjective(pushMessages)
    BY <1>1, <1>2, <2>1, <2>2 DEF Always, IndexIsRight, Typed, ListTyped, ListedOnce
  <2>4. /\ Len(pushMessages') = Len(pushMessages) - 1 /\ pushMessages' \in Seq(Messages)
        /\ \A i \in 1..(Len(pushMessages) - 1) :
               pushMessages'[i] = IF i < k THEN pushMessages[i] ELSE pushMessages[i + 1]
    BY <1>6, <2>2, <2>3, RemoveAtFromSeq
  <2>5. Listed' = Listed \ {m} /\ m \in Listed /\ Listed \subseteq Messages
    <3>1. Listed' = Listed \ {m}
      BY <1>6, <2>2, <2>3, RemoveAtOfDistinct DEF Listed
    <3>2. m \in Listed /\ Listed \subseteq Messages
      BY <2>2, <2>3, ElementOfSeq DEF Listed, ToSet
    <3>3. QED
      BY <3>1, <3>2
  <2>6. ListsInStep'
    BY <1>1, <1>2, <1>6, <2>1, <2>5 DEF InStep, ListsInStep
  <2>7. TotalInStep'
    <3>1. Len(pushMessages) \in Nat /\ totalUnread \in Int
      BY <2>3 DEF Always, Typed, CountsTyped
    <3>2. totalUnread = Len(pushMessages)
      BY <1>1, <1>2, <3>1 DEF InStep, TotalInStep, One
    <3>3. totalUnread' = Len(pushMessages') + 1
      BY <1>1, <2>4, <3>1, <3>2
    <3>4. QED
      BY <1>1, <1>2, <1>6, <2>4, <3>1, <3>3 DEF TotalInStep, One
  <2>8. ChatsInStep'
    <3> SUFFICES ASSUME NEW c \in Chats
                 PROVE  pushDialogs'[c] =
                            Cardinality(InChat(c)') + forgotten'[c]
                                + One(ui'.pc = "uncount" /\ ChatOf[ui'.msg] = c)
                                - One(work'.pc \in {"dict", "count"}
                                          /\ ChatOf[work'.msg] = c)
      BY DEF ChatsInStep
    <3>1. pushDialogs[c] = Cardinality(Listed \cap Of(c)) + forgotten[c] + 0 - 0
      BY <1>1, <1>2 DEF InStep, ChatsInStep, One, InChat
    <3>2. InChat(c)' = (Listed \ {m}) \cap Of(c)
      BY <2>5 DEF InChat, Of
    <3>3. Cardinality(InChat(c)') = Cardinality(Listed \cap Of(c)) - One(ChatOf[m] = c)
      BY <2>5, <3>2, InChatRemoved
    <3>4. /\ One(ui'.pc = "uncount" /\ ChatOf[ui'.msg] = c) = One(ChatOf[m] = c)
          /\ One(work'.pc \in {"dict", "count"} /\ ChatOf[work'.msg] = c) = 0
      BY <1>1, <1>2, <1>6, <2>1 DEF One
    <3>5. /\ Cardinality(Listed \cap Of(c)) \in Nat /\ forgotten[c] \in Nat
          /\ One(ChatOf[m] = c) \in Nat
      BY FiniteParts, ChatFacts DEF Always, Typed, LogTyped, One
    <3>6. QED
      BY <1>1, <3>1, <3>3, <3>4, <3>5
  <2>9. QED
    BY <1>4, <2>6, <2>7, <2>8 DEF InStep
<1>7. QED
  BY <1>1, <1>5, <1>6

LEMMA SeenUncountInStep ==
    ASSUME Always, InStep, SeenUncount, ~overlapped'
    PROVE  InStep'
<1>1. PICK d : d = ChatOf[ui.msg]
  OBVIOUS
<1>2. /\ ui.pc = "uncount" /\ Noted /\ ui.msg \in Messages
      /\ UNCHANGED <<pushMessages, pushMessagesDict, tasks>>
      /\ totalUnread' = totalUnread - 1
      /\ pushDialogs' = [pushDialogs EXCEPT ![d] = IF @ <= 1 THEN 0 ELSE @ - 1]
      /\ ui'.pc = "loop" /\ ui'.i = ui.i /\ ui'.removed = TRUE
      /\ UNCHANGED <<badgeNumber, lastBadgeCount, work, shade, forgotten>>
  BY <1>1, SeenUncountDoes DEF Always, RemovalStep
<1>3. work.pc = "idle"
  BY <1>2, Apart DEF Removing
<1>4. UpdateDue'
  BY <1>2 DEF UpdateDue, Walking
<1>5. ShadeInStep' /\ BadgeInStep'
  BY <1>2, <1>4, NewsFrame DEF InStep, Clearing
<1>6. ListsInStep'
  BY <1>2, <1>3 DEF InStep, ListsInStep, Listed
<1>7. TotalInStep'
  <2>1. Len(pushMessages) \in Nat /\ totalUnread \in Int
    BY DEF Always, Typed, CountsTyped, ListTyped
  <2>2. totalUnread = Len(pushMessages) + 1
    BY <1>2, <1>3, <2>1 DEF InStep, TotalInStep, One
  <2>3. totalUnread' = Len(pushMessages')
    BY <1>2, <2>1, <2>2
  <2>4. QED
    BY <1>2, <1>3, <2>1, <2>3 DEF TotalInStep, One
<1>8. ChatsInStep'
  <2> SUFFICES ASSUME NEW c \in Chats
               PROVE  pushDialogs'[c] =
                          Cardinality(InChat(c)') + forgotten'[c]
                              + One(ui'.pc = "uncount" /\ ChatOf[ui'.msg] = c)
                              - One(work'.pc \in {"dict", "count"} /\ ChatOf[work'.msg] = c)
    BY DEF ChatsInStep
  <2>1. PICK n : n = Cardinality(Listed \cap Of(c))
    OBVIOUS
  <2>2. n \in Nat /\ forgotten[c] \in Nat /\ pushDialogs \in [Chats -> Nat]
    BY <2>1, FiniteParts, ChatFacts DEF Always, Typed, LogTyped, CountsTyped
  <2>3. pushDialogs[c] = n + forgotten[c] + One(d = c)
    BY <1>1, <1>2, <1>3, <2>1, <2>2 DEF InStep, ChatsInStep, One, InChat
  <2>4. Cardinality(InChat(c)') = n
    BY <1>2, <2>1 DEF InChat, Listed, Of
  <2>5. pushDialogs'[c] = n + forgotten[c]
    <3>1. CASE d = c
      BY <1>2, <2>2, <2>3, <3>1 DEF One
    <3>2. CASE d # c
      BY <1>2, <2>2, <2>3, <3>2 DEF One
    <3>3. QED
      BY <3>1, <3>2
  <2>6. QED
    BY <1>2, <1>3, <2>2, <2>4, <2>5 DEF One
<1>9. QED
  BY <1>5, <1>6, <1>7, <1>8 DEF InStep

-----------------------------------------------------------------------------
(* The thread of notificationsQueue.                                       *)

\* While a task has work on the lists the main thread is elsewhere.
LEMMA QueueAlone ==
    ASSUME Always, QueueStep, work.pc # "idle", ~overlapped'
    PROVE  /\ ui.pc \in {"idle", "announce"}
           /\ UNCHANGED <<ui, badgeNumber>>
<1>1. ~Removing
  BY Apart DEF QueueStep
<1>2. QED
  BY <1>1 DEF Removing, QueueStep

LEMMA TakeTaskInStep ==
    ASSUME Always, InStep, TakeTask
    PROVE  InStep'
<1>1. /\ work.pc = "idle" /\ tasks # <<>> /\ tasks' = Tail(tasks)
      /\ UNCHANGED <<pushMessages, pushMessagesDict, pushDialogs, totalUnread, shade,
                     forgotten, badgeNumber, ui>>
  BY TakeTaskDoes DEF Always, QueueStep
<1>2. PICK t \in Task :
          /\ t = Head(tasks)
          /\ \/ t.kind = "open" /\ UNCHANGED <<lastBadgeCount, work>>
             \/ t.kind = "badge" /\ lastBadgeCount' = t.of /\ UNCHANGED work
             \/ t.kind = "show" /\ work'.pc = "show" /\ UNCHANGED lastBadgeCount
             \/ t.kind = "new" /\ UNCHANGED <<lastBadgeCount, work>>
             \/ t.kind = "new" /\ UNCHANGED lastBadgeCount /\ work'.pc = "list"
  BY TakeTaskDoes DEF Always
<1>3. work'.pc \in {"idle", "show", "list"} /\ (t.kind = "show" => work'.pc = "show")
  BY <1>1, <1>2
<1>4. ListsInStep' /\ TotalInStep' /\ ChatsInStep'
  BY <1>1, <1>3, CountsFrame DEF InStep, UiKeeps, WorkKeeps
<1>5. tasks \in Seq(Task)
  BY DEF Always, Typed, TasksTyped
<1>6. UpdateDue => UpdateDue'
  <2>1. ToSet(tasks) = {t} \cup ToSet(tasks')
    BY <1>1, <1>2, <1>5, ToSetOfTail
  <2>2. ShowTask \in ToSet(tasks) => ShowTask \in ToSet(tasks') \/ work'.pc = "show"
    BY <1>3, <2>1, TaskKinds
  <2>3. QED
    BY <1>1, <2>2 DEF UpdateDue, Walking
<1>7. \A v : LastBadge(tasks, lastBadgeCount, v) => LastBadge(tasks', lastBadgeCount', v)
  <2>1. \/ t.kind # "badge" /\ lastBadgeCount' = lastBadgeCount
        \/ t = BadgeTask(lastBadgeCount')
    BY <1>2, TaskKinds
  <2>2. QED
    BY <1>1, <1>2, <1>5, <2>1, LastBadgeOfTail
<1>8. ShadeInStep' /\ BadgeInStep'
  BY <1>1, <1>3, <1>6, <1>7, NewsFrame DEF InStep, Clearing
<1>9. QED
  BY <1>4, <1>8 DEF InStep

LEMMA AddToListInStep ==
    ASSUME Always, InStep, AddToList, ~overlapped'
    PROVE  InStep'
<1>1. PICK m : m = work.msg
  OBVIOUS
<1>2. /\ work.pc = "list" /\ m \in Messages /\ QueueStep
      /\ pushMessages' = <<m>> \o pushMessages
      /\ work'.pc = "dict" /\ work'.msg = m
      /\ UNCHANGED <<pushMessagesDict, pushDialogs, totalUnread, shade, forgotten, tasks,
                     lastBadgeCount>>
  BY <1>1, AddToListDoes DEF Always
<1>3. ui.pc \in {"idle", "announce"} /\ UNCHANGED <<ui, badgeNumber>>
  BY <1>2, QueueAlone
<1>4. m \notin Listed
  BY <1>1, <1>2 DEF Always, ListedOnce
<1>5. pushMessages \in Seq(Messages) /\ IsInjective(pushMessages) /\ Listed \subseteq Messages
  BY ElementOfSeq DEF Always, Typed, ListTyped, ListedOnce, Listed, ToSet
<1>6. Listed' = Listed \cup {m}
  BY <1>2, <1>4, <1>5, PrependToDistinct DEF Listed
<1>7. Len(pushMessages') = Len(pushMessages) + 1 /\ Len(pushMessages) \in Nat
  BY <1>2, <1>5
<1>8. ListsInStep'
  BY <1>2, <1>3, <1>4, <1>6 DEF InStep, ListsInStep
<1>9. TotalInStep'
  <2>1. totalUnread = Len(pushMessages)
    BY <1>2, <1>3, <1>7 DEF InStep, TotalInStep, One
  <2>2. QED
    BY <1>2, <1>3, <1>7, <2>1 DEF TotalInStep, One
<1>10. ChatsInStep'
  <2> SUFFICES ASSUME NEW c \in Chats
               PROVE  pushDialogs'[c] =
                          Cardinality(InChat(c)') + forgotten'[c]
                              + One(ui'.pc = "uncount" /\ ChatOf[ui'.msg] = c)
                              - One(work'.pc \in {"dict", "count"} /\ ChatOf[work'.msg] = c)
    BY DEF ChatsInStep
  <2>1. PICK n : n = Cardinality(Listed \cap Of(c))
    OBVIOUS
  <2>2. n \in Nat /\ forgotten[c] \in Nat /\ One(ChatOf[m] = c) \in Nat
    BY <2>1, FiniteParts, ChatFacts DEF Always, Typed, LogTyped, One
  <2>3. pushDialogs[c] = n + forgotten[c]
    <3>1. pushDialogs[c] = n + forgotten[c] + 0 - 0
      BY <1>2, <1>3, <2>1 DEF InStep, ChatsInStep, One, InChat
    <3>2. QED
      BY <2>2, <3>1
  <2>4. InChat(c)' = (Listed \cup {m}) \cap Of(c)
    BY <1>6 DEF InChat, Of
  <2>5. Cardinality(InChat(c)') = n + One(ChatOf[m] = c)
    BY <1>2, <1>4, <1>5, <2>1, <2>4, InChatAdded
  <2>6. /\ One(ui'.pc = "uncount" /\ ChatOf[ui'.msg] = c) = 0
        /\ One(work'.pc \in {"dict", "count"} /\ ChatOf[work'.msg] = c) = One(ChatOf[m] = c)
    BY <1>2, <1>3 DEF One
  <2>7. QED
    BY <1>2, <2>2, <2>3, <2>5, <2>6
<1>11. UpdateDue => UpdateDue'
  BY <1>2, <1>3, DueFrame DEF Walking
<1>12. ShadeInStep' /\ BadgeInStep'
  BY <1>2, <1>3, <1>11, NewsFrame DEF InStep, Clearing
<1>13. QED
  BY <1>8, <1>9, <1>10, <1>12 DEF InStep

LEMMA AddToDictInStep ==
    ASSUME Always, InStep, AddToDict, ~overlapped'
    PROVE  InStep'
<1>1. /\ work.pc = "dict" /\ QueueStep
      /\ pushMessagesDict' = pushMessagesDict \cup {work.msg}
      /\ work'.pc = "count" /\ work'.msg = work.msg
      /\ UNCHANGED <<pushMessages, pushDialogs, totalUnread, shade, forgotten, tasks,
                     lastBadgeCount>>
  BY AddToDictDoes DEF Always
<1>2. ui.pc \in {"idle", "announce"} /\ UNCHANGED <<ui, badgeNumber>>
  BY <1>1, QueueAlone
<1>3. Listed' = Listed
  BY <1>1 DEF Listed
<1>4. ListsInStep'
  BY <1>1, <1>2, <1>3 DEF InStep, ListsInStep
<1>5. TotalInStep' /\ ChatsInStep'
  BY <1>1, <1>2, <1>3 DEF InStep, TotalInStep, ChatsInStep, One, InChat, Of
<1>6. UpdateDue => UpdateDue'
  BY <1>1, <1>2, DueFrame DEF Walking
<1>7. ShadeInStep' /\ BadgeInStep'
  BY <1>1, <1>2, <1>6, NewsFrame DEF InStep, Clearing
<1>8. QED
  BY <1>4, <1>5, <1>7 DEF InStep

LEMMA AddToCountsInStep ==
    ASSUME Always, InStep, AddToCounts, ~overlapped'
    PROVE  InStep'
<1>1. PICK d : d = ChatOf[work.msg]
  OBVIOUS
<1>2. /\ work.pc = "count" /\ QueueStep
      /\ pushDialogs' = [pushDialogs EXCEPT ![d] = @ + 1]
      /\ totalUnread' = totalUnread + 1
      /\ work'.pc = "show"
      /\ UNCHANGED <<pushMessages, pushMessagesDict, shade, forgotten, tasks,
                     lastBadgeCount>>
  BY <1>1, AddToCountsDoes DEF Always
<1>3. ui.pc \in {"idle", "announce"} /\ UNCHANGED <<ui, badgeNumber>>
  BY <1>2, QueueAlone
<1>4. Listed' = Listed
  BY <1>2 DEF Listed
<1>5. ListsInStep'
  BY <1>2, <1>3, <1>4 DEF InStep, ListsInStep
<1>6. TotalInStep'
  <2>1. Len(pushMessages) \in Nat /\ totalUnread \in Int
    BY DEF Always, Typed, CountsTyped, ListTyped
  <2>2. totalUnread = Len(pushMessages) - 1
    BY <1>2, <1>3, <2>1 DEF InStep, TotalInStep, One
  <2>3. totalUnread' = Len(pushMessages')
    BY <1>2, <2>1, <2>2
  <2>4. QED
    BY <1>2, <1>3, <2>1, <2>3 DEF TotalInStep, One
<1>7. ChatsInStep'
  <2> SUFFICES ASSUME NEW c \in Chats
               PROVE  pushDialogs'[c] =
                          Cardinality(InChat(c)') + forgotten'[c]
                              + One(ui'.pc = "uncount" /\ ChatOf[ui'.msg] = c)
                              - One(work'.pc \in {"dict", "count"} /\ ChatOf[work'.msg] = c)
    BY DEF ChatsInStep
  <2>1. PICK n : n = Cardinality(Listed \cap Of(c))
    OBVIOUS
  <2>2. n \in Nat /\ forgotten[c] \in Nat /\ pushDialogs \in [Chats -> Nat]
    BY <2>1, FiniteParts, ChatFacts DEF Always, Typed, LogTyped, CountsTyped
  <2>3. pushDialogs[c] = n + forgotten[c] - One(d = c)
    BY <1>1, <1>2, <1>3, <2>1, <2>2 DEF InStep, ChatsInStep, One, InChat
  <2>4. Cardinality(InChat(c)') = n
    BY <1>4, <2>1 DEF InChat, Of
  <2>5. pushDialogs'[c] = n + forgotten[c]
    <3>1. CASE d = c
      BY <1>2, <2>2, <2>3, <3>1 DEF One
    <3>2. CASE d # c
      BY <1>2, <2>2, <2>3, <3>2 DEF One
    <3>3. QED
      BY <3>1, <3>2
  <2>6. QED
    BY <1>2, <1>3, <2>2, <2>4, <2>5 DEF One
<1>8. UpdateDue'
  BY <1>2 DEF UpdateDue
<1>9. ShadeInStep' /\ BadgeInStep'
  BY <1>2, <1>3, <1>8, NewsFrame DEF InStep, Clearing
<1>10. QED
  BY <1>5, <1>6, <1>7, <1>9 DEF InStep

LEMMA ShowOrUpdateInStep ==
    ASSUME Always, InStep, ShowOrUpdate
    PROVE  InStep'
<1>1. /\ work.pc = "show"
      /\ work'.pc = "clear" \/ (work'.pc = "notify" /\ pushMessages # <<>>)
      /\ UNCHANGED <<arrived, unseen, deleted, muted, badgeNumber, dismissDate, handled,
                     activity, firstReads, ui, openedDialog, lastBadgeCount, pushMessages,
                     pushMessagesDict, pushDialogs, totalUnread, tasks, shade, crashed,
                     cleared, shifted, acts, forgotten, due, outcome>>
  BY ShowOrUpdateDoes DEF Always
<1>2. ListsInStep' /\ TotalInStep' /\ ChatsInStep'
  BY <1>1, CountsFrame DEF InStep, UiKeeps, WorkKeeps
<1>3. UpdateDue'
  BY <1>1 DEF UpdateDue
<1>4. ShadeInStep' /\ BadgeInStep'
  BY <1>1, <1>3, NewsFrame DEF InStep, Clearing
<1>5. QED
  BY <1>2, <1>4 DEF InStep

\* The notification shows the totals of now, which nobody changes meanwhile.
LEMMA NotifyInStep ==
    ASSUME Always, InStep, Notify
    PROVE  InStep'
<1>1. PICK n : n = totalUnread
  OBVIOUS
<1>2. /\ work.pc = "notify" /\ work'.pc \in {"clear", "idle"}
      /\ UNCHANGED <<arrived, unseen, deleted, muted, badgeNumber, dismissDate, handled,
                     activity, firstReads, ui, openedDialog, lastBadgeCount, pushMessages,
                     pushMessagesDict, pushDialogs, totalUnread, crashed, cleared, shifted,
                     acts, forgotten, due, outcome>>
      /\ \/ pushMessages = <<>>
         \/ work'.pc = "clear" /\ UNCHANGED <<shade, tasks>>
         \/ /\ work'.pc = "idle"
            /\ shade'.count = n /\ shade'.chats = Cardinality(ShownChats)
            /\ tasks' = IF badgeNumber THEN Append(tasks, BadgeTask(n)) ELSE tasks
  BY <1>1, NotifyDoes DEF Always
<1>3. pushMessages # <<>>
  BY <1>2 DEF InStep, ListsInStep
<1>4. ListsInStep' /\ TotalInStep' /\ ChatsInStep'
  BY <1>2, CountsFrame DEF InStep, UiKeeps, WorkKeeps
<1>5. CASE work'.pc = "clear" /\ UNCHANGED <<shade, tasks>>
  <2>1. UpdateDue'
    BY <1>5 DEF UpdateDue
  <2>2. ShadeInStep' /\ BadgeInStep'
    BY <1>2, <1>5, <2>1, NewsFrame DEF InStep, Clearing
  <2>3. QED
    BY <1>4, <2>2 DEF InStep
<1>6. CASE /\ work'.pc = "idle"
           /\ shade'.count = n /\ shade'.chats = Cardinality(ShownChats)
           /\ tasks' = IF badgeNumber THEN Append(tasks, BadgeTask(n)) ELSE tasks
  <2>1. ShadeInStep'
    <3>1. Cardinality({c \in Chats : pushDialogs'[c] > 0}) = Cardinality(ShownChats)
      BY <1>2 DEF ShownChats
    <3>2. QED
      BY <1>1, <1>2, <1>6, <3>1 DEF ShadeInStep
  <2>2. BadgeInStep'
    <3>1. CASE badgeNumber
      <4>1. tasks \in Seq(Task) /\ BadgeTask(n) \in Task
        BY <1>1, TaskKinds DEF Always, Typed, TasksTyped, CountsTyped
      <4>2. LastBadge(tasks', lastBadgeCount', n)
        BY <1>6, <3>1, <4>1, LastBadgeOfAppend
      <4>3. QED
        BY <1>1, <1>2, <3>1, <4>2 DEF BadgeInStep, BadgeWillBe
    <3>2. CASE ~badgeNumber
      BY <1>2, <1>6, <3>2 DEF InStep, BadgeInStep, BadgeWillBe
    <3>3. QED
      BY <3>1, <3>2
  <2>3. QED
    BY <1>4, <2>1, <2>2 DEF InStep
<1>7. QED
  BY <1>2, <1>3, <1>5, <1>6

\* A dismissal: what it takes from the list it leaves in the counts per chat.
LEMMA ClearListInStep ==
    ASSUME Always, InStep, ClearList, ~overlapped'
    PROVE  InStep'
<1>1. /\ work.pc = "clear" /\ work'.pc = "clearDict" /\ QueueStep
      /\ shade' = NoNotification /\ pushMessages' = <<>>
      /\ forgotten' = [c \in Chats |-> forgotten[c] + Cardinality(Listed \cap Of(c))]
      /\ UNCHANGED <<pushMessagesDict, pushDialogs, totalUnread, tasks, lastBadgeCount>>
  BY ClearListDoes DEF Always
<1>2. ui.pc \in {"idle", "announce"} /\ UNCHANGED <<ui, badgeNumber>>
  BY <1>1, QueueAlone
<1>3. Listed' = {}
  BY <1>1 DEF Listed, ToSet
<1>4. ListsInStep' /\ TotalInStep'
  BY <1>1, <1>2 DEF ListsInStep, TotalInStep
<1>5. ChatsInStep'
  <2> SUFFICES ASSUME NEW c \in Chats
               PROVE  pushDialogs'[c] =
                          Cardinality(InChat(c)') + forgotten'[c]
                              + One(ui'.pc = "uncount" /\ ChatOf[ui'.msg] = c)
                              - One(work'.pc \in {"dict", "count"} /\ ChatOf[work'.msg] = c)
    BY DEF ChatsInStep
  <2>1. PICK n : n = Cardinality(Listed \cap Of(c))
    OBVIOUS
  <2>2. n \in Nat /\ forgotten[c] \in Nat
    BY <2>1, FiniteParts, ChatFacts DEF Always, Typed, LogTyped
  <2>3. pushDialogs[c] = n + forgotten[c]
    <3>1. pushDialogs[c] = n + forgotten[c] + 0 - 0
      BY <1>1, <1>2, <2>1 DEF InStep, ChatsInStep, One, InChat
    <3>2. QED
      BY <2>2, <3>1
  <2>4. Cardinality(InChat(c)') = 0
    BY <1>3, FS_EmptySet DEF InChat
  <2>5. forgotten'[c] = forgotten[c] + n
    BY <1>1, <2>1
  <2>6. QED
    BY <1>1, <1>2, <2>2, <2>3, <2>4, <2>5 DEF One
<1>6. ShadeInStep'
  BY <1>1 DEF ShadeInStep
<1>7. BadgeInStep'
  BY <1>1, <1>2 DEF InStep, BadgeInStep, BadgeWillBe
<1>8. QED
  BY <1>4, <1>5, <1>6, <1>7 DEF InStep

LEMMA ClearDictInStep ==
    ASSUME Always, InStep, ClearDict, ~overlapped'
    PROVE  InStep'
<1>1. /\ work.pc = "clearDict" /\ work'.pc = "clearCount" /\ QueueStep
      /\ pushMessagesDict' = {}
      /\ UNCHANGED <<pushMessages, pushDialogs, totalUnread, shade, forgotten, tasks,
                     lastBadgeCount>>
  BY ClearDictDoes DEF Always
<1>2. ui.pc \in {"idle", "announce"} /\ UNCHANGED <<ui, badgeNumber>>
  BY <1>1, QueueAlone
<1>3. pushMessages' = <<>> /\ Listed' = {} /\ Listed = {}
  BY <1>1 DEF InStep, ListsInStep, Listed, ToSet
<1>4. ListsInStep' /\ TotalInStep'
  BY <1>1, <1>2, <1>3 DEF ListsInStep, TotalInStep
<1>5. ChatsInStep'
  BY <1>1, <1>2, <1>3 DEF InStep, ChatsInStep, One, InChat, Of
<1>6. UpdateDue => UpdateDue'
  BY <1>1, <1>2, DueFrame DEF Walking
<1>7. ShadeInStep' /\ BadgeInStep'
  BY <1>1, <1>2, <1>6, NewsFrame DEF InStep, Clearing
<1>8. QED
  BY <1>4, <1>5, <1>7 DEF InStep

LEMMA ClearCountInStep ==
    ASSUME Always, InStep, ClearCount, ~overlapped'
    PROVE  InStep'
<1>1. /\ work.pc = "clearCount" /\ work'.pc = "idle" /\ QueueStep
      /\ totalUnread' = 0 /\ tasks' = Append(tasks, BadgeTask(0))
      /\ UNCHANGED <<pushMessages, pushMessagesDict, pushDialogs, shade, forgotten,
                     lastBadgeCount>>
  BY ClearCountDoes DEF Always
<1>2. ui.pc \in {"idle", "announce"} /\ UNCHANGED <<ui, badgeNumber>>
  BY <1>1, QueueAlone
<1>3. pushMessages' = <<>> /\ Listed' = Listed /\ pushMessagesDict = Listed
  BY <1>1, <1>2 DEF InStep, ListsInStep, Listed
<1>4. ListsInStep'
  BY <1>1, <1>2, <1>3 DEF ListsInStep
<1>5. TotalInStep'
  <2>1. Len(pushMessages') = 0
    BY <1>3
  <2>2. QED
    BY <1>1, <1>2, <2>1 DEF TotalInStep, One
<1>6. ChatsInStep'
  BY <1>1, <1>2, <1>3 DEF InStep, ChatsInStep, One, InChat, Of
<1>7. ShadeInStep'
  BY <1>1 DEF InStep, ShadeInStep
<1>8. BadgeInStep'
  <2>1. tasks \in Seq(Task) /\ BadgeTask(0) \in Task
    BY TaskKinds DEF Always, Typed, TasksTyped
  <2>2. LastBadge(tasks', lastBadgeCount', 0)
    BY <1>1, <2>1, LastBadgeOfAppend
  <2>3. QED
    BY <1>1, <2>2 DEF BadgeInStep, BadgeWillBe
<1>9. QED
  BY <1>4, <1>5, <1>6, <1>7, <1>8 DEF InStep

-----------------------------------------------------------------------------
(* The inductive invariant.                                                *)

LEMMA InitInStep == Init => InStep
<1> SUFFICES ASSUME Init
             PROVE  InStep
  OBVIOUS
<1>1. /\ ui.pc = "idle" /\ work.pc = "idle" /\ pushMessages = <<>> /\ pushMessagesDict = {}
      /\ totalUnread = 0 /\ lastBadgeCount = -1 /\ tasks = <<>>
      /\ shade = NoNotification /\ badgeNumber = TRUE
      /\ pushDialogs = [c \in Chats |-> 0] /\ forgotten = [c \in Chats |-> 0]
  BY DEF Init, UiIdle, WorkIdle
<1>2. Listed = {} /\ Len(pushMessages) = 0 /\ DOMAIN tasks = {}
  BY <1>1 DEF Listed, ToSet
<1>3. ListsInStep /\ TotalInStep
  BY <1>1, <1>2 DEF ListsInStep, TotalInStep, One
<1>4. ChatsInStep
  <2>1. \A c : Cardinality(InChat(c)) = 0
    BY <1>2, FS_EmptySet DEF InChat
  <2>2. QED
    BY <1>1, <2>1 DEF ChatsInStep, One
<1>5. ShadeInStep
  BY <1>1 DEF ShadeInStep
<1>6. BadgeInStep
  BY <1>1, <1>2 DEF BadgeInStep, BadgeWillBe, LastBadge, LastOf
<1>7. QED
  BY <1>3, <1>4, <1>5, <1>6 DEF InStep

\* A step after which nothing has overlapped comes from a state of that kind.
LEMMA OverlapStays ==
    ASSUME Always, [Next]_vars, ~overlapped'
    PROVE  ~overlapped
<1>1. CASE UNCHANGED vars
  BY <1>1 DEF vars
<1>2. CASE User \/ \E c \in Chats : FirstRead(c)
  BY <1>2, UserTyped DEF Always, UserStep, Noted
<1>3. CASE Arrive \/ HandleIncoming \/ Announce
  BY <1>3 DEF Arrive, HandleIncoming, Announce, Watch
<1>4. CASE RemoveSeen
  BY <1>4 DEF RemoveSeen, SeenStart, SeenLoop, SeenGet, SeenDrop, SeenRemove, SeenUncount,
     Watch
<1>5. CASE QueueThread
  BY <1>5 DEF QueueThread, TakeTask, AddToList, AddToDict, AddToCounts, ShowOrUpdate, Notify,
     ClearList, ClearDict, ClearCount, Watch
<1>6. QED
  BY <1>1, <1>2, <1>3, <1>4, <1>5 DEF Next, MainThread

LEMMA NextInStep ==
    ASSUME Always, InStep, [Next]_vars, ~overlapped'
    PROVE  InStep'
<1>1. CASE UNCHANGED vars
  <2>1. UNCHANGED <<arrived, unseen, deleted, muted, badgeNumber, dismissDate, handled,
                    activity, firstReads, ui, openedDialog, lastBadgeCount, pushMessages,
                    pushMessagesDict, pushDialogs, totalUnread, tasks, work, shade, crashed,
                    cleared, shifted, acts, forgotten, due, outcome>>
    BY <1>1 DEF vars, outside, backend, settings, screen, controller, marks, lists, counts,
       accidents, log
  <2>2. ListsInStep' /\ TotalInStep' /\ ChatsInStep'
    BY <2>1, CountsFrame DEF InStep, UiKeeps, WorkKeeps
  <2>3. UpdateDue => UpdateDue'
    BY <2>1, DueFrame DEF Walking
  <2>4. ShadeInStep' /\ BadgeInStep'
    BY <2>1, <2>3, NewsFrame DEF InStep, Clearing
  <2>5. QED
    BY <2>2, <2>4 DEF InStep
<1>2. CASE Arrive
  BY <1>2, ArriveInStep
<1>3. CASE User \/ \E c \in Chats : FirstRead(c)
  BY <1>3, UserTyped, UserInStep DEF Always
<1>4. CASE HandleIncoming \/ Announce
  BY <1>4, HandleIncomingInStep, AnnounceInStep
<1>5. CASE RemoveSeen
  BY <1>5, SeenStartInStep, SeenLoopInStep, SeenGetInStep, SeenDropInStep, SeenRemoveInStep,
     SeenUncountInStep DEF RemoveSeen
<1>6. CASE QueueThread
  BY <1>6, TakeTaskInStep, AddToListInStep, AddToDictInStep, AddToCountsInStep,
     ShowOrUpdateInStep, NotifyInStep, ClearListInStep, ClearDictInStep, ClearCountInStep
     DEF QueueThread
<1>7. QED
  BY <1>1, <1>2, <1>3, <1>4, <1>5, <1>6 DEF Next, MainThread

\* The inductive invariant holds in every reachable state of the two threads.
THEOREM Invariance == Spec => []IInv
<1>1. Init => IInv
  BY InitAlways, InitInStep DEF IInv
<1>2. IInv /\ [Next]_vars => IInv'
  <2> SUFFICES ASSUME IInv, [Next]_vars
               PROVE  IInv'
    OBVIOUS
  <2>1. Always'
    BY NextAlways DEF IInv
  <2>2. ~overlapped' => InStep'
    BY OverlapStays, NextInStep DEF IInv
  <2>3. QED
    BY <2>1, <2>2 DEF IInv
<1>3. QED
  BY <1>1, <1>2, PTL DEF Spec

-----------------------------------------------------------------------------
(* What it says when both threads are between two pieces of work.          *)

LEMMA SettledFacts ==
    ASSUME IInv, Settled
    PROVE  Always /\ InStep /\ ui.pc = "idle" /\ work.pc = "idle"
BY DEF IInv, Settled, UiIdle, WorkIdle

\* The list of unread messages, its index by message and the counts agree after
\* any additions, removals and dismissals that did not overlap; the count of a chat is
\* off by exactly what dismissals took from the list.
THEOREM ListsStayInAgreement == Spec => []ListsAgree
<1>1. IInv => ListsAgree
  <2> SUFFICES ASSUME IInv, Settled
               PROVE  /\ IsInjective(pushMessages) /\ pushMessagesDict = Listed
                      /\ totalUnread = Len(pushMessages)
                      /\ \A c \in Chats : pushDialogs[c]
                             = Cardinality(Listed \cap Of(c)) + forgotten[c]
    BY DEF ListsAgree
  <2>1. IsInjective(pushMessages)
    BY SettledFacts DEF Always, ListedOnce
  <2>2. pushMessagesDict = Listed
    BY SettledFacts DEF InStep, ListsInStep
  <2>3. Len(pushMessages) \in Nat
    BY SettledFacts DEF Always, Typed, ListTyped
  <2>4. totalUnread = Len(pushMessages)
    <3>1. totalUnread = Len(pushMessages) + 0 - 0
      BY SettledFacts DEF InStep, TotalInStep, One
    <3>2. QED
      BY <2>3, <3>1
  <2>5. ASSUME NEW c \in Chats
        PROVE  pushDialogs[c] = Cardinality(Listed \cap Of(c)) + forgotten[c]
    <3>1. PICK n : n = Cardinality(Listed \cap Of(c))
      OBVIOUS
    <3>2. n \in Nat /\ forgotten[c] \in Nat
      BY <3>1, SettledFacts, FiniteParts, ChatFacts DEF Always, Typed, LogTyped
    <3>3. pushDialogs[c] = n + forgotten[c] + 0 - 0
      BY <3>1, SettledFacts DEF InStep, ChatsInStep, One, InChat
    <3>4. QED
      BY <3>1, <3>2, <3>3
  <2>6. QED
    BY <2>1, <2>2, <2>4, <2>5
<1>2. QED
  BY <1>1, Invariance, PTL

\* Once no task is left nothing is due, and no task will set the badge.
LEMMA QuietFacts ==
    ASSUME IInv, Settled, tasks = <<>>
    PROVE  ~UpdateDue /\ \A v : BadgeWillBe(v) => lastBadgeCount = v
<1>1. ToSet(tasks) = {} /\ DOMAIN tasks = {}
  BY DEF ToSet
<1>2. QED
  BY <1>1, SettledFacts DEF UpdateDue, Walking, BadgeWillBe, LastBadge,
     LastOf

\* The badge of the launcher ends up at the total of now.
THEOREM BadgeIsRight == Spec => []BadgeSettles
<1>1. IInv => BadgeSettles
  <2> SUFFICES ASSUME IInv, Settled, tasks = <<>>
               PROVE  \/ lastBadgeCount = IF badgeNumber THEN totalUnread ELSE 0
                      \/ lastBadgeCount = -1 /\ (badgeNumber => totalUnread = 0)
    BY DEF BadgeSettles
  <2>1. BadgeInStep
    BY SettledFacts DEF InStep
  <2>2. CASE badgeNumber
    BY <2>1, <2>2, SettledFacts, QuietFacts DEF BadgeInStep
  <2>3. CASE ~badgeNumber
    BY <2>1, <2>3, SettledFacts, QuietFacts DEF BadgeInStep
  <2>4. QED
    BY <2>2, <2>3
<1>2. QED
  BY <1>1, Invariance, PTL

\* The notification, when there is one, ends up showing the totals of now.
THEOREM ShadeIsRight == Spec => []ShadeSettles
<1>1. IInv => ShadeSettles
  BY SettledFacts, QuietFacts DEF InStep, ShadeInStep, ShadeSettles
<1>2. QED
  BY <1>1, Invariance, PTL

-----------------------------------------------------------------------------
(* The chat that is on the screen.                                         *)

\* The tasks on their way leave the opened dialog at the chat the user sees.
ScreenKnown == LastOf("open", tasks, openedDialog, OnScreen)

\* Steps that neither change what is seen nor tell the controller of it.
LEMMA ScreenFrame ==
    ASSUME TasksTyped, ScreenKnown, UNCHANGED openedDialog, OnScreen' = OnScreen,
           \/ UNCHANGED tasks
           \/ \E t \in Task : t.kind # "open" /\ tasks' = Append(tasks, t)
    PROVE  ScreenKnown'
<1>1. CASE UNCHANGED tasks
  BY <1>1 DEF ScreenKnown
<1>2. CASE \E t \in Task : t.kind # "open" /\ tasks' = Append(tasks, t)
  <2>1. PICK t \in Task : t.kind # "open" /\ tasks' = Append(tasks, t)
    BY <1>2
  <2>2. QED
    BY <2>1, LastOfAppend DEF ScreenKnown, TasksTyped
<1>3. QED
  BY <1>1, <1>2

\* Steps that tell the controller what is seen now.
LEMMA ScreenTold ==
    ASSUME TasksTyped, NEW c \in Chats \cup {0}, OnScreen' = c,
           tasks' = Append(tasks, OpenTask(c))
    PROVE  ScreenKnown'
<1>1. OpenTask(c) \in Task /\ OpenTask(c) = [kind |-> "open", of |-> c]
  BY TaskKinds DEF OpenTask
<1>2. LastOf("open", tasks', openedDialog', c)
  BY <1>1, LastOfAppend DEF TasksTyped
<1>3. QED
  BY <1>2 DEF ScreenKnown

LEMMA UserShows ==
    ASSUME Always, ScreenKnown, User \/ \E c \in Chats : FirstRead(c)
    PROVE  ScreenKnown'
<1>1. TasksTyped /\ totalUnread \in Int /\ activity.chat \in Chats \cup {0}
  BY DEF Always, Typed, CountsTyped, ScreenTyped
<1>2. UNCHANGED openedDialog
  BY UserTyped DEF Always, UserStep
<1>3. activity \in [chat : Chats \cup {0}, paused : BOOLEAN, readWhenResume : BOOLEAN]
  BY DEF Always, Typed, ScreenTyped
<1>4. ASSUME NEW c \in Chats, OpenChat(c)
      PROVE  ScreenKnown'
  <2>1. tasks' = Append(tasks, OpenTask(c)) /\ activity' = [NoActivity EXCEPT !.chat = c]
    BY <1>4 DEF OpenChat
  <2>2. OnScreen' = c
    BY <2>1 DEF OnScreen, NoActivity
  <2>3. QED
    BY <1>1, <2>1, <2>2, ScreenTold
<1>5. CASE Pause
  <2>1. tasks' = Append(tasks, OpenTask(0)) /\ activity' = [activity EXCEPT !.paused = TRUE]
    BY <1>5 DEF Pause
  <2>2. OnScreen' = 0
    BY <1>3, <2>1 DEF OnScreen
  <2>3. QED
    BY <1>1, <2>1, <2>2, ScreenTold
<1>6. CASE Resume
  <2>1. PICK c \in Chats \cup {0} : c = activity.chat
    BY <1>1
  <2>2. /\ tasks' = Append(tasks, OpenTask(c))
        /\ activity' = [activity EXCEPT !.paused = FALSE, !.readWhenResume = FALSE]
    BY <1>6, <2>1 DEF Resume
  <2>3. OnScreen' = c
    BY <1>3, <2>1, <2>2 DEF OnScreen
  <2>4. QED
    BY <1>1, <2>2, <2>3, ScreenTold
<1>7. CASE LeaveChat
  <2>1. activity.paused /\ activity' = NoActivity /\ UNCHANGED tasks
    BY <1>7 DEF LeaveChat
  <2>2. OnScreen' = OnScreen
    BY <2>1 DEF OnScreen, NoActivity
  <2>3. QED
    BY <1>1, <1>2, <2>1, <2>2, ScreenFrame
<1>8. CASE SetBadgeEnabled(~badgeNumber)
  <2>1. PICK n \in Int : n = IF ~badgeNumber THEN totalUnread ELSE 0
    BY <1>1
  <2>2. tasks' = Append(tasks, BadgeTask(n)) /\ UNCHANGED activity
    BY <1>8, <2>1 DEF SetBadgeEnabled, screen
  <2>3. BadgeTask(n) \in Task /\ BadgeTask(n).kind # "open" /\ OnScreen' = OnScreen
    BY <2>2, TaskKinds DEF OnScreen
  <2>4. QED
    BY <1>1, <1>2, <2>2, <2>3, ScreenFrame
<1>9. ASSUME \/ Dismiss
             \/ \E m \in Messages : DeleteMsg(m)
             \/ \E c \in Chats : SetMuted(c, c \notin muted) \/ FirstRead(c)
      PROVE  ScreenKnown'
  <2>1. UNCHANGED <<activity, tasks>>
    BY <1>9 DEF Dismiss, DeleteMsg, SetMuted, FirstRead, screen
  <2>2. QED
    BY <1>1, <1>2, <2>1, ScreenFrame DEF OnScreen
<1>10. QED
  BY <1>4, <1>5, <1>6, <1>7, <1>8, <1>9 DEF User

LEMMA TakeTaskShows ==
    ASSUME Always, ScreenKnown, TakeTask
    PROVE  ScreenKnown'
<1>1. PICK t : t = Head(tasks)
  OBVIOUS
<1>2. /\ tasks # <<>> /\ tasks' = Tail(tasks) /\ UNCHANGED activity
      /\ \/ t.kind = "open" /\ openedDialog' = t.of
         \/ t.kind # "open" /\ UNCHANGED openedDialog
  BY <1>1 DEF TakeTask, outside, screen
<1>3. tasks \in Seq(Task) /\ t \in Task
  BY <1>1, <1>2, ToSetOfTail DEF Always, Typed, TasksTyped
<1>4. t.kind = "open" => t = [kind |-> "open", of |-> t.of]
  BY <1>3 DEF Task
<1>5. \A v : LastOf("open", tasks, openedDialog, v) => LastOf("open", tasks', openedDialog', v)
  BY <1>1, <1>2, <1>3, <1>4, LastOfTail
<1>6. OnScreen' = OnScreen
  BY <1>2 DEF OnScreen
<1>7. QED
  BY <1>5, <1>6 DEF ScreenKnown

LEMMA NextShows ==
    ASSUME Always, ScreenKnown, [Next]_vars
    PROVE  ScreenKnown'
<1>1. TasksTyped /\ totalUnread \in Int
  BY DEF Always, Typed, CountsTyped
<1>2. CASE UNCHANGED vars \/ Arrive \/ RemoveSeen
  <2>1. /\ UNCHANGED <<openedDialog, activity>>
        /\ UNCHANGED tasks \/ tasks' = Append(tasks, ShowTask)
    BY <1>2 DEF vars, outside, screen, controller, marks, Arrive, RemoveSeen, SeenStart, SeenLoop,
       SeenGet, SeenDrop, SeenRemove, SeenUncount
  <2>2. ShowTask \in Task /\ ShowTask.kind # "open" /\ OnScreen' = OnScreen
    BY <2>1, TaskKinds DEF OnScreen
  <2>3. QED
    BY <1>1, <2>1, <2>2, ScreenFrame
<1>3. CASE HandleIncoming
  <2>1. /\ UNCHANGED <<openedDialog, tasks>>
        /\ \/ UNCHANGED activity
           \/ activity' = [activity EXCEPT !.readWhenResume = TRUE]
    BY <1>3 DEF HandleIncoming, controller, marks
  <2>2. OnScreen' = OnScreen
    BY <2>1 DEF OnScreen, Always, Typed, ScreenTyped
  <2>3. QED
    BY <1>1, <2>1, <2>2, ScreenFrame
<1>4. CASE Announce
  <2>1. PICK m \in Messages : m = ui.next
    BY <1>4, AnnounceDoes DEF Always
  <2>2. /\ UNCHANGED <<openedDialog, activity>>
        /\ UNCHANGED tasks \/ tasks' = Append(tasks, NewTask(m))
    BY <1>4, <2>1, AnnounceDoes DEF Always
  <2>3. NewTask(m) \in Task /\ NewTask(m).kind # "open" /\ OnScreen' = OnScreen
    BY <2>2, TaskKinds DEF OnScreen
  <2>4. QED
    BY <1>1, <2>2, <2>3, ScreenFrame
<1>5. CASE User \/ \E c \in Chats : FirstRead(c)
  BY <1>5, UserShows
<1>6. CASE TakeTask
  BY <1>6, TakeTaskShows
<1>7. CASE \/ AddToList \/ AddToDict \/ AddToCounts \/ ShowOrUpdate \/ Notify \/ ClearList
           \/ ClearDict \/ ClearCount
  <2>1. /\ UNCHANGED <<openedDialog, activity>>
        /\ \/ UNCHANGED tasks
           \/ tasks' = Append(tasks, BadgeTask(totalUnread))
           \/ tasks' = Append(tasks, BadgeTask(0))
    BY <1>7 DEF AddToList, AddToDict, AddToCounts, ShowOrUpdate, Notify, ClearList, ClearDict,
       ClearCount, outside, screen, controller, marks
  <2>2. /\ BadgeTask(totalUnread) \in Task /\ BadgeTask(totalUnread).kind # "open"
        /\ BadgeTask(0) \in Task /\ BadgeTask(0).kind # "open" /\ OnScreen' = OnScreen
    BY <1>1, <2>1, TaskKinds DEF OnScreen
  <2>3. QED
    BY <1>1, <2>1, <2>2, ScreenFrame
<1>8. QED
  BY <1>2, <1>3, <1>4, <1>5, <1>6, <1>7 DEF Next, MainThread, QueueThread

\* Only the announcement answers a message by the sound of the open chat.
LEMMA StepSoundsOnlyIfSeen ==
    ASSUME Always, ScreenKnown, [Next]_vars,
           NEW m \in Messages, outcome[m] # "sound", outcome'[m] = "sound"
    PROVE  ChatOf[m] = OnScreen \/ \E t \in ToSet(tasks) : t.kind = "open"
<1>1. CASE Announce
  <2>1. PICK k \in Messages : k = ui.next
    BY <1>1, AnnounceDoes DEF Always
  <2>2. \/ ChatOf[k] = openedDialog /\ outcome' = [outcome EXCEPT ![k] = "sound"]
        \/ UNCHANGED outcome
    BY <1>1, <2>1 DEF Announce
  <2>3. k = m /\ ChatOf[m] = openedDialog
    BY <2>1, <2>2 DEF Always, Typed, LogTyped
  <2>4. CASE \E i \in DOMAIN tasks : tasks[i].kind = "open"
    BY <2>4 DEF ToSet
  <2>5. CASE \A i \in DOMAIN tasks : tasks[i].kind # "open"
    BY <2>3, <2>5 DEF ScreenKnown, LastOf
  <2>6. QED
    BY <2>4, <2>5
<1>2. CASE TakeTask
  <2>1. PICK t \in Task :
            \/ UNCHANGED outcome
            \/ /\ t.kind = "new"
               /\ \/ outcome' = [outcome EXCEPT ![t.of] = "skipped"]
                  \/ outcome' = [outcome EXCEPT ![t.of] = "listed"]
    BY <1>2, TakeTaskDoes DEF Always
  <2>2. outcome'[m] # "sound"
    BY <2>1 DEF Always, Typed, LogTyped
  <2>3. QED
    BY <2>2
<1>3. CASE UNCHANGED outcome
  BY <1>3
<1>4. CASE UNCHANGED vars \/ Arrive \/ HandleIncoming \/ RemoveSeen
  BY <1>3, <1>4 DEF vars, log, Arrive, HandleIncoming, RemoveSeen, SeenStart, SeenLoop, SeenGet,
     SeenDrop, SeenRemove, SeenUncount
<1>5. CASE User \/ \E c \in Chats : FirstRead(c)
  BY <1>3, <1>5, UserTyped DEF Always, UserStep
<1>6. CASE \/ AddToList \/ AddToDict \/ AddToCounts \/ ShowOrUpdate \/ Notify \/ ClearList
           \/ ClearDict \/ ClearCount
  BY <1>3, <1>6 DEF AddToList, AddToDict, AddToCounts, ShowOrUpdate, Notify, ClearList, ClearDict,
     ClearCount, log
<1>7. QED
  BY <1>1, <1>2, <1>4, <1>5, <1>6 DEF Next, MainThread, QueueThread

\* SilentOnlyIfSeen always holds: a message that is answered by a sound only is of
\* the chat on the screen, or the controller is yet to be told of the screen.
THEOREM SoundsOnlyIfSeen == Spec => SilentOnlyIfSeen
<1> DEFINE
      A == \A m \in Messages : outcome[m] # "sound" /\ outcome'[m] = "sound" =>
               ChatOf[m] = OnScreen \/ \E t \in ToSet(tasks) : t.kind = "open"
<1>1. Init => ScreenKnown
  BY DEF Init, ScreenKnown, LastOf, OnScreen, NoActivity
<1>2. Always /\ ScreenKnown /\ [Next]_vars => ScreenKnown'
  BY NextShows
<1>3. Always /\ ScreenKnown /\ [Next]_vars => [A]_vars
  BY StepSoundsOnlyIfSeen
<1>4. QED
  BY <1>1, <1>2, <1>3, AlwaysHolds, PTL DEF Spec, SilentOnlyIfSeen

=============================================================================
