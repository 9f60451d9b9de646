SPECIFICATION Spec
CONSTANTS
    Chats <- MCChats
    MaxMsgs = 3
    ChatOf <- MCChatOf
    Date <- MCDate
    MaxActs = 2
INVARIANTS
    TypeOK
    ListsAgree
    BadgeSettles
    ShadeSettles
    CrashNeedsClearing
    ReadIsTakenOut
PROPERTIES
    RemovesOnlyRead
CHECK_DEADLOCK FALSE
