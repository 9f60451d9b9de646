SPECIFICATION FairSpec
CONSTANTS
    Chats <- MCOneChat
    MaxMsgs = 2
    ChatOf <- MCChatOfOne
    Date <- MCDate
    MaxActs = 3
PROPERTIES
    SilentOnlyIfSeen
    EveryMessageIsHandled
CHECK_DEADLOCK FALSE
