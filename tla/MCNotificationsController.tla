--------------------- MODULE MCNotificationsController ---------------------
(* Small instances of NotificationsController for TLC. *)
EXTENDS NotificationsController

MCChats == {1, 2}

\* The first and the third message are of one chat, and the third one, as mail
\* that was delayed on its way, is dated before the second.
MCChatOf == [m \in Messages |-> IF m = 2 THEN 2 ELSE 1]
MCDate   == [m \in Messages |-> IF m = 3 THEN 1 ELSE m]

MCOneChat   == {1}
MCChatOfOne == [m \in Messages |-> 1]

=============================================================================
