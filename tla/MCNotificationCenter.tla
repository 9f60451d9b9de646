------------------------ MODULE MCNotificationCenter ------------------------
(* Small instances of NotificationCenter for TLC. *)
EXTENDS NotificationCenter, TLC

HubSymmetry == Permutations(Observers) \cup Permutations(Events)

=============================================================================
