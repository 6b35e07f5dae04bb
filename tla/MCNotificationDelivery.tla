----------------------- MODULE MCNotificationDelivery -----------------------
(***************************************************************************)
(* An instance of NotificationDelivery for TLC: two processes, a           *)
(* notification with several attempts and one with a single attempt.       *)
(***************************************************************************)
EXTENDS NotificationDelivery, TLC

CONSTANTS retried, once

\* The queue of NotificationsModule asks for attempts, the one that
\* PoAgingDaysModule registers for itself does not.
QueueAttempts == (retried :> 2) @@ (once :> 1)
=============================================================================
