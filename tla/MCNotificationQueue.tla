------------------------- MODULE MCNotificationQueue -------------------------
(***************************************************************************)
(* One notification (they share nothing but the workers' time), two        *)
(* workers, three providers.  A job may throw once and stall twice and     *)
(* still be run again, so a slow worker can be at work beside the next.    *)
(***************************************************************************)
EXTENDS NotificationQueue
=============================================================================
