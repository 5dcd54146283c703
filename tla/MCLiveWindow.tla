---------------------------- MODULE MCLiveWindow ----------------------------
(* Two-tick minutes.  Flow 1 and 2 share a minute and straddle a cursor,    *)
(* flow 3 starts in one minute and is logged in the next.                   *)
EXTENDS LiveWindow

MCStartAt == <<2, 3, 5>>
MCLoggedAt == <<2, 4, 6>>
=============================================================================
