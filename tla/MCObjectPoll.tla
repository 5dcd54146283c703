---------------------------- MODULE MCObjectPoll ----------------------------
(* Four objects, two of them with one log time, so that a page of two can   *)
(* end between equals; object 2 cannot be read.                             *)
EXTENDS ObjectPoll

MCLogTime == <<1, 1, 1, 3>>
=============================================================================
