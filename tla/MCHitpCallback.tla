---------------------------- MODULE MCHitpCallback ----------------------------
(***************************************************************************)
(* HitpCallback with two pauses and two requests, either of which may be a *)
(* second click, a retry, or come late, when the next pause waits.         *)
(***************************************************************************)
EXTENDS HitpCallback

CONSTANTS r1, r2
==============================================================================
