---------------------------- MODULE MCImageRound ----------------------------
(* One round, the call that creates it and later recovers it, and a second  *)
(* one that polls it and cancels it.                                        *)
EXTENDS ImageRound
=============================================================================
