------------------------- MODULE MCVideoMediaRelay -------------------------
(* A short call and a long transcription of one owner, one at a time.       *)
EXTENDS VideoMediaRelay
CONSTANTS short, long, owner
MCOwnerOf(o) == owner
MCUnits(o) == 1
=============================================================================
