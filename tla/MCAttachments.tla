--------------------------- MODULE MCAttachments ---------------------------
(* A note with two attachments at most, on this device or elsewhere.       *)
EXTENDS Attachments, TLC

CONSTANTS h1, h2

Symmetry == Permutations({h1, h2})
=============================================================================
