--------------------------- MODULE MCBlockMethods ---------------------------
(* Two calls, and more output than fits in the pipe.                        *)
EXTENDS BlockMethods

CONSTANTS a1, a2
=============================================================================
