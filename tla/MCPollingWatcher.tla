-------------------------- MODULE MCPollingWatcher --------------------------
(* Two files at one path, half seconds, and a clock that is set once.       *)
EXTENDS PollingWatcher

CONSTANTS f1, f2

Steps == {-1, 1}
=============================================================================
