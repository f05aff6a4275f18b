-------------------------- MODULE MCInotifyWatcher --------------------------
(* Two files at one path.                                                   *)
EXTENDS InotifyWatcher, TLC

CONSTANTS f1, f2

FileSymmetry == Permutations(File)
=============================================================================
