----------------------------- MODULE MCDaemon ------------------------------
(* Reloads that keep, shorten, extend and reorder the list of files,        *)
(* exchange one file, and name a file twice.  Five objects are what an      *)
(* update needs that replaces a list of three by one of two.  The pipe is   *)
(* larger than one drain, so that a reload can leave bytes behind.          *)
EXTENDS Daemon, TLC

CONSTANTS a, b, c, r1, r2, r3, r4, r5

MCFiles == {<<a>>, <<a, b>>, <<c, b>>, <<b, b>>, <<a, b, c>>}

\* The first file of the list is exchanged for another.
MCExchange == {<<a, b>>, <<c, b>>}

MCLiveFiles == {<<a>>, <<b>>, <<a, b>>}

RefSymmetry == Permutations(Ref)
============================================================================
