---------------------------- MODULE MCResultCache ----------------------------
(* Three threads, so that two can wait for a third; two clears, so that    *)
(* three generations can be alive.  Entries of two keys share nothing but  *)
(* the counters of their generation, which three threads put to the test.  *)
EXTENDS ResultCache
=============================================================================
