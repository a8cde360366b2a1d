---------------------------- MODULE MCThreadPool ----------------------------
(* ThreadPool started with no thread, one or two, up to three threads. *)
EXTENDS ThreadPool

MCInitialThreads == 0..2
=============================================================================
