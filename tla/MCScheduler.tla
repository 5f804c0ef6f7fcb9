---------------------------- MODULE MCScheduler ----------------------------
(* Scheduler with signals that the worker thread blocks (SIGTERM: Poco's threads *)
(* block it), and with signals that may interrupt either thread (SIGINT).        *)
EXTENDS Scheduler

MCMainOnly == {"main"}
MCBoth == {"main", "worker"}
=============================================================================
