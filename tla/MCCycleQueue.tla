---------------------------- MODULE MCCycleQueue ----------------------------
(* Two commands, the two poll timers the extension starts (files and chat) *)
(* and the watcher.                                                        *)
EXTENDS CycleQueue, TLC
CONSTANTS filesTimer, chatTimer
MCTimerScope == (filesTimer :> "files") @@ (chatTimer :> "chat")
=============================================================================
