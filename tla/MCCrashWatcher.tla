---------------------------- MODULE MCCrashWatcher ----------------------------
(* One guest, a virtual machine or a container, under its watcher. *)
EXTENDS CrashWatcher
===============================================================================
