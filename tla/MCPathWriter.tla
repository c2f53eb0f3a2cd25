---------------------------- MODULE MCPathWriter ----------------------------
(***************************************************************************)
(* The writer of one glue path, with names for its state that do not       *)
(* clash with those of its surroundings.                                   *)
(***************************************************************************)
CONSTANTS Senders, Depth, Attempts

VARIABLES queued, done, writer, sender, attempt, overtaken, open

Path == INSTANCE PathWriter

ASSUME PathWriterAssumption == Path!PathAssumption

(* The path writer drops the oldest frames, and counts what it drops       *)
(* (sched/pathwriter.go:52-71).                                            *)
TheOldestGo == Path!TheOldestGo
=============================================================================
