---------------------------- MODULE MCMirrorStream ----------------------------
(* One session of two chunks, a short bus and a short queue.  What follows a *)
(* message dropped for want of room is not explored: no property speaks of   *)
(* it.                                                                       *)
EXTENDS MirrorStream

NothingDropped == "full" \notin spoiled
=============================================================================
