---------------------------- MODULE MCAttachStream ----------------------------
(* One session of a few chunks, a short bus and a short queue. *)
EXTENDS AttachStream
=============================================================================
