------------------------------ MODULE MCUFCTool ------------------------------
EXTENDS UFCTool

(* A signal may be delivered to any thread of the process. *)
AnyThread == Threads
=============================================================================
