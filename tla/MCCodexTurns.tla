---------------------------- MODULE MCCodexTurns ----------------------------
(***************************************************************************)
(* CodexTurns on a few messages.  Kinds gives the order in which they are  *)
(* created and what each may be.                                           *)
(***************************************************************************)
EXTENDS CodexTurns

\* Two messages for the queue, and between them whatever else the technician does.  The
\* turns may be claimed and handed over in any order.
MCKinds == << {"queue"}, {"steer", "resume", "interrupt", "close"}, {"queue"} >>
=============================================================================
