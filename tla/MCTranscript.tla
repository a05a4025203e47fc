---------------------------- MODULE MCTranscript -----------------------------
(* Transcript over two turns of two LLM calls, with a window that three or   *)
(* four messages fill.                                                       *)
EXTENDS Transcript
=============================================================================
