--------------------------- MODULE MCPromptStream ---------------------------
(***************************************************************************)
(* Instance of PromptStream for TLC; the constants are in the cfg file.    *)
(***************************************************************************)
EXTENDS PromptStream
=============================================================================
