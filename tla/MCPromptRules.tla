---------------------------- MODULE MCPromptRules ----------------------------
(* Small instances of PromptRules. *)
EXTENDS PromptRules
=============================================================================
