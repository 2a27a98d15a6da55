-------------------------- MODULE MCStreamGrammar --------------------------
(* StreamGrammar for every kind of provider, and for those it must not disturb. *)
EXTENDS StreamGrammar

AllProviders == Converse \cup OpenAICompatible
=============================================================================
