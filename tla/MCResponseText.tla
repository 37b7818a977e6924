--------------------------- MODULE MCResponseText ---------------------------
(* Constant values for model checking ResponseText.                          *)
EXTENDS ResponseText

\* A credential and its Basic form, both longer than what replaces them.
MCSecrets == <<<<"s", "t">>, <<"u", "u", "s">>>>
MCMarker == <<"*">>
=============================================================================
