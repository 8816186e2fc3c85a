--------------------------- MODULE MCTranscoderSetup ---------------------------
(* Inputs for the model checker: nothing, one kind, both in either order,  *)
(* something else in front, and a kind that comes twice.                   *)
EXTENDS TranscoderSetup

MCInputs == {<<>>, <<"video">>, <<"audio">>, <<"video", "audio">>,
             <<"data", "audio", "video">>, <<"video", "audio", "video">>}
=============================================================================
