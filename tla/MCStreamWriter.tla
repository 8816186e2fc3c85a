---------------------------- MODULE MCStreamWriter ----------------------------
(* Frame rates of the source for the model checker: unknown (0/0), none,   *)
(* one frame a second, and one that is no whole number.                    *)
EXTENDS StreamWriter

MCRates == {<<0, 0>>, <<0, 1>>, <<1, 1>>, <<3, 2>>}
=============================================================================
