-------------------------------- MODULE MCAuth --------------------------------
(* Auth with the environment variable unset or naming the first session.   *)
EXTENDS Auth

Envs == {NoCookies, Of(1, Keys)}
==============================================================================
