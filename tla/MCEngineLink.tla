---------------------------- MODULE MCEngineLink ----------------------------
(* A prompt without a token, and a short one whose answer wants more tokens  *)
(* than the context has left.                                               *)
EXTENDS EngineLink

SmallRequests == {<<0, 1>>, <<1, 5>>}
=============================================================================
