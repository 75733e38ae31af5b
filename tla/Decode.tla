-------------------------------- MODULE Decode --------------------------------
(***************************************************************************)
(* What a generation promises, however it is computed: one token after the   *)
(* other, each one the target model could have sampled after what came        *)
(* before it, until the end-of-sequence token, the limit or a failure.        *)
(* qwn_decoder_generate (c/qwanto_decode.c) is this loop.                     *)
(***************************************************************************)
EXTENDS Naturals, Sequences

CONSTANTS Tokens, Eos,
          Sampled(_, _),        \* what a model can sample after a history
          Prompts, Limits       \* the requests considered

VARIABLES model, prompt, max, out,
          ended         \* "no", "done", "failed"

decodeVars == <<model, prompt, max, out, ended>>

\* A request may be refused.
Begin == /\ ended # "no"
         /\ prompt' \in Prompts /\ max' \in Limits
         /\ out' = <<>> /\ ended' \in {"no", "failed"}
         /\ UNCHANGED model

NextToken == /\ ended = "no" /\ Len(out) < max
             /\ \E t \in Sampled(model, prompt \o out) \ {Eos} : out' = Append(out, t)
             /\ UNCHANGED <<model, prompt, max, ended>>

Stop == /\ ended = "no" /\ ended' = "done"
        /\ Len(out) = max \/ Eos \in Sampled(model, prompt \o out)
        /\ UNCHANGED <<model, prompt, max, out>>

Fail == /\ ended = "no" /\ ended' = "failed"
        /\ UNCHANGED <<model, prompt, max, out>>

DecodeNext == Begin \/ NextToken \/ Stop \/ Fail

DecodeSpec == out = <<>> /\ ended = "done" /\ [][DecodeNext]_decodeVars
=============================================================================
