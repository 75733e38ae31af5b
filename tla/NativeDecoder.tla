---------------------------- MODULE NativeDecoder ----------------------------
(***************************************************************************)
(* The native decoder and the speculation on top of it, as qwnrun runs them:  *)
(* a behaviour is one of coming up, falling back and going down               *)
(* (DecoderDevice), of the KV caches of plain generations (DecoderKV), of     *)
(* speculative generations (Speculative), or of the projections any of them   *)
(* makes (Projections).  One process serves either plain or speculative       *)
(* generations (qwnrun.c:306-315), and what one part knows of another is       *)
(* constant while it serves: the sizes, and that opening succeeded.           *)
(***************************************************************************)
EXTENDS DecoderKV, Speculative, DecoderDevice, Projections

CONSTANTS Sides     \* looked at: "device", "caches", "speculation", "projections"

VARIABLES side

nativeVars == <<side, allVars, specVars, deviceVars, projectionVars>>

\* A part that is not looked at rests in one of its initial states.
Asleep ==
  /\ side # "caches" => level = CHOOSE l \in Levels : TRUE
  /\ side # "caches" => mode = CHOOSE m \in Modes : TRUE
  /\ side # "caches" => tensors = CHOOSE f \in Files : Opens(f)
  /\ side # "speculation" => model = CHOOSE m \in Models : TRUE
  /\ side # "speculation" => gamma = CHOOSE g \in Gammas : TRUE
  /\ side # "device" => backend = "cpu" /\ cache = "fp16"
  /\ side # "device" => shape = [hybrid |-> FALSE, mtp |-> FALSE, plain |-> {}]
  /\ side # "projections" => kernel = "scalar" /\ ~scratch.summed

NativeInit == side \in Sides /\ DInit /\ SInit /\ DeviceInit /\ ProjectionsInit /\ Asleep

NativeNext ==
  /\ UNCHANGED side
  /\ \/ side = "device" /\ DeviceNext /\ UNCHANGED <<allVars, specVars, projectionVars>>
     \/ side = "caches" /\ DNext /\ UNCHANGED <<specVars, deviceVars, projectionVars>>
     \/ side = "speculation" /\ SNext /\ UNCHANGED <<allVars, deviceVars, projectionVars>>
     \/ side = "projections" /\ ProjectionsNext /\ UNCHANGED <<allVars, specVars, deviceVars>>

NativeSpec == NativeInit /\ [][NativeNext]_nativeVars
=============================================================================
