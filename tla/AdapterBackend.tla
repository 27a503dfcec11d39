--------------------------- MODULE AdapterBackend ---------------------------
(***************************************************************************)
(* The JAX backend of the Tinker engine as its callers see it: LoRA models *)
(* in the adapter slots of one shared parameter tree, and one accumulator  *)
(* of gradients per slot.                                                  *)
(*                                                                         *)
(* Weights are abstracted to their history: the sequence of optimizer      *)
(* steps applied since the adapter was initialised, each the set of        *)
(* forward_backward requests whose gradients it applied.                   *)
(***************************************************************************)
EXTENDS Naturals, Sequences, FiniteSets

CONSTANTS
  Models,           \* model ids
  MaxLoraAdapters,  \* slots of the backend; slot 0 is the base model's
  NativeSampling    \* inference_backend = "jax": sample from the slots

ASSUME BackendAssumption ==
  /\ MaxLoraAdapters \in Nat \ {0, 1}
  /\ NativeSampling \in BOOLEAN

VARIABLES
  slot,     \* models[m].adapter_index of each registered model
  weights,  \* history of the LoRA parameters in each slot
  grads,    \* accumulated_grads: the requests summed up in each slot
  loaded    \* models[m].loaded_checkpoint_id, 0 for none

backendVars == <<slot, weights, grads, loaded>>

Slots == 1..(MaxLoraAdapters - 1)

(* has_model                                                               *)
HasModel(m) == m \in DOMAIN slot

FreeSlots == Slots \ {slot[m] : m \in DOMAIN slot}

(* A process that has just started: no model, all accumulators zero.       *)
EmptyBackend ==
  /\ slot = << >>
  /\ weights = [s \in Slots |-> << >>]
  /\ grads = [s \in Slots |-> {}]
  /\ loaded = << >>

LoseBackend ==
  /\ slot' = << >>
  /\ weights' = [s \in Slots |-> << >>]
  /\ grads' = [s \in Slots |-> {}]
  /\ loaded' = << >>

(* create_model: the lowest free slot, freshly initialised parameters.     *)
CreateAdapter(m) ==
  LET s == CHOOSE s \in FreeSlots : \A t \in FreeSlots : s <= t IN
  /\ slot' = [n \in DOMAIN slot \cup {m} |-> IF n = m THEN s ELSE slot[n]]
  /\ weights' = [weights EXCEPT ![s] = << >>]
  /\ loaded' = [n \in DOMAIN slot \cup {m} |-> IF n = m THEN 0 ELSE loaded[n]]
  /\ UNCHANGED grads

(* Broken variant: the metadata of the model stay behind.                  *)
DeleteAdapterKeepsMetadata(m) ==
  /\ weights' = [weights EXCEPT ![slot[m]] = << >>]
  /\ slot' = [n \in DOMAIN slot \ {m} |-> slot[n]]
  /\ UNCHANGED <<grads, loaded>>

(* delete_model of each model of a set.                                    *)
DeleteAdapters(S) ==
  /\ weights' = [s \in Slots |-> IF \E m \in S : slot[m] = s THEN << >> ELSE weights[s]]
  /\ slot' = [n \in DOMAIN slot \ S |-> slot[n]]
  /\ loaded' = [n \in DOMAIN slot \ S |-> loaded[n]]
  /\ UNCHANGED grads

(* delete_model: the parameters are cleared and the model is forgotten.    *)
DeleteAdapter(m) == DeleteAdapters({m})

(* Broken variant: the sum of the gradients is not reset by the step.      *)
OptimStepKeepsGradients(m) ==
  /\ weights' = [weights EXCEPT ![slot[m]] = Append(@, grads[slot[m]])]
  /\ UNCHANGED <<slot, grads, loaded>>

(* optim_step: apply what was accumulated, if anything, and reset it.      *)
OptimStep(m) ==
  /\ weights' = [weights EXCEPT ![slot[m]] = Append(@, grads[slot[m]])]
  /\ grads' = [grads EXCEPT ![slot[m]] = {}]
  /\ UNCHANGED <<slot, loaded>>

(* Broken variant: gradients of the weights replaced are dropped, though    *)
(* their requests were answered.                                           *)
LoadCheckpointDropsGradients(m, history) ==
  /\ weights' = [weights EXCEPT ![slot[m]] = history]
  /\ grads' = [grads EXCEPT ![slot[m]] = {}]
  /\ UNCHANGED <<slot, loaded>>

(* load_checkpoint: parameters and optimizer state; gradients are kept.    *)
LoadCheckpoint(m, history) ==
  /\ weights' = [weights EXCEPT ![slot[m]] = history]
  /\ UNCHANGED <<slot, grads, loaded>>

(* forward_backward of requests, model[i] being the model of request i.    *)
Accumulate(requests, model) ==
  /\ grads' = [s \in Slots |-> grads[s] \cup
                 {i \in requests : HasModel(model[i]) /\ slot[model[i]] = s}]
  /\ UNCHANGED <<slot, weights, loaded>>

(* load_sampler_weights for one checkpoint of each model in want: those    *)
(* not marked as loaded are read into the slot of their model.             *)
LoadSamplerWeights(want, history) ==
  LET stale == {m \in DOMAIN want : loaded[m] # want[m]} IN
  /\ weights' = [s \in Slots |->
       IF \E m \in stale : slot[m] = s
       THEN history[want[CHOOSE m \in stale : slot[m] = s]]
       ELSE weights[s]]
  /\ loaded' = [m \in DOMAIN loaded |->
                  IF m \in stale THEN want[m] ELSE loaded[m]]
  /\ UNCHANGED <<slot, grads>>
=============================================================================
