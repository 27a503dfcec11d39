--------------------------- MODULE MCTinkerEngine ---------------------------
(* Small instances of TinkerEngine for TLC.                                *)
EXTENDS TinkerEngine

(* The requests of a client that trains, saves and goes back.              *)
Training == {"create_model", "forward_backward", "optim_step",
             "save_weights", "load_weights", "unload_model"}

(* Two clients that only take steps.                                       *)
Steps == {"create_model", "forward_backward", "optim_step"}

(* A client that unloads its model and makes another.                      *)
Reuse == {"create_model", "forward_backward", "unload_model"}

(* A client that samples from the checkpoints of the model it trains.      *)
Sampling == {"create_model", "forward_backward", "forward", "optim_step",
             "save_weights_for_sampler", "sample"}

(* A client that steps, evaluates its model and samples from its           *)
(* checkpoints: forward passes wait and block as forward_backward does.    *)
Evaluation == {"create_model", "forward", "optim_step",
               "save_weights_for_sampler", "sample"}
=============================================================================
