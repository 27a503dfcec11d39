-------------------------- MODULE FullyAsyncConfig --------------------------
(***************************************************************************)
(* The configuration of a fully asynchronous run, as the constructor of    *)
(* FullyAsyncRayPPOTrainer validates it.                                   *)
(***************************************************************************)
EXTENDS Integers, FiniteSets

CONSTANTS
  Workers,            (* the generation workers of one epoch               *)
  MiniBatchSize,      (* groups consumed by one training step              *)
  MaxStalenessSteps,  (* trainer.fully_async.max_staleness_steps           *)
  SampleFullBatch,    (* trainer.fully_async.sample_full_batch             *)
  DatasetLength,      (* len(train_dataloader): one prompt per batch       *)
  Epochs,             (* trainer.epochs                                    *)
  MaxRestarts,        (* model bound: relaunches of the process            *)
  MaxTrainingSteps,   (* launch |-> its trainer.max_training_steps, where  *)
                      (* 0 stands for None: an operator may raise it       *)
  CkptInterval,       (* trainer.ckpt_interval; 0 turns saving off         *)
  MaxCkptsToKeep,     (* trainer.max_ckpts_to_keep; negative keeps all     *)
  None                (* no group, no file                                 *)

ASSUME ConfigAssumption ==
  /\ IsFiniteSet(Workers)
  /\ MiniBatchSize \in Nat \ {0}
  /\ MaxStalenessSteps \in Nat
  /\ MiniBatchSize <= Cardinality(Workers)
  /\ Cardinality(Workers) <= MiniBatchSize * (MaxStalenessSteps + 1)
  /\ SampleFullBatch \in BOOLEAN
  /\ DatasetLength \in Nat
  /\ Epochs \in Nat
  /\ MaxRestarts \in Nat
  /\ MaxTrainingSteps \in [0..MaxRestarts -> Nat]
  /\ CkptInterval \in Nat
  /\ MaxCkptsToKeep \in Int

MaxConcurrentGenerationGroups == Cardinality(Workers)

NumStepsPerEpoch == DatasetLength \div MiniBatchSize
=============================================================================
