-------------------------- MODULE CheckpointStore --------------------------
(***************************************************************************)
(* The checkpoint directory of a run: the global_step_<n> folders and the  *)
(* latest_ckpt_global_step.txt tracker, as RayPPOTrainer.save_checkpoints, *)
(* its fully-async override and cleanup_old_checkpoints write them, one    *)
(* file after the other and in place.                                      *)
(*                                                                         *)
(* A folder holds the weights (policy, critic, data.pt and                 *)
(* trainer_state.pt, written first) and fully_async_state.pt, written      *)
(* last.  Files are never fsynced or renamed, but one file is taken to be  *)
(* written at once: what matters here is which files a crash leaves.       *)
(***************************************************************************)
EXTENDS FullyAsyncConfig

VARIABLES
  folders,           (* step |-> [model, state], for each folder on disk   *)
  latest             (* latest_ckpt_global_step.txt, 0 if it is not there  *)

storeVars == <<folders, latest>>

StoreInit ==
  /\ folders = [s \in {} |-> None]
  /\ latest = 0

(* makedirs(exist_ok=True), then the weights over whatever the folder has. *)
WriteModel(step, weights) ==
  /\ folders' = [s \in DOMAIN folders \cup {step} |->
                   IF s # step THEN folders[s]
                   ELSE [model |-> weights,
                         state |-> IF step \in DOMAIN folders
                                   THEN folders[step].state ELSE None]]
  /\ UNCHANGED latest

WriteLatest(step) ==
  /\ latest' = step
  /\ UNCHANGED folders

(* The folders cleanup_old_checkpoints leaves: those of the highest steps. *)
Kept ==
  IF MaxCkptsToKeep < 0 THEN DOMAIN folders
  ELSE {s \in DOMAIN folders :
          Cardinality({t \in DOMAIN folders : t > s}) < MaxCkptsToKeep}

CleanupOldCheckpoints ==
  /\ folders' = [s \in Kept |-> folders[s]]
  /\ UNCHANGED latest

WriteFullyAsyncState(step, fullyAsyncState) ==
  /\ folders' = [folders EXCEPT ![step].state = fullyAsyncState]
  /\ UNCHANGED latest

(* validate_consistency_for_latest_checkpoint, then the existence checks   *)
(* of the two load_checkpoints.                                            *)
Loadable ==
  /\ \A s \in DOMAIN folders : s - latest <= CkptInterval
  /\ latest \in DOMAIN folders
  /\ folders[latest].state # None
=============================================================================
