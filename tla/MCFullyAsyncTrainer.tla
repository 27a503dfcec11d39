------------------------ MODULE MCFullyAsyncTrainer ------------------------
(* The instances of FullyAsyncTrainer that TLC checks.                     *)
EXTENDS FullyAsyncTrainer, TLC

WorkerSymmetry == Permutations(Workers)

(* max_ckpts_to_keep = -1, the default: no checkpoint is removed.          *)
KeepAll == -1

(* max_training_steps of each launch: none, one and then none, or a limit  *)
(* of five steps that only the last launch is given.                       *)
NoLimit == [launch \in 0..MaxRestarts |-> 0]
OneStepThenNoLimit == [launch \in 0..MaxRestarts |-> IF launch = 0 THEN 1 ELSE 0]
FiveStepsAtLast == [launch \in 0..MaxRestarts |-> IF launch = MaxRestarts THEN 5 ELSE 0]
=============================================================================
