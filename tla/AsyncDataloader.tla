-------------------------- MODULE AsyncDataloader --------------------------
(***************************************************************************)
(* _AsyncDataloader: the prompts of one epoch, handed out one at a time.   *)
(*                                                                         *)
(* A prompt is its position in the permutation the StatefulDataLoader      *)
(* replays: the loader is always rewound to the state captured at          *)
(* construction, so every epoch draws 1, 2, ... in the same order.         *)
(***************************************************************************)
EXTENDS FullyAsyncConfig

VARIABLES
  cursor,            (* how many prompts the iterator has produced         *)
  consumedUids,      (* _consumed_data_uids: trained or filtered           *)
  filteredUids       (* _filtered_data_uids                                *)

dataloaderVars == <<cursor, consumedUids, filteredUids>>

(* _effective_dataloader_length                                            *)
EffectiveLength == NumStepsPerEpoch * MiniBatchSize

Uids == 1..EffectiveLength

DataloaderTypeOK ==
  /\ cursor \in 0..EffectiveLength
  /\ consumedUids \in SUBSET Uids
  /\ filteredUids \in SUBSET consumedUids

(* What the iterator can still return: the rest, without consumed prompts. *)
Undrawn == {u \in Uids : u > cursor /\ u \notin consumedUids}

NumTrained == Cardinality(consumedUids) - Cardinality(filteredUids)

(* Broken variant: two pulls see the same position of the iterator.        *)
DrawPromptUnlocked(u) ==
  /\ u \in Undrawn
  /\ \A v \in Undrawn : u <= v
  /\ cursor' \in {cursor, u}
  /\ UNCHANGED <<consumedUids, filteredUids>>

(* get_next_non_consumed_data returning the prompt u, under the lock.      *)
DrawPrompt(u) ==
  /\ u \in Undrawn
  /\ \A v \in Undrawn : u <= v
  /\ cursor' = u
  /\ UNCHANGED <<consumedUids, filteredUids>>

(* get_next_non_consumed_data returning None: the iterator ran to the end. *)
DrawNothing ==
  /\ Undrawn = {}
  /\ cursor' = EffectiveLength
  /\ UNCHANGED <<consumedUids, filteredUids>>

MarkConsumed(uids) ==
  /\ consumedUids' = consumedUids \cup uids
  /\ UNCHANGED <<cursor, filteredUids>>

MarkFiltered(uids) ==
  /\ consumedUids' = consumedUids \cup uids
  /\ filteredUids' = filteredUids \cup uids
  /\ UNCHANGED cursor

(* Broken variant: the consumed prompts are forgotten.                     *)
LoadDataloaderStateForgets(consumed, dropped) ==
  /\ cursor' = 0
  /\ consumedUids' = {}
  /\ filteredUids' = {}

(* A rewound loader: load_state_from_checkpoint and reset_at_epoch_end.    *)
LoadDataloaderState(consumed, dropped) ==
  /\ cursor' = 0
  /\ consumedUids' = consumed
  /\ filteredUids' = dropped
=============================================================================
