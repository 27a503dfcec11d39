# SkyRL (TPU fork): models and proofs

TLA+ models of the parts of this repository whose correctness depends on the
order in which coroutines, processes and crashes interleave, with the TLC
instances that check them and TLAPS proofs of what matters most. Each module
is read from the Python source; the comment above each definition names the
function or the statement it stands for, and `PROJECT.json` gives its lines.

- [1. The system](#1-the-system)
- [2. Modules](#2-modules)
- [3. Runs](#3-runs)
- [4. Theorems](#4-theorems)
- [5. What the models found](#5-what-the-models-found)
- [6. What is left out](#6-what-is-left-out)
- [7. Running the checks](#7-running-the-checks)

## 1. The system

The repository trains language models by reinforcement learning. It holds a
Ray-based trainer (SkyRL-Train), a service with the Tinker API whose engine
trains many LoRA models on one backend, and the fleet tooling that runs both
on preemptible TPUs. Its components, the state each keeps and what is hard:

### Fully asynchronous trainer (`src/skyrl/train/fully_async_trainer.py`)

Generation workers and a training loop are coroutines of one asyncio thread.
Workers pull prompts from a shared dataloader (`_AsyncDataloader`), wait for a
slot of an admission controller (`_AsyncStalenessManager`), generate a group
and put it into a bounded buffer; the loop drains a mini-batch, trains, pushes
the weights to the inference engines, advances `global_step` and wakes the
workers. The state is the controller's counters, the consumed and filtered
UIDs, the buffer, the step and epoch, and a checkpoint folder written file by
file in a thread (`src/skyrl/train/trainer.py`, `trainer_utils.py`).

Hard: a worker reads `global_step` after one await and the buffer is checked
with `put_nowait` after another; the loop waits without a timeout; groups
dropped by `sample_full_batch` end epochs early; a crash may fall between any
two files; a resumed run rebuilds five pieces of state from three files.

Correct when: the buffer never overflows and no more than
`mini_batch_size * (max_staleness_steps + 1)` groups are ahead of training;
each prompt is trained once per epoch, across restarts; staleness is reported
truthfully; epochs end with balanced counters; training ends.

### Tinker service (`src/skyrl/tinker/`)

The API process (`api.py`) commits each request as a row of a futures table
and answers polls from it. The engine (`engine.py`, a subprocess) polls the
table, batches the forward passes of all models that no pending update
precedes (look-ahead scheduling), runs the other requests one by one and
writes the results. Checkpoints have rows of their own, so have sessions and
models. Sampling can bypass the engine: the API process starts an asyncio task
per row that calls an inference server, and `dispatch.py` keeps a registry of
these tasks and a watchdog that re-dispatches or fails the rows whose task
died, hangs or was lost with an earlier process.

Hard: eight SELECTs without a transaction make up one view of the queue;
results are written after a whole group has run; batches fail as a whole; an
answer can arrive after the watchdog gave up on it; a sweep decides from what
it read several awaits before; the process restarts with rows pending.

Correct when: each model goes through the history of its own requests in
order; every request is answered once, and the answer never changes; a
checkpoint that is reported exists; the watchdog never cancels or doubles an
attempt that is well.

### Backends (`src/skyrl/backends/`)

`JaxBackendImpl` holds one parameter tree with an adapter slot per LoRA model,
an optimizer per model and one gradient accumulator for all slots. On several
hosts `JaxBackend` broadcasts each command to worker processes and waits for
their acknowledgements (`rpc.py`): keys and a barrier of JAX's coordination
service, named by a sequence number every process counts for itself.
`tunix_backend.py` and `skyrl_train_backend.py` implement the same interface;
the latter drives the workers of SkyRL-Train through `worker_dispatch.py`, which
moves models on and off the GPUs and synchronises weights to vLLM.

Hard: slots are reused; the sampler shares the training slot; every process
must reach the same barriers whatever raises; placement is cached.

Correct when: a model has its own gradients and weights; a command succeeds
for the engine only if it did on every process; every command ends.

### Fleet (`src/tpu/`)

A run borrows the inference engines of another machine, the farm, under an
exclusive lease. `swarm/ray_train/borrowing.py` is the trainer's side: acquire,
attest, heartbeat, generate, drain, release, with ambiguous answers resolved by
a cancellation protocol. `serving.py` is the farm's ingress, one asyncio
process: the lease, the active work, an upload lock every handover and every
publication of an adapter takes, and a watchdog that cancels what an abandoned
lease left running. `grading_service.py` grades candidates for the tenant.
`pallas_arena/judge/` is a pull queue: a client submits candidates, judges lease
them, keep the lease by heartbeats and post verdicts, and a watchdog thread
posts one when a compile takes too long. `controller.py`, `host.py` and
`cache.py` start and supervise hosts.

Hard: lost and late answers, two clocks for one lease, leases that expire while
work goes on, handlers cancelled while they wait, a cancellation that overtakes
what it cancels, requeues, restarts of a memoryless queue.

Correct when: each candidate gets one verdict, of its own; the farm has one
tenant at a time and hands over only when it counts no work of the last; a
request runs with the weights it was admitted for; a borrower claims one farm at
a time and stops using a lease before the farm may give it away.

### Sequential and numerical parts

The synchronous PPO and SFT trainers, generators and environments, losses,
kernels, model definitions and the data tooling keep no concurrent state.

## 2. Modules

| Module | Models | Used by |
| --- | --- | --- |
| `FullyAsyncConfig` | the constants the trainer's constructor validates | the trainer's modules |
| `AsyncStalenessManager` | counters and methods of the admission controller | `FullyAsyncTrainer` |
| `AsyncDataloader` | the shared iterator, consumed and filtered UIDs | `FullyAsyncTrainer` |
| `CheckpointStore` | the checkpoint folders, the tracker file, clean-up | `FullyAsyncTrainer` |
| `FullyAsyncTrainer` | workers, training loop, saving, crash, resume; composes the three above | |
| `EpochTraining` | abstract: what a run promises about data | refined by `FullyAsyncTrainer` |
| `ExternalDispatch` | rows, tasks, registry, watchdog, exits of the API process | |
| `AdapterBackend` | slots, weights, gradients, loaded sampler checkpoint | `TinkerEngine` |
| `TinkerEngine` | API commits, the engine's queries, batches, results, exits | |
| `SerialTraining` | abstract: a trainer that takes each model's requests in order | refined by `TinkerEngine` |
| `Broadcast` | the command loop of several backend processes and its acknowledgements | |
| `JudgeQueue` | the arena's queue, its judges and its client | |
| `GradedOnce` | abstract: one verdict for each candidate | refined by `JudgeQueue` |
| `FarmLease` | the ingress of a farm: leases, drains, uploads, calls, grading, watchdog | |
| `OneTenant` | abstract: what a farm promises the runs that borrow it | refined by `FarmLease` |
| `Borrowing` | the borrower, and of each farm its lease as in `OneTenant` | |
| `MC*` | definitions for TLC's instances; where there is none the cfg instantiates the module itself | |
| `*Proofs` | theorems and their proofs, see section 4 | |

Definitions marked "Broken variant" in a comment are not part of the models.
Each is the neighbour it precedes with a plausible mistake in it, kept to show
that a property of a run notices the mistake.

### FullyAsyncTrainer

One action is the code between two awaits at which another coroutine can change
what is read next. `asyncio.Condition` methods of the manager are atomic: their
lock is never held across an await except `wait()`. `pc` is the place of the
loop, `worker[w]` that of a worker's coroutine. Saving is one action per file,
since it runs in a thread while workers go on and a crash may fall between the
files. `Crash` loses everything but `folders` and `latest`; `Resume` rebuilds
manager, dataloader, epoch and step as `load_checkpoints` does. Every assertion
of the loop, the workers and `load_checkpoints` is a branch to `Fail` with a
reason, so that which of them may fail is an invariant over `failure`;
`NoAssertionFails` is about those of the loop and the workers. A group is its
UID, the step stamped on it and (a history value) the weights that generated it;
the model is the number of steps and the set of `<<epoch, prompt>>` it was
trained on.

`AsyncStalenessManager` and `AsyncDataloader` hold one operator per method;
`CheckpointStore` the folders by the files they contain, the tracker file and
`cleanup_old_checkpoints`. `ConfigAssumption` is what the constructor and
`__init__` of the trainer assert of the configuration, so the theorems hold for
every configuration the trainer accepts.

### EpochTraining

What a user expects of the data: an epoch hands out disjoint batches, a crash
falls back to what a complete checkpoint holds, a next epoch starts from
scratch. The refinement mapping takes the trained set, the epoch and the
checkpointed pair from `FullyAsyncTrainer`; everything the workers, the buffer
and the manager do is a stutter.

### ExternalDispatch

A row's handler is a coroutine; an action is its code between two awaits.
Every row has a small set of task slots, so that an abandoned task and its
successor exist together. `inflight`, `started` and `attempts` are the
registry of `dispatch.py`; `sweep` is the record of one running sweep: which
row it is at, and what it read when it began (`rows`, `stale`), which the code
goes on using across its awaits. `Tick` advances all clocks, which saturate one
above the limit they are compared with; it waits for handlers that are ready
to run, i.e. the event loop is not blocked longer than `stale_after_sec`. A
write of a result may land although its caller was cancelled, and may be given
up after its three attempts (`WritesMayFail`). `StopProcess` loses everything
but the rows. With `MaxRedispatch = 0` (unlimited) attempts are not counted.

### AdapterBackend

`slot`, `weights`, `grads`, `loaded` are the four maps that decide what an
optimizer step does: which slot a model has, what was done to the LoRA weights
in it, whose gradients its accumulator holds, which sampler checkpoint is
marked as loaded. Weights are the sequence of optimizer steps applied, each the
set of requests whose gradients it used; numbers, ranks and devices are left
out, and so is the slot 0 of the base model. `LoadCheckpoint` keeps gradients
and the mark, `DeleteAdapter` keeps the accumulator, as the code does.

### TinkerEngine

A request id is a position in `requests`. The engine's `phase` and `at` walk the
eight SELECTs of an iteration (`forward_backward`, `forward`, sample and single
requests, with their barrier queries), then the groups in the order of
`process_pending_requests`. Each SELECT reads every row committed before it. A
batch runs in one step and is answered in the next; single requests run one by
one and are answered together. A save sets its checkpoint row to completed
within its own step, before its future is written. Any call to the backend but a
deletion may raise (`BackendMayFail`): a batch then fails as a whole, with any
part of its gradients added or of its checkpoints loaded, an optimizer step may
have been applied or not. What a call that raises has done to the backend is
taken to be one of these; a save writes its file and completes its row in one
step, and an exit does not fall in between. `executed`, `raced` and `sampled`
are history variables: what was run and not undone by an exit, what was
committed between the first and the last SELECT of an iteration, and the weights
each sample was drawn with.

`CleanupStaleSessions` runs between two iterations. Which sessions are stale
then depends on heartbeats and clocks, so any set may be; a session has one
model, and `expired` names those whose session is over. A model of theirs that
is not loaded yet is only marked as unloaded, as in the code.

### SerialTraining

A trainer that takes the requests of a model one at a time: what is pending,
and for each model what its weights and gradients are. `TinkerEngine` maps its
slots to it, so that batching, skipping, failing, unloading and restarting have
to look like some order of single requests in which each model's requests keep
their places. Models may be dropped at any moment (`Drop`), as those of expired
sessions are.

### Broadcast

A process is `listening` (in `broadcast_one_to_all`), `calling` its backend,
`waiting` at the barrier of the acknowledgement, or `exited` (a worker whose
loop ended by an exception). The broadcast is a collective and one step, taken
when all are in it. `sequence`, `acks`, `arrived` and `barrier` are
`_RPC_ACK_SEQUENCE`, the keys and the barriers of the coordination service;
acknowledging and entering the barrier are one step, as nothing else can happen
to the process in between. A failed barrier stays failed for those who come
later. Of a backend call the model keeps whether it raised and which adapter
slots the process then uses. A call is taken to return: one process that fails
before a collective inside the call, while the others enter it, would hang them
there, and no acknowledgement helps. `delete_model` changes process 0 alone, as
`JaxBackend` inherits it. Left out: `__shutdown__`, which nothing sends, and the
handshake before the loop.

### JudgeQueue and GradedOnce

Every handler of the queue holds its lock and is one step. The deque is kept as
it is in the code, with pointers to items that are done meanwhile, which
`get_work` drops when it meets them. A call may fail before or after it was
served, and a verdict whose call timed out is kept in `posts` and served at any
later time. A judge is the lease it grades under, `overrun` the candidate whose
compile its watchdog gave up: the poster that thread uses is read after the
verdict was written, so it may be that of the next item. A restart loses the
deque and all items; their ids are then `unknown`, which the client answers by
submitting again and the judges by 404. Two things are modelled as the code does
them, not as it says: expired items are put back one by one at the head, which
leaves the youngest in front (the comment at `queue.py:108` says they go to the
front in their order), and a `wait()` whose resubmission fails raises
(`client.py:78`). A grade that hangs while its heartbeats go on keeps its lease
for ever: grading is assumed to return.

`GradedOnce` is the caller's view: an answer per candidate, which does not
change, until it stops waiting.

### FarmLease and OneTenant

A step is what a handler does between two awaits. `leaseVars` are the ingress's
lease and its `releasing`, expiry and published adapter; `lock` says who holds
the upload lock and how far it is. A handler of an acquire, a cancellation or a
release takes the lock, closes admission, waits until nothing is active and
changes the lease; at each of these awaits it may be cut because its caller
disconnected. An upload drains, loads engine by engine (and may fail in between,
which leaves admission closed) and publishes. A call keeps what it was admitted
under and what the engine executes it with; `Active` counts it until
`finish_admitted` is over. The watchdog notices an expired or releasing lease
with work, cancels its tasks, then engine by engine what these execute, and
quarantines the farm if that does not help. A cancelled task leaves the counter
in its `finally`, whether or not its engine goes on: the call is then
`abandoned` until the engine stops by itself or is told to. `cancel_inflight`
may miss it, as it stops only what was posted to vLLM, or fail, which is only
logged: `WatchCancelsEngine` stops any subset of an engine's calls. Time is the
flag `expired`. Left out: tokenisation, scheduling over engines, restriction of
engines, `lease_status`, acquires without an `acquire_id`, limits and reaping of
the registries, and grading entries that wait for a worker; a renewal only moves
the time of expiry and is no step.

`OneTenant` maps to it by the lease in force and whether it is over, the leases
of the work the farm counts (active calls, and an upload from its drain on), the
leases of abandoned calls (`leftover`), the acquires that were granted, and the
cancellations answered. Its promise is about counted work: none but the tenant
has any, none is added once its lease is over, and neither a grant nor an
acknowledged cancellation happens while there is some. Work may turn into
leftover work only when its lease is over; but leftover work may then be executed
under any later lease, so a handover need not find the engines at rest. That it
should is what the comments in `serving.py` say; `HandsOverAtRest` states it and
is violated (section 5, item 11).

### Borrowing

`pc` is where the borrower is under its lock (`begin`, reconciliation,
acquisition over the farms, preparation, phase, release); heartbeats and
requests go on beside it, and `valid`, `lost` are what they go by. Of a farm
only `tenant`, `ttl` and the acquires under way are kept, with the farm's
handlers each one step. Time passes in ticks, the same for both sides: the code
uses monotonic clocks of either machine, which the model takes to run equally
fast, but nothing relates the moments at which they are read, and an
acknowledgement carries the age of its call. `uncertain` counts down
`_uncertain_until`, with `Never` for `inf`. Restarted farms (`outdated`) refuse
`cancel_acquire`, so that `pending` stays: that is the code's choice. A call is
served within its timeout or never, except an acquire, which may wait at the
farm for ever. The health grace, the deadline of a phase, pausing and resuming
are folded into losing the lease and into not sending. Left out: the probe
policy, farms without the acquire protocol, and `multi_borrowing.py`, which
holds a lease per farm.

## 3. Runs

| Run | Bounds | Question |
| --- | --- | --- |
| `FullyAsync_restarts` | 2 workers, 6 prompts, 2 epochs, 2 exits, checkpoints every 2 steps, 2 kept, the last launch ends by `max_training_steps` | exactly-once training across crashes, the admission invariant; refines `EpochTraining` |
| `FullyAsync_finishes` | 2 workers, 6 prompts, 2 epochs, staleness 0, groups may be dropped | termination, balanced books; refines `EpochTraining` |
| `ExternalDispatch_recovery` | 1 row, 2 task slots, 1 exit, lost writes, abandonment | the registry, one final result, liveness |
| `ExternalDispatch_sweep` | 2 rows, 2 task slots | a sequential sweep that acts on what it read earlier |
| `TinkerEngine_serial` | 1 model, 4 requests of training, 1 exit, a backend that may raise, sessions that expire | commit order, own gradients, checkpoints; refines `SerialTraining` |
| `TinkerEngine_answers` | 1 model, 4 requests of steps, forward passes and sampling, 1 exit, a backend that may raise | every request is answered |
| `JudgeQueue_leases` | 2 candidates, 2 judges, leases of 2 ticks, 1 fault, 1 restart, a compile budget | nothing lost or queued twice, verdicts stand and are the candidate's; refines `GradedOnce`, with its liveness |
| `JudgeQueue_wrong_verdict` | 2 candidates, 1 judge | violation: a watchdog's verdict of one candidate is posted for the next |
| `FarmLease_handover` | 2 acquires with their cancellations and releases, 2 uploads, 1 call, 1 grading, 1 engine | weights stay those admitted for, every acquire is answered; refines `OneTenant` (no handover over counted work) |
| `Borrowing_claims` | 2 farms, 2 acquires, leases of 2 ticks, timeouts of 1, 1 restart of a farm, another borrower | one farm claimed, leases backed, borrowing goes on |
| `Broadcast_commands` | 3 processes, one without a backend, 3 commands, 2 faults | success is success everywhere, every command ends |
| `Broadcast_deleted_slot` | the same without faults | violation: processes put one model into different slots |

Beside these runs the directory keeps cfg files of larger or of failing
instances, to be run by hand:

| File | Module | Shows |
| --- | --- | --- |
| `FullyAsync_admission.cfg` | `MCFullyAsyncTrainer` | passes: 3 workers, 7 prompts, staleness 1, groups dropped |
| `FullyAsync_torn_checkpoint.cfg` | `MCFullyAsyncTrainer` | the tracker names a checkpoint that cannot be loaded |
| `FullyAsync_max_steps_resume.cfg` | `MCFullyAsyncTrainer` | an assertion fails after continuing a limited launch |
| `TinkerEngine_leaked_slot.cfg` | `MCTinkerEngine` | the slot of a model whose session expired is never freed |
| `TinkerEngine_optim_overtakes.cfg` | `MCTinkerEngine` | an update overtakes the pass before it |
| `TinkerEngine_reused_slot.cfg` | `MCTinkerEngine` | a model starts with another's gradients |
| `TinkerEngine_stale_sampler.cfg` | `MCTinkerEngine` | a sample drawn from other weights than asked for |
| `Broadcast_worker_exits.cfg` | `MCBroadcast` | a worker leaves its loop when a barrier times out |
| `FarmLease_cancels_successor.cfg` | `FarmLease` | the watchdog disconnects work of the next lease |
| `FarmLease_handover_over_work.cfg` | `FarmLease` | a lease is granted while an engine executes work given up before |
| `FarmLease_grading_unfenced.cfg` | `FarmLease` | a grading entry is made for a lease that is over |

Why the bounds suffice. *Trainer*: batches of two and two workers make the
budget bind (two groups without staleness, four with a staleness of one), with
the worker that comes next waiting at capacity; six prompts are three steps of
an epoch, so checkpoints every two steps fall inside and at the end of epochs;
two epochs show what is carried over an epoch's end; two exits let the process
die again while it saves what it resumed; `FiveStepsAtLast` limits the last
launch only, since a limited launch that is continued is the violation shown
apart. *Dispatch*: two task slots are what a row can occupy at once (a cancelled
task that has not ended and its successor); two rows are the least for which a
sweep acts on stale reads; timeouts of one tick tell on time, due and overdue
apart. *Engine*: commits are allowed between any two statements, so three
requests reach every relative place of a pass, an update and a query; four add a
save with its load, or an unload with the rest of the batch. `MaxLoraAdapters =
2` is one slot. Sessions expire in `TinkerEngine_serial` only;
`TinkerEngine_answers` leaves the clean-up off (`CleanupEnabled`), the service's
own switch. *Arena*: two judges are what a requeued item needs to be graded
twice, two candidates what a verdict needs to be another's; leases of two ticks
tell a fresh lease, one about to expire and an expired one apart; a restart and
a fault meet in one run. *Farm*: two acquires are a tenant and its successor;
two uploads let an old and a new adapter meet a call, which may also be
abandoned by the watchdog and outlive its lease; a second call, of the next
tenant, is only in the proof. The engines are one in the run, so a fanout that
fails half-way is only in the proof, which holds for any number of them (the
instance with two engines, 2.5 million states, passes by hand without the
liveness property). *Borrowing*: a second farm and a second acquire are what a
wrong inference would claim; a lease of two ticks and a timeout of one make an
answer on time, late and too late to be of use. *Broadcast*: two workers and a
process without a backend are the three roles, three commands let a stale
acknowledgement meet a later command, three models reuse a deleted slot.

Fairness. *Trainer*: the loop and each worker are tasks of a running event loop,
hence weak fairness of their actions; `generate()` is assumed to return, as the
code has no timeout there. *Dispatch*: weak fairness of steps of the event loop,
strong fairness of a database write (each attempt may fail, not all of them
forever). The clock is fair, and process exits are bounded. *Engine*: weak
fairness of the loop and of the restart: `monitor_engine` in `api.py` ends the
API process when the engine dies, and whatever supervises that process starts it
again. Nothing makes a client send a request, a crash happen or a backend fail.
*Arena*: grading returns, the client's loop and the judges go on, time passes,
and faults are bounded by `MaxFaults`; a client with a deadline may stop at any
time. *Farm*: handlers and the watchdog are tasks of an event loop.
`AcquireLocks` is strongly fair: `asyncio.Lock` serves its waiters in order, so
an acquire that waits gets the lock although others take it in between. No lease
is renewed for ever, but a call need never end: what the watchdog is for; and an
engine need never stop: the drain does not wait for it. *Borrowing*: time
passes, `begin` and `end` are called again and again, and a farm that is asked
to cancel again and again does so once and is heard (strong fairness of
`FarmCancels` and `Reconciled`). *Broadcast*: calls return and the coordination
service works, a barrier passing or timing out.

`CHECK_DEADLOCK FALSE` stands where the system comes to rest: the run of
`FullyAsync_finishes` ends and nothing restarts it, and `FarmLease`, `Borrowing`
and `Broadcast` stop when the acquires, uploads or commands of the bounds are
used up. Workers and task slots are interchangeable, and
declared symmetric in runs without liveness properties.

## 4. Theorems

Proved with TLAPS for all values of the constants that satisfy the named
assumptions.

`FullyAsyncProofs` (from `ConfigAssumption`):

- `AdmissionCorrect` proves `AdmissionInv`. That no more than
  `mini_batch_size * (max_staleness_steps + 1)` groups are in flight is not
  inductive: the guard of `acquire_submission_slot` looks at counters only, so
  these have to be tied to the groups (`StatMatchesGroups`: running is what
  workers generate, accepted is what is buffered, collected and trained, up to
  the early-ended epochs). The tie breaks at the epoch's end unless the loop's
  step, the manager's `current_global_step` and the epoch agree
  (`StepsAgree`), workers of an older epoch are gone (`WorkersInEpoch`), and an
  exit leaves nothing in memory (`NothingInMemory`); `SaveReturns` says where a
  save came from.
- `TypeCorrect`, `InFlightBounded` and `BufferNeverFullHolds` follow from it.
  The last is the assertion of the code that `put_nowait` never meets a full
  buffer.
- `SubmittedBalancedHolds`, for configurations without `max_training_steps`
  (`NoLimit`): `StopAtMaxSteps` gives slots back in `running` and leaves
  `submitted` as it was, so with a limit the equation fails in the process that
  saves its last checkpoint (`BalanceInv` says that it fails there only).
- `FreshCorrect` proves `FreshInv`, and from it `StalenessNotUnderstatedHolds`
  and `SynchronousWhenZeroHolds`. A worker reads `global_step` between the sync
  of the weights and the increment of the step, so the steps since a group's
  stamp are compared with the updates it missed counting the step under way
  (`Ahead`), and the engines' weights must be known to lag behind the policy
  between training and the sync only (`SamplerInv`). Without a staleness budget
  the capacity leaves no group in flight when the weights change.

`PromptProofs` (on top of `AdmissionInv`, from `ConfigAssumption`):

- `PromptsCorrect` proves `PromptInv`. `EachPromptOnce` alone is not inductive:
  the next draw is new only because whatever is held or delivered was drawn
  before (at most `cursor`). What workers hold is told apart by the worker
  (`HeldInv`), what is delivered is distinct and not yet marked
  (`DeliveredInv`), and a batch exists only while it is collected
  (`CollectInv`), so an iterator that starts over for an epoch finds nothing
  left in memory. `CountInv` ties the prompts trained on to the steps of the
  epoch: whole steps when an epoch begins or is resumed, one more between
  training and the advance.
- `EachPromptOnceHolds` follows, and `AssertionsHoldAlways`: the buffer never
  runs full, `mark_consumed_uids` and `mark_filtered_uids` never meet a marked
  uid, and the trained-count assertion never fails.
- *Saves.* `LatestOnlyGrowsHolds` needs that the tracker names no step still to
  come (`OrderInv`) and holds always. `SavesInOrder` needs more: that every
  complete folder is at or behind the tracker, a step to be saved is ahead of
  it, and a folder left torn at that step gets the weights of the present before
  its books (`SaveOrder`). This is so without `sample_full_batch` only.
- *Data.* A step does one of a few things to the weights and the books: nothing,
  lose them, begin, resume, train, drop prompts, or end an epoch (`DataSteps`
  proves that there is no other). `DataCorrect` then proves with one case each
  that weights and books agree in memory and in every complete folder
  (`DataInv`), and `TrainedOnceHolds` follows, under `Resumable`: saves are of
  new steps (`SavesOnce`: no `sample_full_batch`, or no checkpoints), or nothing
  is resumed. Without it TLC finds `TrainedOnce` violated: an epoch that ends
  early does not advance `global_step`, the next save of that step puts new
  weights into the complete folder, and a process that exits before it has
  replaced the books is resumed from both.
- *Epochs.* `DrawnCorrect`: no prompt is lost between the iterator and the books
  (`DrawnInv`). `PaceCorrect`: `global_step` is never ahead of the prompts that
  the books account for, in memory and in every folder that a launch may load
  (`PaceInv`, about steps and books alone: it survives the overwriting of
  weights). `EpochsUsedUp` follows: whether the loop comes to the end of its
  range or finds all generators done, nothing of the epoch is left. Hence
  `NoAssertionFailsHolds`: the fourth assertion, on leftovers at the end of an
  epoch, never fails either. (That `load_checkpoints` finds its files is not
  claimed: section 5, item 3.) All of this is for configurations in which
  `max_training_steps` is set for the last launch at most (`LimitAtLastOnly`); a
  launch that goes on after such a stop is one step ahead, and the assertion
  does fail (section 5, item 4).
- `StepCountsTrainingHolds` (under both conditions) counts the steps of the
  weights instead. With `sample_full_batch` and restarts TLC finds it violated:
  the checkpoint of an epoch that ended early counts a step that was not made.
  `EpochsCoveredHolds` is for `SampleFullBatch = FALSE`, since filtered prompts
  are left out by design.
- `ImplementsEpochTrainingHolds` is the whole refinement, as `EpochTraining`
  promises safety only: `StepTrains` maps each kind of step to a step of
  `EpochTraining` or a stutter, a save to `Save`, crashes, exits and failed
  assertions to `Stop`. It is under `SavesOnce` and `LimitAtLastOnly`: what is
  overwritten in place is no state the run was in.

The two runs of the trainer satisfy the conditions of the theorems whose
properties they check.

`DispatchProofs` (from `DispatchAssumption`):

- `RegistryCorrect` proves `RegistryInv`: the registered task is the only one
  that is neither done nor cancelled (`OnlyRegisteredTasks`), a task is
  cancelled only if it was overdue (`HealthyNotCancelled`). Both need that a
  sweep's reading is still true when it gets to the row, which holds since
  handlers run before the clock advances (`HandlersFirst`), rows not committed
  have nothing (`AbsentUntouched`), a row being recovered has no other task
  (`RecoveredIdle`), and registry and task agree on the start of an attempt
  (`ClocksAgree`).
- `OnlyRegisteredTasksHolds`, `HealthyNotCancelledHolds`,
  `DispatchTypeCorrect` are read off it. `ResultNeverFlipsHolds` is an action
  property: no step changes a settled row. `RedispatchesBoundedHolds` needs
  that writes land (`WritesMayFail = FALSE`); section 5 says what happens when
  they do not.

`JudgeQueueProofs` (from `JudgeQueueAssumption`): `JudgeQueueInvariant` is
inductive. `QueuedOnce` alone is not: that a requeued item is not twice in the
deque needs that a leased item is in no place of it, and that the pointers that
are in it belong to queued or finished items (`FifoOf`). That a verdict is of
its candidate needs the same of every place a verdict can be in, the results,
the posts under way and the leases, by the candidate its id was submitted for.
`JudgeQueueType`, `NothingLostInQueue`, `ClientGetsOwnVerdict` and the action
property `VerdictsLast` follow. `RefinesGradedOnce` is the safety part of the
refinement: the queue, its restarts and its judges are stutters of `GradedOnce`,
and its liveness stays with TLC.

`BroadcastProofs` (from `BroadcastAssumption`): a process counts one
acknowledgement per command whichever path it takes, so the number it uses is
that of the command (`Lockstep`, `ProcessesInStep`). A barrier that passed was
then reached by all for this command, and the keys the coordinator reads tell
what each made of this command (`AcksTell`): `SuccessHolds`.

`FarmLeaseProofs` (from `FarmAssumption`): the lease changes hands only in a
handler that holds the upload lock and finds nothing active (`LockInv`), so
active work belongs to the lease in force (`WorkInv`), and it is cancelled, and
so given up, only when that lease is over (`CancelInv`); an engine takes an
adapter only while admission is closed and nothing is active, so what a lease
has published is in its engines (`WeightsInv`); an acquire whose cancellation
has begun is recorded so before it can be granted (`RecordInv`). From this
`FarmInvariant` follow `WeightsStay` and `FarmKeepsPromise`, which is the whole
refinement: `OneTenant` promises safety only, and of counted work. It does not
follow, and is false, that the engines are at rest when a lease begins.

`BorrowingProofs` (from `BorrowingAssumption`): what may claim a farm is the
acquire in `pending`, the lease, or a lease given up whose time at the farm,
renewals on their way included, is no longer than `uncertain` (`ClaimInv`); a
farm is asked only when none of the three is there. A lease's time at its farm
began after its call was sent, from which the borrower counts, so what is left
there and the age of the answer make up at least the lease time (`BackedInv`).
Both need where each acquire was sent and that it is granted at most once
(`GrantInv`) and what an answer not looked at yet says of the farm
(`ReplyInv`). `BorrowingInvariant`, `OneFarm` and `LeaseStaysBacked` follow.

`EngineProofs` (from `EngineAssumption`, `BackendAssumption`): `CommitOrder`
speaks of requests run; a request is batched on what eight SELECTs returned,
so `IInv` says of every query what its answer still means while commits go on.
Between a barrier query and the passes selected with it, the barrier of a model
is not behind any pending update that precedes a request not raced
(`FirstBarrierInv`), since what is committed in between is raced; hence no
pending update precedes a selected pass (`PassesInv`), a pass that was passed
over has an update before it (`SkippedInv`) and blocks what follows it
(`BlockedInv`), and all predecessors of a selected single request are found
with it (`SinglesInv`) and run before it (`PassesFirstInv`). What was run is
what is answered and what `results` still holds (`ExecutedInv`), so an exit
falls back to the order of the answered requests (`SettledOrder`). For
`CheckpointsHoldFiles` a save that has run must have completed its row before
its future is written (`SavesInv`). `EngineInvariant` proves `IInv`;
`EngineTypes`, which includes that no two models share a slot,
`EngineKeepsOrder` and `CheckpointsAreWritten` follow, for any number of models,
slots, requests and exits, with and without clean-up and native sampling.

`StepInvariant` adds what became of the passes. Weights are histories of steps,
and a step of any history, in a slot or in a file, holds answered requests only
(`AppliedInv`): when `optim_step` runs, the passes of its iteration have been
answered (`ResultsInv`), so what an exit makes run again is in no history that
survives it. A pass that is run was not run before (`UnrunInv`), so the
gradients kept in a slot are in no other and in no history (`GradsInv`).
`GradientsAppliedOnce` follows without any condition: slots reused or not, no
weights have the gradients of a request twice.

Whose gradients they are is another matter: a slot keeps them when its model is
unloaded (finding 6). `SlotsNotReused` says that this cannot happen, since there
is one model only, or neither `unload_model` nor clean-up; model ids are new
each time (`CreatedInv`). Then a slot that is given to a model is clear: a pass
in it would be of a model whose `create_model` has run, and so no other's
(`OwnInv`). `OwnGradientsHolds` follows, and with `NativeSampling = FALSE`, as
samplers write to the slots (section 5), `ImplementsSerialTrainingHolds`: every
action is one of `SerialTraining` on the slots read through `slot`, a batch is
`Ready` by `CommitOrder` of the next state, an exit is `Exit` by `ExecutedInv`.
Both conditions include the instance of `TinkerEngine_serial`; TLC shows with
`TinkerEngine_reused_slot` and `TinkerEngine_stale_sampler` what happens without
them.

Model-checked only: the liveness properties. Every safety property of a passing
run, and every refinement but the liveness of `GradedOnce`, is proved. Liveness
under fairness and `ENABLED` are beyond TLAPS, as is induction over data.

## 5. What the models found

The two violation runs quote a statement of the repository that the code does
not keep; `PROJECT.json` gives the quotation.

1. *A verdict for the wrong candidate* (`JudgeQueue_wrong_verdict`). The compile
   watchdog reads `terminal_poster` after it has written its verdict; the poll
   loop may have gone on to the next item, for which the verdict then counts.
2. *Slots that diverge* (`Broadcast_deleted_slot`). `create_model` is broadcast,
   `delete_model` is not. After a deletion the lowest free slot differs between
   process 0 and the workers, and one command runs with different adapters. A
   `create_model` that fails on some processes only has the same effect.

The files kept beside the runs show nine more, each with TLC's counterexample:

3. *Torn checkpoint* (`FullyAsync_torn_checkpoint`).
   `latest_ckpt_global_step.txt`, to be written "last after all saves succeed",
   is written before `fully_async_state.pt`. An exit in between leaves a tracker
   naming a folder that `load_checkpoints` refuses.
4. *Resumed after `max_training_steps`* (`FullyAsync_max_steps_resume`). The
   final checkpoint is saved under a step already incremented; the next launch
   ends its epoch one step short and an assertion about leftovers fails.
5. *An update overtakes a pass* (`TinkerEngine_optim_overtakes`). A
   `forward_backward` and an `optim_step` committed between the SELECT of passes
   and the SELECT of single requests: the update runs in this iteration, the
   pass in the next.
6. *Gradients survive their model* (`TinkerEngine_reused_slot`). `delete_model`
   clears the slot's weights, not its accumulator; the next model in the slot
   applies them.
7. *A sampler checkpoint marked as loaded* (`TinkerEngine_stale_sampler`).
   Training the slot, or loading other weights into it, does not reset
   `loaded_checkpoint_id`; sampling the checkpoint again uses the trained
   weights.
8. *A slot that is never freed* (`TinkerEngine_leaked_slot`,
   `SlotsOfLiveSessions`). A session that expires while its `create_model`
   waits is marked as expired and its model as unloaded; the next iteration
   creates the model, and no clean-up looks at that session again. It is the
   leak for which `engine.py:527` falls back to `created_at`, by another way.
9. *A worker leaves its loop* (`Broadcast_worker_exits`, `WorkersStay`). A
   barrier that times out raises in `synchronize_rpc_result`; a worker without a
   backend, or one that could not prepare the command, does not catch it, and no
   later broadcast can complete.
10. *The watchdog disconnects a successor* (`FarmLease_cancels_successor`,
   `CancelsOwnWork`). It cancels engine by engine with awaits in between and
   does not look at the lease again; the engine disconnects whatever it runs.
   Likewise a grading entry can be made for a lease that ended while the body of
   its request was awaited (`FarmLease_grading_unfenced`, `GradingFenced`).
11. *A handover over work an engine still executes*
   (`FarmLease_handover_over_work`, `HandsOverAtRest`). `serving.py:421` says "Do
   not grant another owner while an engine might still execute abandoned work",
   `serving.py:564` that an acknowledged cancellation means that "any granted
   work" has drained, and `serving.py:1039` that a request that still runs must
   not "disappear from the drain count". When the watchdog cancels the tasks of
   an expired lease, `run()` drops `active` in its `finally`
   (`serving.py:1034`). Only then does `cancel_lease_work` ask the engines to
   stop, one after the other, and it only logs an engine that does not
   (`serving.py:387`). An acquire or a cancellation that waits for the drain goes
   on as soon as the counter is zero: the farm has a new tenant, or its old one
   is told that its work is over, while an engine executes it. The work left over
   shares the engine with the successor's and has no reader, so `WeightsFixed` is
   not about it.

Observed while modelling, with no run of their own. An epoch that ends early
does not advance `global_step`, so the last checkpoint of one epoch and a
later one can share a folder that is overwritten in place, and an exit there
loses both; the step of such a checkpoint also counts a training that did not
happen. `cancel` at `max_training_steps` leaves `submitted` one above the sum
of its parts. `_fail` in `dispatch.py` ignores whether its row was written and
forgets the attempts, so a row whose failure could not be written is dispatched
`max_redispatch` times anew. A row that never validates aborts the sweep at
that row, each time. A save of a model that is not loaded leaves its checkpoint
row pending, and clients see 425 for good. A batch of passes without data
returns no results and stays pending. A request that raises fails the batch of
every model. On the native path a sample overwrites the slot that is being
trained. A killed API
process leaves its engine running next to its successor's. A save that is run
again after an exit rewrites the file of a completed checkpoint in place
(`utils/storage.py:34`), so a second exit in the middle leaves a completed row
with a torn file. A payload that is missing
raises in a query and ends the engine. The second drain of `cancel_acquire` may
wait for the work of a successor. An acquire that waited through a quarantine
still sets the lease, harmlessly, since nothing is admitted. A borrower whose
farm restarts between its acquire and the answer keeps `pending` for good, as
the farm then refuses to cancel it.

## 6. What is left out

Each module's own omissions are in section 2. Not modelled at all:

- *Judge worker and Ray pool*. The isolation of kernels in subprocesses and
  their timing; the queue protocol of a judge is in `JudgeQueue`.
- *Tunix and SkyRL-Train backends*. They stand where the JAX backend stands;
  their state is that of the frameworks below them.
- *Worker dispatch and weight synchronisation*. Placement of models on GPUs and
  the transfer of weights; the trainer's module sees a sync as generation
  paused and a version changed.
- *Controller, hosts and caches*. They start processes over SSH and Ray; their
  states are those of the cloud.
- *Several borrowed farms* (`multi_borrowing.py`). It keeps a borrower pinned
  to each farm, under the probe policy, and acquires one after the other until
  `external_pool_target_leases` are held. `Borrowing` is one such borrower's
  protocol under the other policy.
- *Synchronous trainers, generators, environments, agents*. Sequential.
- *Numerical code*. Losses, kernels, model definitions, tokenisers and weight
  conversion: floating-point data.

Object storage, Ray, SQLAlchemy, JAX's coordination service and vLLM are
external and appear as the effects their callers rely on. `PROJECT.json` lists
each component with its reason.

## 7. Running the checks

    tlc -config TinkerEngine_serial.cfg MCTinkerEngine
    tlc -config Borrowing_claims.cfg Borrowing
    tlapm DispatchProofs.tla

A run named `A_b` uses `A_b.cfg` and the module `MCA`, where there is one, or
`A` (`MCFullyAsyncTrainer` for `FullyAsync_*`). Each takes less than five
minutes on two cores, and the proofs from seconds to minutes per module.
