-------------------------- MODULE BroadcastProofs --------------------------
(***************************************************************************)
(* Proofs about Broadcast, for any workers, any choice of the processes    *)
(* that have a backend, and any number of commands and faults: the         *)
(* processes stay in step, and the engine is told of success only when     *)
(* every process with a backend had it.                                    *)
(*                                                                         *)
(* The argument: a process counts one acknowledgement per command whatever *)
(* path it takes, so the number it uses for the keys and the barrier is    *)
(* that of the command (Lockstep).  A barrier that passed is then one that *)
(* every process reached for this command, and the keys the coordinator    *)
(* reads hold what each process made of this command (AcksTell).           *)
(***************************************************************************)
EXTENDS Broadcast, TLAPS

States == {"listening", "calling", "waiting", "exited"}

(* What the protocol keeps; the slots are the backend's.                   *)
ProtocolTypeOK ==
  /\ at \in [Processes -> States]
  /\ sent \in 0..MaxCommands
  /\ outcome \in [Processes -> {"none", "ok", "failed", "unprepared"}]
  /\ sequence \in [Processes -> Nat]
  /\ acks \in [Sequences -> [Processes -> {"none", "ok", "error"}]]
  /\ arrived \in [Sequences -> SUBSET Processes]
  /\ barrier \in [Sequences -> {"open", "passed", "failed"}]
  /\ answer \in {"none", "ok", "failed"}

(* Every process is at the command broadcast last: it has acknowledged it, *)
(* or it is executing it and has acknowledged all those before.            *)
Lockstep ==
  \A p \in Processes :
    /\ IF at[p] = "calling" THEN sent = sequence[p] + 1 ELSE sequence[p] = sent
    /\ at[p] = "waiting" => sent > 0

ArrivedInOrder ==
  \A s \in Sequences : \A p \in arrived[s] : s < sequence[p]

PassedByAll ==
  \A s \in Sequences :
    barrier[s] = "passed" => \A p \in Processes : s < sequence[p]

(* An acknowledgement of the last command tells how it went.               *)
AcksTell ==
  \A s \in Sequences : sent = s + 1 =>
    \A p \in Processes :
      at[p] = "calling" \/ p \notin Active \/ acks[s][p] = "error"
                        \/ outcome[p] = "ok"

AnswerAfterAll ==
  answer = "ok" =>
    \A p \in Processes : at[p] # "calling" /\ (p \in Active => outcome[p] = "ok")

IInv ==
  /\ ProtocolTypeOK /\ Lockstep /\ ArrivedInOrder /\ PassedByAll /\ AcksTell
  /\ AnswerAfterAll

LEMMA SequencesNat ==
  /\ Sequences \subseteq Int
  /\ \A s \in Sequences : 0 <= s /\ s + 1 <= MaxCommands
  /\ \A n \in Nat : n + 1 <= MaxCommands => n \in Sequences
  BY BroadcastAssumption DEF BroadcastAssumption, Sequences

LEMMA InitHolds == Init => IInv
  <1> SUFFICES ASSUME Init PROVE IInv
    OBVIOUS
  <1>1. ProtocolTypeOK
    BY BroadcastAssumption DEF BroadcastAssumption, Init, ProtocolTypeOK, States
  <1>2. Lockstep
    BY DEF Init, Lockstep
  <1>3. ArrivedInOrder /\ PassedByAll /\ AnswerAfterAll
    BY DEF Init, ArrivedInOrder, PassedByAll, AnswerAfterAll
  <1>4. AcksTell
    BY SequencesNat DEF Init, AcksTell
  <1> QED
    BY <1>1, <1>2, <1>3, <1>4 DEF IInv

----------------------------------------------------------------------------
(* A process acknowledges the command it executes.                         *)
LEMMA Acknowledging ==
  ASSUME IInv, NEW p \in Processes, at[p] = "calling",
         NEW ack \in {"ok", "error"}, NEW result \in {"none", "ok", "failed", "unprepared"},
         Acknowledges(p, ack),
         at' = [at EXCEPT ![p] = "waiting"],
         outcome' = [outcome EXCEPT ![p] = result],
         p \in Active /\ ack = "ok" => result = "ok",
         UNCHANGED <<sent, answer>>
  PROVE  IInv'
  <1> DEFINE s == sequence[p]
  <1>1. /\ ProtocolTypeOK /\ s \in Nat /\ sent \in Nat /\ sent = s + 1
        /\ sent <= MaxCommands
    BY BroadcastAssumption DEF BroadcastAssumption, IInv, ProtocolTypeOK, Lockstep
  <1>2. s \in Sequences
    BY <1>1, SequencesNat
  <1>3. /\ sequence' = [sequence EXCEPT ![p] = s + 1]
        /\ acks' = [acks EXCEPT ![s][p] = ack]
        /\ arrived' = [arrived EXCEPT ![s] = @ \cup {p}]
        /\ barrier' = barrier
    BY DEF Acknowledges
  <1> HIDE DEF s
  <1>4. ProtocolTypeOK'
    <2>1. /\ sequence' \in [Processes -> Nat]
          /\ arrived' \in [Sequences -> SUBSET Processes]
          /\ at' \in [Processes -> States]
      BY <1>1, <1>3 DEF ProtocolTypeOK, States
    <2>2. acks' \in [Sequences -> [Processes -> {"none", "ok", "error"}]]
      BY <1>1, <1>2, <1>3 DEF ProtocolTypeOK
    <2> QED
      BY <1>1, <1>3, <2>1, <2>2 DEF ProtocolTypeOK
  <1>5. Lockstep'
    BY <1>1, <1>3 DEF IInv, ProtocolTypeOK, Lockstep
  <1>6. ArrivedInOrder'
    <2> SUFFICES ASSUME NEW t \in Sequences, NEW q \in arrived'[t]
                 PROVE  t < sequence'[q]
      BY DEF ArrivedInOrder
    <2>1. t \in Int /\ q \in Processes /\ sequence[q] \in Nat
      BY <1>4, <1>1, SequencesNat DEF ProtocolTypeOK
    <2>2. CASE q \in arrived[t]
      <3>1. t < sequence[q]
        BY <2>2 DEF IInv, ArrivedInOrder
      <3>2. sequence'[q] = sequence[q] \/ (q = p /\ sequence'[q] = s + 1)
        BY <1>1, <1>3, <2>1 DEF ProtocolTypeOK
      <3> QED
        BY <3>1, <3>2, <2>1, <1>1 DEF s
    <2>3. CASE q \notin arrived[t]
      <3>1. t = s /\ q = p
        BY <2>3, <1>1, <1>3 DEF ProtocolTypeOK
      <3>2. sequence'[q] = s + 1
        BY <3>1, <1>1, <1>3 DEF ProtocolTypeOK
      <3> QED
        BY <3>1, <3>2, <2>1
    <2> QED
      BY <2>2, <2>3
  <1>7. PassedByAll'
    <2> SUFFICES ASSUME NEW t \in Sequences, barrier[t] = "passed", NEW q \in Processes
                 PROVE  t < sequence'[q]
      BY <1>3 DEF PassedByAll
    <2>1. t < sequence[q] /\ t \in Int /\ sequence[q] \in Nat
      BY <1>1, SequencesNat DEF IInv, PassedByAll, ProtocolTypeOK
    <2>2. sequence'[q] = sequence[q] \/ (q = p /\ sequence'[q] = s + 1)
      BY <1>1, <1>3, <2>1 DEF ProtocolTypeOK
    <2> QED
      BY <2>1, <2>2, <1>1 DEF s
  <1>8. AcksTell'
    <2> SUFFICES ASSUME NEW t \in Sequences, sent = t + 1, NEW q \in Processes,
                        at'[q] # "calling", q \in Active, acks'[t][q] # "error"
                 PROVE  outcome'[q] = "ok"
      BY DEF AcksTell
    <2>1. t = s
      BY <1>1, SequencesNat
    <2>2. CASE q = p
      <3>1. acks'[s][p] = ack
        BY <1>1, <1>2, <1>3 DEF ProtocolTypeOK
      <3>2. ack = "ok"
        BY <2>1, <2>2, <3>1
      <3> QED
        BY <2>2, <3>2, <1>1 DEF ProtocolTypeOK
    <2>3. CASE q # p
      <3>1. acks'[t][q] = acks[t][q] /\ at'[q] = at[q] /\ outcome'[q] = outcome[q]
        BY <1>1, <1>2, <1>3, <2>1, <2>3 DEF ProtocolTypeOK
      <3> QED
        BY <3>1 DEF IInv, AcksTell
    <2> QED
      BY <2>2, <2>3
  <1>9. AnswerAfterAll'
    BY DEF IInv, AnswerAfterAll
  <1> QED
    BY <1>4, <1>5, <1>6, <1>7, <1>8, <1>9 DEF IInv

LEMMA StepHolds == IInv /\ [Next]_vars => IInv'
  <1> SUFFICES ASSUME IInv, [Next]_vars PROVE IInv'
    OBVIOUS
  <1>1. ASSUME NEW c \in Commands, BroadcastCommand(c) PROVE IInv'
    <2>1. /\ ProtocolTypeOK /\ sent \in Nat /\ MaxCommands \in Nat
          /\ sent' = sent + 1 /\ sent + 1 <= MaxCommands
          /\ \A p \in Processes : at[p] = "listening" /\ sequence[p] = sent
      BY <1>1, BroadcastAssumption
         DEF BroadcastAssumption, BroadcastCommand, IInv, ProtocolTypeOK, Lockstep
    <2>2. /\ UNCHANGED <<acks, arrived, barrier, sequence>> /\ answer' = "none"
          /\ at' = [p \in Processes |-> "calling"]
          /\ outcome' = [p \in Processes |-> "none"]
      BY <1>1 DEF BroadcastCommand, ackVars
    <2>3. ProtocolTypeOK'
      BY <2>1, <2>2 DEF ProtocolTypeOK, States
    <2>4. Lockstep' /\ AcksTell' /\ AnswerAfterAll'
      BY <2>1, <2>2 DEF Lockstep, AcksTell, AnswerAfterAll
    <2>5. ArrivedInOrder' /\ PassedByAll'
      BY <2>2 DEF IInv, ArrivedInOrder, PassedByAll
    <2> QED
      BY <2>3, <2>4, <2>5 DEF IInv
  <1>2. ASSUME NEW p \in Processes,
               IgnoreCommand(p) \/ Succeed(p) \/ Raise(p) \/ RaiseHere(p)
                                \/ PreparationFails(p)
        PROVE  IInv'
    <2>1. CASE IgnoreCommand(p)
      <3>1. p \notin Active /\ Acknowledges(p, "ok") /\ outcome[p] \in
              {"none", "ok", "failed", "unprepared"}
            /\ outcome' = [outcome EXCEPT ![p] = outcome[p]]
        BY <2>1 DEF IgnoreCommand, InactiveAcknowledges, IInv, ProtocolTypeOK
      <3> QED
        BY <2>1, <3>1, Acknowledging DEF IgnoreCommand, InactiveAcknowledges
    <2>2. CASE Succeed(p)
      BY <2>2, Acknowledging DEF Succeed
    <2>3. CASE Raise(p)
      BY <2>3, Acknowledging DEF Raise
    <2>4. CASE RaiseHere(p)
      BY <2>4, Acknowledging DEF RaiseHere
    <2>5. CASE PreparationFails(p)
      BY <2>5, Acknowledging DEF PreparationFails
    <2> QED
      BY <1>2, <2>1, <2>2, <2>3, <2>4, <2>5
  <1>3. ASSUME NEW p \in Processes, WorkerContinues(p) PROVE IInv'
    <2>1. /\ UNCHANGED <<acks, arrived, barrier, sequence, sent, outcome, answer>>
          /\ at[p] = "waiting"
      BY <1>3 DEF WorkerContinues, ackVars
    <2>2. PICK next \in {"listening", "exited"} : at' = [at EXCEPT ![p] = next]
      BY <1>3 DEF WorkerContinues
    <2>3. \A q \in Processes : at'[q] = at[q] \/ (at'[q] # "calling" /\ at[q] # "calling")
      BY <2>1, <2>2 DEF IInv, ProtocolTypeOK
    <2>4. ProtocolTypeOK'
      BY <2>1, <2>2 DEF IInv, ProtocolTypeOK, States
    <2>5. Lockstep' /\ AcksTell' /\ AnswerAfterAll'
      BY <2>1, <2>3 DEF IInv, Lockstep, AcksTell, AnswerAfterAll
    <2>6. ArrivedInOrder' /\ PassedByAll'
      BY <2>1 DEF IInv, ArrivedInOrder, PassedByAll
    <2> QED
      BY <2>4, <2>5, <2>6 DEF IInv
  <1>4. ASSUME NEW s \in Sequences, BarrierPasses(s) PROVE IInv'
    <2>1. /\ UNCHANGED <<at, sent, outcome, acks, arrived, sequence, answer>>
          /\ arrived[s] = Processes /\ barrier' = [barrier EXCEPT ![s] = "passed"]
      BY <1>4 DEF BarrierPasses
    <2>2. ProtocolTypeOK'
      BY <2>1 DEF IInv, ProtocolTypeOK
    <2>3. Lockstep' /\ AcksTell' /\ AnswerAfterAll' /\ ArrivedInOrder'
      BY <2>1 DEF IInv, Lockstep, AcksTell, AnswerAfterAll, ArrivedInOrder
    <2>4. PassedByAll'
      BY <2>1 DEF IInv, ProtocolTypeOK, PassedByAll, ArrivedInOrder
    <2> QED
      BY <2>2, <2>3, <2>4 DEF IInv
  <1>5. ASSUME NEW s \in Sequences, BarrierTimesOut(s) PROVE IInv'
    <2>1. /\ UNCHANGED <<at, sent, outcome, acks, arrived, sequence, answer>>
          /\ barrier' = [barrier EXCEPT ![s] = "failed"]
      BY <1>5 DEF BarrierTimesOut
    <2>2. ProtocolTypeOK'
      BY <2>1 DEF IInv, ProtocolTypeOK
    <2>3. Lockstep' /\ AcksTell' /\ AnswerAfterAll' /\ ArrivedInOrder'
      BY <2>1 DEF IInv, Lockstep, AcksTell, AnswerAfterAll, ArrivedInOrder
    <2>4. PassedByAll'
      BY <2>1 DEF IInv, ProtocolTypeOK, PassedByAll
    <2> QED
      BY <2>2, <2>3, <2>4 DEF IInv
  <1>6. ASSUME AnswerEngine PROVE IInv'
    <2> DEFINE c == Coordinator
    <2>1. /\ UNCHANGED <<acks, arrived, barrier, sequence, sent, outcome>>
          /\ at[c] = "waiting" /\ barrier[Last(c)] # "open"
          /\ answer' = IF AllAcknowledged THEN "ok" ELSE "failed"
          /\ at' = [at EXCEPT ![c] = "listening"]
          /\ c \in Processes
      BY <1>6 DEF AnswerEngine, ackVars, Processes
    <2>2. \A q \in Processes : at'[q] = at[q] \/ (at'[q] # "calling" /\ at[q] # "calling")
      BY <2>1 DEF IInv, ProtocolTypeOK
    <2>3. ProtocolTypeOK'
      BY <2>1 DEF IInv, ProtocolTypeOK, States
    <2>4. Lockstep' /\ AcksTell' /\ ArrivedInOrder' /\ PassedByAll'
      BY <2>1, <2>2 DEF IInv, Lockstep, AcksTell, ArrivedInOrder, PassedByAll
    <2>5. ASSUME AllAcknowledged, NEW q \in Processes
          PROVE  at[q] # "calling" /\ (q \in Active => outcome[q] = "ok")
      <3>1. sequence[c] = sent /\ sent \in Nat /\ sent <= MaxCommands
        BY <2>1, BroadcastAssumption
           DEF BroadcastAssumption, IInv, ProtocolTypeOK, Lockstep
      <3>2. barrier[sent - 1] = "passed" /\ acks[sent - 1][q] # "error"
        BY <2>5, <3>1 DEF AllAcknowledged, Last
      <3>3. sent > 0
        BY <2>1 DEF IInv, Lockstep
      <3>4. sent - 1 \in Sequences /\ sent = (sent - 1) + 1 /\ sent - 1 < sent
        BY <3>1, <3>3, SequencesNat
      <3>5. at[q] # "calling"
        <4>1. sent - 1 < sequence[q] /\ sequence[q] \in Nat
          BY <3>2, <3>4 DEF IInv, PassedByAll, ProtocolTypeOK
        <4> QED
          BY <3>1, <4>1 DEF IInv, Lockstep
      <3> QED
        BY <3>2, <3>4, <3>5 DEF IInv, AcksTell
    <2>6. AnswerAfterAll'
      BY <2>1, <2>2, <2>5 DEF AnswerAfterAll
    <2> QED
      BY <2>3, <2>4, <2>6 DEF IInv
  <1>7. ASSUME NEW m \in Models, DeleteModel(m) PROVE IInv'
    BY <1>7 DEF DeleteModel, ackVars, IInv, ProtocolTypeOK, Lockstep, ArrivedInOrder,
                PassedByAll, AcksTell, AnswerAfterAll
  <1>8. CASE UNCHANGED vars
    BY <1>8 DEF vars, ackVars, IInv, ProtocolTypeOK, Lockstep, ArrivedInOrder,
                PassedByAll, AcksTell, AnswerAfterAll
  <1> QED
    BY <1>1, <1>2, <1>3, <1>4, <1>5, <1>6, <1>7, <1>8 DEF Next

----------------------------------------------------------------------------
(* Whatever a process made of a command, with or without a backend, it has *)
(* acknowledged as many commands as were broadcast once it is out of the   *)
(* call: the next command meets every process at the same number.          *)
THEOREM ProcessesInStep == Spec => []Lockstep
  <1>1. IInv => Lockstep
    BY DEF IInv
  <1> QED
    BY <1>1, InitHolds, StepHolds, PTL DEF Spec

(* The engine is told that a command succeeded only when it did so at every*)
(* process with a backend.                                                 *)
THEOREM SuccessHolds == Spec => []SuccessIsEverywhere
  <1>1. IInv => SuccessIsEverywhere
    BY BroadcastAssumption
       DEF BroadcastAssumption, IInv, AnswerAfterAll, SuccessIsEverywhere
  <1> QED
    BY <1>1, InitHolds, StepHolds, PTL DEF Spec
=============================================================================
