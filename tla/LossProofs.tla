----------------------------- MODULE LossProofs -----------------------------
(***************************************************************************)
(* The loss report: Loss() reads five maps one after the other while       *)
(* programs go on counting, and still every correlation loss it reports    *)
(* has a reported cause, for any number of losses at any moment.           *)
(***************************************************************************)
EXTENDS LedgerProofs

\* What Loss() has read of a counter, or will read at least.
Seen(i, counter) == IF Len(snapshot) >= i THEN snapshot[i] ELSE drops[counter]

\* Where main stands before Loss() reads its first map.
BeforeLoss == Running \ { "loss", "final" }

\* The inductive invariant: the causes seen so far and still to be seen cover the
\* aggregate from the moment it has been read.
LossInv ==
    /\ drops \in [ Source!Counters -> Nat ]
    /\ drops["correlation_drops"] <= Source!CausesCounted
    /\ pc \in BeforeLoss => snapshot = << >>
    /\ pc \in { "loss", "final" } =>
           /\ \A i \in 1..Len(snapshot) : snapshot[i] \in Nat
           /\ Len(snapshot) >= 2 =>
                  snapshot[2] <= Seen(3, "path_read_drops") + Seen(4, "map_update_drops")
                                     + Seen(5, "cgroup_mismatch_drops")
    /\ pc = "final" => Len(snapshot) = 5
    /\ CausesCoverCorrelation

-----------------------------------------------------------------------------
\* The counters, one per map.
LEMMA CounterNames ==
    Source!Counters = { "ringbuf_drops", "correlation_drops", "path_read_drops",
                        "map_update_drops", "cgroup_mismatch_drops" }
  BY DEF Source!Counters, Source!Causes

\* Counters start at zero with the collection and never decrease afterwards; the
\* aggregate grows only behind its causes.
LEMMA DropSteps ==
    ASSUME drops \in [ Source!Counters -> Nat ],
           drops["correlation_drops"] <= Source!CausesCounted, [Next]_vars
    PROVE  /\ drops' \in [ Source!Counters -> Nat ]
           /\ drops'["correlation_drops"] <= Source!CausesCounted'
           /\ pc = "open" \/ \A c \in Source!Counters : drops'[c] >= drops[c]
  <1> USE DEF Source!CausesCounted
  <1>0. \A c \in Source!Counters : drops[c] \in Nat
    OBVIOUS
  <1>1. CASE drops' = drops
    BY <1>0, <1>1
  <1>2. CASE OpenSensor
    BY <1>2, CounterNames DEF OpenSensor, Source!Reset
  <1>3. ASSUME NEW c \in Source!Counters \ {"correlation_drops"},
               drops' = [ drops EXCEPT ![c] = @ + 1 ]
        PROVE  /\ drops' \in [ Source!Counters -> Nat ]
               /\ drops'["correlation_drops"] <= Source!CausesCounted'
               /\ \A d \in Source!Counters : drops'[d] >= drops[d]
    <2>1. /\ drops' \in [ Source!Counters -> Nat ]
          /\ drops'[c] = drops[c] + 1
          /\ \A d \in Source!Counters \ {c} : drops'[d] = drops[d]
      BY <1>3
    <2> QED
      BY <1>0, <1>3, <2>1, CounterNames
  <1>4. CASE Source!CorrelationDrop
    <2>1. /\ drops' \in [ Source!Counters -> Nat ]
          /\ drops["correlation_drops"] < drops["path_read_drops"] + drops["map_update_drops"]
                                              + drops["cgroup_mismatch_drops"]
          /\ drops'["correlation_drops"] = drops["correlation_drops"] + 1
          /\ \A d \in Source!Counters \ {"correlation_drops"} : drops'[d] = drops[d]
      BY <1>4, CounterNames DEF Source!CorrelationDrop
    <2> QED
      BY <1>0, <2>1, CounterNames
  <1>5. CASE KernelReserve \/ KernelCauseDrop
    <2>1. \/ drops' = drops
          \/ \E c \in Source!Counters \ {"correlation_drops"} : drops' = [ drops EXCEPT ![c] = @ + 1 ]
      BY <1>5, CounterNames DEF KernelReserve, KernelCauseDrop, Source!Reserve, Source!DropFull,
                                Source!CauseDrop, Source!Causes
    <2> QED
      BY <1>1, <1>3, <2>1
  <1>6. CASE KernelSubmit \/ ReadMalformed
    BY <1>1, <1>6 DEF KernelSubmit, ReadMalformed, Source!Submit, Source!Consume
  <1>7. CASE KernelCorrelationDrop
    BY <1>4, <1>7 DEF KernelCorrelationDrop
  <1> QED
    BY <1>1, <1>2, <1>5, <1>6, <1>7, Frames

\* How main gets to Loss() and on, and who changes the snapshot.
LEMMA LossSteps ==
    ASSUME [Next]_vars
    PROVE  /\ snapshot' = snapshot \/ ReadCounter \/ Restart
           /\ Restart \/ ReadCounter \/ (pc' \in BeforeLoss => pc \in BeforeLoss)
           /\ ReadCounter \/ (pc' \in { "loss", "final" } => pc' = pc \/ (pc = "artifact" /\ pc' = "loss"))
           /\ WriteFinalized \/ stream' = stream
              \/ \E e : stream' = Append(stream, e) /\ e.operation # "sensor_finalized"
  <1> USE DEF BeforeLoss, Running, Writing, Monitoring, Ended
  <1>1. snapshot' = snapshot \/ ReadCounter \/ Restart
    BY Frames DEF loss
  <1>2. ASSUME NEW draft, NEW next, writeEvent(draft, next)
        PROVE  /\ pc' \in { next, "fatal" }
               /\ \/ stream' = stream
                  \/ \E e : stream' = Append(stream, e) /\ e.operation = draft.operation
    BY <1>2, SealedEvent DEF writeEvent, Seal
  <1>3. CASE ParseFlags \/ OpenSensor \/ CreateEvidence \/ CheckContext \/ PollDeadline
             \/ ReadError \/ ReadMalformed \/ AfterReadError \/ ReadCounter
    BY <1>1, <1>3 DEF ParseFlags, OpenSensor, CreateEvidence, CheckContext, PollDeadline,
                      ReadError, ReadMalformed, AfterReadError, ReadCounter, file
  <1>4. CASE WriteStarted
    BY <1>1, <1>2, <1>4 DEF WriteStarted, Draft
  <1>5. CASE HandleExec
    BY <1>1, <1>2, <1>5 DEF HandleExec, TakeRecord, Draft
  <1>6. CASE HandleOpen
    BY <1>1, <1>2, <1>6 DEF HandleOpen, TakeRecord, Draft, SkipRecord, file
  <1>7. CASE HandleSensitive
    BY <1>1, <1>2, <1>7 DEF HandleSensitive, TakeRecord, Draft, SkipRecord, file
  <1>8. CASE HandleConnect
    BY <1>1, <1>2, <1>8 DEF HandleConnect, TakeRecord, Draft, SkipRecord, file
  <1>9. CASE FinalizeArtifact
    <2>1. CASE pc' = "fatal" /\ UNCHANGED << chain, file >>
      BY <1>1, <1>9, <2>1 DEF file
    <2>2. CASE \E digest \in ArtifactDigests :
                  writeEvent(Draft("artifact_finalized", boottimeNS, artifactProducer,
                                   [ path |-> flags.artifact, sha256 |-> digest ]), "loss")
      <3>1. PICK draft : writeEvent(draft, "loss") /\ draft.operation = "artifact_finalized"
        BY <2>2 DEF Draft
      <3>2. /\ pc' \in { "loss", "fatal" }
            /\ \/ stream' = stream
               \/ \E e : stream' = Append(stream, e) /\ e.operation = "artifact_finalized"
        BY <1>2, <3>1
      <3>3. pc = "artifact"
        BY <1>9 DEF FinalizeArtifact
      <3> QED
        BY <1>1, <1>9, <3>2, <3>3
    <2> QED
      BY <1>9, <2>1, <2>2 DEF FinalizeArtifact
  <1>10. CASE WriteFinalized
    <2>1. pc = "final" /\ pc' \in { "fatal", "done" }
      BY <1>2, <1>10 DEF WriteFinalized
    <2> QED
      BY <1>1, <1>10, <2>1
  <1>11. CASE Environment
    BY <1>1, <1>11 DEF Environment, Signal, Crash, Restart, KernelReserve, KernelSubmit,
                       KernelCauseDrop, KernelCorrelationDrop, Tick, Suspend, file
  <1>12. CASE UNCHANGED vars
    BY <1>1, <1>12 DEF vars, file
  <1> QED
    BY <1>3, <1>4, <1>5, <1>6, <1>7, <1>8, <1>9, <1>10, <1>11, <1>12 DEF Next, CollectorStep

\* One more map read, or all of them given up.
LEMMA ReadKeepsCover ==
    ASSUME TypeInv, LossInv, ReadCounter, [Next]_vars
    PROVE  /\ \A i \in 1..Len(snapshot') : snapshot'[i] \in Nat
           /\ Len(snapshot') >= 2 =>
                  snapshot'[2] <= Seen(3, "path_read_drops")' + Seen(4, "map_update_drops")'
                                     + Seen(5, "cgroup_mismatch_drops")'
           /\ pc' \in { "loss", "final" }
           /\ pc' = "final" => Len(snapshot') = 5
  <1>1. /\ pc = "loss" /\ drops' = drops
        /\ pc' = IF Len(snapshot') = Len(LossMaps) THEN "final" ELSE "loss"
    BY DEF ReadCounter, kernel
  <1>2. /\ IsSequence(snapshot) /\ Len(snapshot) \in 0..4
        /\ \A i \in 1..Len(snapshot) : snapshot[i] \in Nat
    <2>1. IsSequence(snapshot)
      BY DEF TypeInv
    <2>2. Len(snapshot) < 5
      BY <1>1, FiveLossMaps DEF TypeInv, Running, Writing, Monitoring
    <2>3. Len(snapshot) \in Nat
      BY <2>1, ZeroLength
    <2>4. \A n \in Nat : n < 5 => n \in 0..4
      OBVIOUS
    <2>5. Len(snapshot) \in 0..4
      BY <2>2, <2>3, <2>4, Zenon
    <2>6. \A i \in 1..Len(snapshot) : snapshot[i] \in Nat
      BY <1>1 DEF LossInv
    <2> QED
      BY <2>1, <2>5, <2>6, Zenon
  <1>3. CASE snapshot' = NoLoss
    <2>1. Len(snapshot') = 5 /\ \A i \in 1..5 : snapshot'[i] = 0
      BY <1>3, NoLossFacts, FiveLossMaps DEF NoLoss
    <2> QED
      BY <1>1, <2>1, FiveLossMaps DEF Seen
  <1>4. CASE snapshot' = Append(snapshot, drops[LossMaps[Len(snapshot) + 1]])
    <2> DEFINE n == Len(snapshot) + 1
    <2>1. /\ Len(snapshot') = n
          /\ \A i \in 1..Len(snapshot) : snapshot'[i] = snapshot[i]
          /\ snapshot'[n] = drops[LossMaps[n]]
      BY <1>2, <1>4, AppendFacts
    <2>2. /\ n \in 1..5
          /\ LossMaps[2] = "correlation_drops" /\ LossMaps[3] = "path_read_drops"
          /\ LossMaps[4] = "map_update_drops" /\ LossMaps[5] = "cgroup_mismatch_drops"
          /\ LossMaps[n] \in Source!Counters
      <3>1. \A k \in 0..4 : k + 1 \in 1..5
        OBVIOUS
      <3>2. n \in 1..5
        BY <1>2, <3>1, Zenon
      <3>3. /\ LossMaps[1] = "ringbuf_drops" /\ LossMaps[2] = "correlation_drops"
            /\ LossMaps[3] = "path_read_drops" /\ LossMaps[4] = "map_update_drops"
            /\ LossMaps[5] = "cgroup_mismatch_drops"
        BY DEF LossMaps
      <3>4. \A k \in 1..5 : k = 1 \/ k = 2 \/ k = 3 \/ k = 4 \/ k = 5
        OBVIOUS
      <3>5. n = 1 \/ n = 2 \/ n = 3 \/ n = 4 \/ n = 5
        BY <3>2, <3>4, Zenon
      <3> HIDE DEF n
      <3>6. LossMaps[n] \in Source!Counters
        BY <3>3, <3>5, CounterNames
      <3> QED
        BY <3>2, <3>3, <3>6
    <2>3. \A c \in Source!Counters : drops[c] \in Nat
      BY DEF LossInv
    <2>4. \A i \in 1..n : snapshot'[i] \in Nat
      BY <1>2, <2>1, <2>2, <2>3
    <2>5. CASE n = 1
      BY <1>1, <2>1, <2>4, <2>5, FiveLossMaps
    <2>6. CASE n = 2
      <3>1. snapshot'[2] <= drops["path_read_drops"] + drops["map_update_drops"]
                                + drops["cgroup_mismatch_drops"]
        BY <2>1, <2>2, <2>6 DEF LossInv, Source!CausesCounted
      <3> QED
        BY <1>1, <2>1, <2>4, <2>6, <3>1, FiveLossMaps DEF Seen
    <2>7. CASE n \in 3..5
      <3>1. /\ Len(snapshot) >= 2 /\ Len(snapshot') = n
            /\ snapshot[2] <= Seen(3, "path_read_drops") + Seen(4, "map_update_drops")
                                  + Seen(5, "cgroup_mismatch_drops")
            /\ snapshot'[2] = snapshot[2]
        BY <1>1, <1>2, <2>1, <2>7 DEF LossInv
      <3>2. /\ Seen(3, "path_read_drops")' = Seen(3, "path_read_drops")
            /\ Seen(4, "map_update_drops")' = Seen(4, "map_update_drops")
            /\ Seen(5, "cgroup_mismatch_drops")' = Seen(5, "cgroup_mismatch_drops")
        BY <1>1, <1>2, <2>1, <2>2, <2>7 DEF Seen
      <3> QED
        BY <1>1, <2>1, <2>4, <2>7, <3>1, <3>2, FiveLossMaps
    <2> QED
      BY <2>2, <2>5, <2>6, <2>7
  <1> QED
    BY <1>3, <1>4 DEF ReadCounter

\* The final event reports what the snapshot says.
LEMMA FinalKeepsCover ==
    ASSUME ChainInv, LossInv, WriteFinalized
    PROVE  CausesCoverCorrelation'
  <1> DEFINE event == Seal(Draft("sensor_finalized", boottimeNS, Missing, FinalResource))
  <1>0. pc = "final"
    BY DEF WriteFinalized
  <1>1. snapshot[2] <= snapshot[3] + snapshot[4] + snapshot[5]
    <2>1. Len(snapshot) = 5
      BY <1>0 DEF LossInv
    <2>2. snapshot[2] <= Seen(3, "path_read_drops") + Seen(4, "map_update_drops")
                             + Seen(5, "cgroup_mismatch_drops")
      BY <1>0, <2>1 DEF LossInv
    <2> QED
      BY <2>1, <2>2 DEF Seen
  <1>2. event.resource = FinalResource
    BY DEF Seal, ChainEvent, WithHash, Draft
  <1>3. /\ event.resource.kernel_correlation = snapshot[2]
        /\ event.resource.kernel_path_read = snapshot[3]
        /\ event.resource.kernel_map_update = snapshot[4]
        /\ event.resource.kernel_cgroup_mismatch = snapshot[5]
    BY <1>2 DEF FinalResource
  <1>4. stream' = stream \/ stream' = Append(stream, event)
    BY DEF WriteFinalized, writeEvent
  <1> HIDE DEF event
  <1>5. CASE stream' = stream
    BY <1>5 DEF LossInv, CausesCoverCorrelation, Operation
  <1>6. CASE stream' = Append(stream, event)
    <2>1. /\ Len(stream') = Len(stream) + 1 /\ Len(stream) \in Nat
          /\ \A i \in 1..Len(stream) : stream'[i] = stream[i]
          /\ stream'[Len(stream) + 1] = event
      BY <1>6, AppendFacts DEF ChainInv
    <2> SUFFICES ASSUME NEW i \in 1..Len(stream'), stream'[i].operation = "sensor_finalized"
                 PROVE  stream'[i].resource.kernel_correlation <=
                            stream'[i].resource.kernel_path_read
                                + stream'[i].resource.kernel_map_update
                                + stream'[i].resource.kernel_cgroup_mismatch
      BY DEF CausesCoverCorrelation, Operation
    <2>2. CASE i \in 1..Len(stream)
      BY <2>1, <2>2 DEF LossInv, CausesCoverCorrelation, Operation
    <2>3. CASE i = Len(stream) + 1
      BY <1>1, <1>3, <2>1, <2>3
    <2> QED
      BY <2>1, <2>2, <2>3
  <1> QED
    BY <1>4, <1>5, <1>6

\* Any other event is not a report.
LEMMA OthersKeepCover ==
    ASSUME ChainInv, CausesCoverCorrelation,
           stream' = stream
             \/ \E e : stream' = Append(stream, e) /\ e.operation # "sensor_finalized"
    PROVE  CausesCoverCorrelation'
  <1>1. CASE stream' = stream
    BY <1>1 DEF CausesCoverCorrelation, Operation
  <1>2. CASE \E e : stream' = Append(stream, e) /\ e.operation # "sensor_finalized"
    <2>1. PICK e : stream' = Append(stream, e) /\ e.operation # "sensor_finalized"
      BY <1>2
    <2>2. /\ Len(stream') = Len(stream) + 1 /\ Len(stream) \in Nat
          /\ \A i \in 1..Len(stream) : stream'[i] = stream[i]
          /\ stream'[Len(stream) + 1] = e
      BY <2>1, AppendFacts DEF ChainInv
    <2>3. \A i \in 1..Len(stream') :
             stream'[i].operation = "sensor_finalized" => i \in 1..Len(stream)
      BY <2>1, <2>2
    <2> QED
      BY <2>2, <2>3 DEF CausesCoverCorrelation, Operation
  <1> QED
    BY <1>1, <1>2

\* Nothing is counted, read or written at first.
LEMMA LossInvInit == Init => LossInv
  <1> SUFFICES ASSUME Init PROVE LossInv
    OBVIOUS
  <1>1. /\ drops = [ c \in Source!Counters |-> 0 ] /\ snapshot = << >>
        /\ pc = "flags" /\ stream = << >>
    BY DEF Init, Source!Fresh
  <1>2. CausesCoverCorrelation
    BY <1>1 DEF CausesCoverCorrelation
  <1> QED
    BY <1>1, <1>2, CounterNames DEF LossInv, Source!CausesCounted

\* A step that reads no map: programs may count further losses, which the maps
\* still to be read will show.
LEMMA QuietKeepsCover ==
    ASSUME TypeInv, LossInv, [Next]_vars, snapshot' = snapshot,
           \A c \in Source!Counters : drops'[c] >= drops[c],
           drops' \in [ Source!Counters -> Nat ], pc \in { "loss", "final" }
    PROVE  Len(snapshot') >= 2 =>
               snapshot'[2] <= Seen(3, "path_read_drops")' + Seen(4, "map_update_drops")'
                                  + Seen(5, "cgroup_mismatch_drops")'
  <1> SUFFICES ASSUME Len(snapshot') >= 2
               PROVE  snapshot'[2] <= Seen(3, "path_read_drops")' + Seen(4, "map_update_drops")'
                                  + Seen(5, "cgroup_mismatch_drops")'
    OBVIOUS
  <1>1. Len(snapshot) \in Nat /\ IsSequence(snapshot)
    BY ZeroLength DEF TypeInv, Running, Writing, Monitoring
  <1>2. /\ \A i \in 1..Len(snapshot) : snapshot[i] \in Nat
        /\ snapshot[2] <= Seen(3, "path_read_drops") + Seen(4, "map_update_drops")
                                  + Seen(5, "cgroup_mismatch_drops")
        /\ \A c \in Source!Counters : drops[c] \in Nat /\ drops'[c] \in Nat
    BY DEF LossInv
  <1>3. ASSUME NEW i \in 3..5, NEW c \in Source!Counters
        PROVE  Seen(i, c) \in Nat /\ Seen(i, c)' \in Nat /\ Seen(i, c) <= Seen(i, c)'
    BY <1>1, <1>2 DEF Seen
  <1>4. snapshot'[2] \in Nat /\ snapshot'[2] = snapshot[2]
    BY <1>1, <1>2
  <1> HIDE DEF Seen
  <1>5. /\ "path_read_drops" \in Source!Counters /\ "map_update_drops" \in Source!Counters
        /\ "cgroup_mismatch_drops" \in Source!Counters
    BY CounterNames
  <1>6. /\ Seen(3, "path_read_drops") \in Nat /\ Seen(3, "path_read_drops")' \in Nat
        /\ Seen(3, "path_read_drops") <= Seen(3, "path_read_drops")'
    BY <1>3, <1>5
  <1>7. /\ Seen(4, "map_update_drops") \in Nat /\ Seen(4, "map_update_drops")' \in Nat
        /\ Seen(4, "map_update_drops") <= Seen(4, "map_update_drops")'
    BY <1>3, <1>5
  <1>8. /\ Seen(5, "cgroup_mismatch_drops") \in Nat /\ Seen(5, "cgroup_mismatch_drops")' \in Nat
        /\ Seen(5, "cgroup_mismatch_drops") <= Seen(5, "cgroup_mismatch_drops")'
    BY <1>3, <1>5
  <1> QED
    BY <1>2, <1>4, <1>6, <1>7, <1>8

\* Every step preserves the inductive invariant.
LEMMA LossInvNext == TypeInv /\ ChainInv /\ LossInv /\ [Next]_vars => LossInv'
  <1> SUFFICES ASSUME TypeInv, ChainInv, LossInv, [Next]_vars PROVE LossInv'
    OBVIOUS
  <1>1. /\ drops' \in [ Source!Counters -> Nat ]
        /\ drops'["correlation_drops"] <= Source!CausesCounted'
        /\ pc = "open" \/ \A c \in Source!Counters : drops'[c] >= drops[c]
    BY DropSteps DEF LossInv
  <1>2. CausesCoverCorrelation'
    <2>1. WriteFinalized \/ stream' = stream
              \/ \E e : stream' = Append(stream, e) /\ e.operation # "sensor_finalized"
      BY LossSteps
    <2>2. CausesCoverCorrelation
      BY DEF LossInv
    <2> QED
      BY <2>1, <2>2, FinalKeepsCover, OthersKeepCover
  <1>3. CASE ReadCounter
    <2>1. pc' \notin BeforeLoss
      BY <1>3, ReadKeepsCover DEF BeforeLoss
    <2> QED
      BY <1>1, <1>2, <1>3, <2>1, ReadKeepsCover DEF LossInv
  <1>4. CASE Restart
    BY <1>1, <1>2, <1>4 DEF LossInv, Restart
  <1>5. CASE ~ReadCounter /\ ~Restart
    <2>1. /\ snapshot' = snapshot
          /\ pc' \in BeforeLoss => pc \in BeforeLoss
          /\ pc' \in { "loss", "final" } => pc' = pc \/ (pc = "artifact" /\ pc' = "loss")
      BY <1>5, LossSteps
    <2>2. CASE pc' \in { "loss", "final" } /\ pc' = pc
      <3>1. \A c \in Source!Counters : drops'[c] >= drops[c]
        BY <1>1, <2>2
      <3>2. Len(snapshot') >= 2 =>
               snapshot'[2] <= Seen(3, "path_read_drops")' + Seen(4, "map_update_drops")'
                                  + Seen(5, "cgroup_mismatch_drops")'
        BY <1>1, <2>1, <2>2, <3>1, QuietKeepsCover
      <3>3. pc' \notin BeforeLoss
        BY <2>2 DEF BeforeLoss
      <3> QED
        BY <1>1, <1>2, <2>1, <2>2, <3>2, <3>3 DEF LossInv
    <2>3. CASE pc = "artifact" /\ pc' = "loss"
      <3>1. snapshot' = << >>
        BY <2>1, <2>3 DEF LossInv, BeforeLoss, Running, Writing, Monitoring
      <3>2. pc' \notin BeforeLoss /\ pc' # "final"
        BY <2>3 DEF BeforeLoss
      <3> QED
        BY <1>1, <1>2, <3>1, <3>2 DEF LossInv
    <2>4. CASE pc' \notin { "loss", "final" }
      BY <1>1, <1>2, <2>1, <2>4 DEF LossInv
    <2> QED
      BY <2>1, <2>2, <2>3, <2>4
  <1> QED
    BY <1>3, <1>4, <1>5

\* Loss() is not atomic, yet for any number of losses counted while it reads, every
\* correlation loss in the final event of any stream has a reported cause: the
\* programs count a cause before the aggregate, and the aggregate is read first.
THEOREM ReportedLossHasCause == Spec => []CausesCoverCorrelation
  <1>1. LossInv => CausesCoverCorrelation
    BY DEF LossInv
  <1> QED
    BY <1>1, LossInvInit, LossInvNext, TypeInvInit, TypeInvNext, ChainInvInit, ChainInvNext, PTL DEF Spec
=============================================================================
