---------------------------- MODULE PipelineProofs ----------------------------
(***************************************************************************)
(* From the kernel record to the decision, for any number of records and   *)
(* losses, any policy and any contents of the artifact.  Evidence that     *)
(* calls itself complete is lossless: the collector counts every record it *)
(* decodes as an event or as a loss, and what was lost before the signal   *)
(* is in the counters that Loss() reads after it.  An artifact that        *)
(* verify-fixture allows is the one main hashed, on such evidence, and     *)
(* nothing the policy forbids was decoded while it was built.              *)
(***************************************************************************)
EXTENDS Pipeline, LossProofs, VerifierProofs

\* Operations of the events that stand for a kernel record.
KernelOperations == ActivityOperations \cup { "process_exec" }

\* Before the loop: no record has been read by this process.
Starting == { "flags", "open", "create", "started" }

\* Bounds of what the kernel may produce.
KernelBounds ==
    /\ taken \in Nat /\ rejected \in Nat /\ missed \in Nat
    /\ taken + rejected + Len(ring) <= MaxRecords
    /\ drops["ringbuf_drops"] + Source!CausesCounted <= MaxDrops

\* Before a collector created the evidence file nothing has been read at all.
FreshInv ==
    /\ ~exists \/ pc = "started" => taken = 0 /\ rejected = 0 /\ missed = 0
    /\ pc \in Starting => ~stop /\ decodeLoss = 0

\* Every decoded record has an event or is counted.
RecordInv ==
    pc \in Writing => /\ KernelEvents <= taken
                      /\ taken - KernelEvents <= decodeLoss
                      /\ decodeLoss <= taken

\* What was lost before the signal will be read by Loss(), unless a map cannot be read;
\* main finalizes only after a signal.  A refused record ends the loop, so that there is
\* one at most, and none while main goes on reading.
ReportInv ==
    /\ pc \in Running \ { "final" } => ~counterReadError
    /\ pc \in { "artifact", "loss", "final" } => stop
    /\ pc \in { "started", "check", "poll" } => rejected = 0
    /\ pc \in Writing => rejected <= 1
    /\ pc \in Writing /\ ~stop => missed = 0
    /\ pc \in Writing /\ stop =>
           counterReadError \/ missed <= Seen(1, "ringbuf_drops") + Seen(2, "correlation_drops")
    /\ pc \in { "loss", "final" } =>
           /\ Len(snapshot) >= 1 => snapshot[1] <= drops["ringbuf_drops"]
           /\ Len(snapshot) >= 2 => snapshot[2] <= drops["correlation_drops"]

\* The inductive invariant.
WitnessInv == KernelBounds /\ FreshInv /\ RecordInv /\ ReportInv /\ CompleteEvidenceIsLossless

-----------------------------------------------------------------------------
\* One more event counts once when it stands for a kernel record, else not.
LEMMA KernelEventsAppend ==
    ASSUME IsSequence(stream), NEW e, stream' = Append(stream, e)
    PROVE  /\ KernelEvents \in Nat
           /\ e.operation \in KernelOperations => KernelEvents' = KernelEvents + 1
           /\ e.operation \notin KernelOperations => KernelEvents' = KernelEvents
  <1> DEFINE Positions == { i \in 1..Len(stream) : stream[i].operation \in KernelOperations }
             Later == { i \in 1..Len(stream') : stream'[i].operation \in KernelOperations }
  <1>1. KernelEvents = Cardinality(Positions) /\ KernelEvents' = Cardinality(Later)
    BY DEF KernelEvents, Operation, KernelOperations
  <1>2. /\ Len(stream) \in Nat /\ Len(stream') = Len(stream) + 1
        /\ \A i \in 1..Len(stream) : stream'[i] = stream[i]
        /\ stream'[Len(stream) + 1] = e
    BY AppendFacts
  <1>3. IsFiniteSet(Positions) /\ Cardinality(Positions) \in Nat
    <2>1. IsFiniteSet(1..Len(stream))
      BY <1>2, FS_Interval
    <2> QED
      BY <2>1, FS_Subset, FS_CardinalityType
  <1>4. Len(stream) + 1 \notin Positions
    BY <1>2
  <1>5. CASE e.operation \in KernelOperations
    <2>1. Later = Positions \cup { Len(stream) + 1 }
      BY <1>2, <1>5
    <2> QED
      BY <1>1, <1>3, <1>4, <1>5, <2>1, FS_AddElement
  <1>6. CASE e.operation \notin KernelOperations
    <2>1. Later = Positions
      BY <1>2, <1>6
    <2> QED
      BY <1>1, <1>3, <1>6, <2>1
  <1> QED
    BY <1>5, <1>6

\* The number of kernel events is a natural, and depends on the stream only.
LEMMA KernelEventsType == IsSequence(stream) => KernelEvents \in Nat
  <1> SUFFICES ASSUME IsSequence(stream) PROVE KernelEvents \in Nat
    OBVIOUS
  <1>1. IsFiniteSet(1..Len(stream))
    BY ZeroLength, FS_Interval
  <1> QED
    BY <1>1, FS_Subset, FS_CardinalityType DEF KernelEvents

LEMMA KernelEventsFrame == stream' = stream => KernelEvents' = KernelEvents
  BY DEF KernelEvents, Operation

\* What a switch branch of main does with the record it took from the ring.
LEMMA TakenRecords ==
    ASSUME HandleExec \/ HandleOpen \/ HandleSensitive \/ HandleConnect
    PROVE  /\ pc = "poll" /\ taken' = taken + 1
           /\ ring # << >> /\ ring' = Tail(ring) /\ drops' = drops
           /\ UNCHANGED << flags, stop, loss, rejected, missed >>
           /\ exists' = exists
           /\ \/ SkipRecord
              \/ /\ decodeLoss' = decodeLoss \/ CountDecodeLoss
                 /\ \E draft : /\ writeEvent(draft, "check")
                               /\ draft.operation \in KernelOperations
  <1> USE DEF Draft, KernelOperations, ActivityOperations
  <1>1. ASSUME NEW kind, TakeRecord(kind)
        PROVE  /\ pc = "poll" /\ taken' = taken + 1
               /\ ring # << >> /\ ring' = Tail(ring) /\ drops' = drops
               /\ UNCHANGED << flags, stop, loss, rejected, missed >>
    BY <1>1 DEF TakeRecord, Source!Consume, Source!HeadReady
  <1>2. \A draft, next : writeEvent(draft, next) => exists' = exists
    BY DEF writeEvent
  <1>3. SkipRecord => exists' = exists
    BY DEF SkipRecord, file
  <1>4. CASE HandleExec
    BY <1>1, <1>2, <1>4 DEF HandleExec
  <1>5. CASE HandleOpen
    BY <1>1, <1>2, <1>3, <1>5 DEF HandleOpen
  <1>6. CASE HandleSensitive
    BY <1>1, <1>2, <1>3, <1>6 DEF HandleSensitive, locals
  <1>7. CASE HandleConnect
    BY <1>1, <1>2, <1>3, <1>7 DEF HandleConnect, locals
  <1> QED
    BY <1>4, <1>5, <1>6, <1>7

\* Programs of the kernel, between two steps of main.
KernelStep ==
    /\ \/ KernelReserve \/ KernelSubmit \/ KernelCauseDrop \/ KernelCorrelationDrop
    /\ pc \in Writing \cup { "create" }
    /\ UNCHANGED << pc, flags, stop, locals, loss, file, taken, rejected, missed >>

\* A step that reads no record, no counter and no signal writes a lifecycle event at
\* most.
QuietStep ==
    /\ UNCHANGED << taken, rejected, missed, ring, drops, stop, decodeLoss, snapshot, counterReadError >>
    /\ \/ stream' = stream
       \/ \E e : stream' = Append(stream, e) /\ e.operation \notin KernelOperations
    /\ exists => exists'
    /\ pc' \in Starting => pc \in Starting
    /\ pc' = "started" => pc = "started" \/ (pc = "create" /\ ~exists /\ stream' = stream)
    /\ pc' \in Monitoring => pc \in Writing
    /\ pc' = "final" => pc = "final"
    /\ pc' \in Writing => pc # "final" \/ pc' = "final"
    /\ pc' \in { "artifact", "loss" } => stop \/ pc \in { "artifact", "loss" }
    /\ pc' = "loss" => pc \in { "artifact", "loss" }
    /\ pc' \in { "check", "poll" } => pc \in { "started", "check", "poll" }

\* Every step, sorted by what it does to records and counters.
LEMMA CountSteps ==
    ASSUME [Next]_vars
    PROVE  \/ HandleExec \/ HandleOpen \/ HandleSensitive \/ HandleConnect
           \/ ReadMalformed \/ AfterReadError \/ Signal \/ ReadCounter \/ Restart \/ OpenSensor
           \/ KernelStep \/ QuietStep
  <1> USE DEF Starting, Writing, Monitoring, Ended, locals, loss, file, kernel, history
  <1>1. ASSUME NEW draft, NEW next, writeEvent(draft, next),
               draft.operation \in LifecycleOperations
        PROVE  /\ pc' \in { next, "fatal" } /\ exists' = exists
               /\ \/ stream' = stream
                  \/ \E e : stream' = Append(stream, e) /\ e.operation \notin KernelOperations
    <2>1. Seal(draft).operation = draft.operation
      BY SealedEvent DEF Seal
    <2>2. Seal(draft).operation \notin KernelOperations
      BY <1>1, <2>1 DEF LifecycleOperations, KernelOperations, ActivityOperations
    <2> QED
      BY <1>1, <2>2 DEF writeEvent
  <1>2. CASE WriteStarted
    <2>1. PICK draft : writeEvent(draft, "check") /\ draft.operation = "sensor_started"
      BY <1>2 DEF WriteStarted, Draft
    <2>2. "sensor_started" \in LifecycleOperations
      BY DEF LifecycleOperations
    <2>3. /\ pc' \in { "check", "fatal" } /\ exists' = exists
          /\ \/ stream' = stream
             \/ \E e : stream' = Append(stream, e) /\ e.operation \notin KernelOperations
      BY <1>1, <2>1, <2>2
    <2> QED
      BY <1>2, <2>3 DEF WriteStarted, QuietStep
  <1>3. CASE FinalizeArtifact
    <2>1. CASE pc' = "fatal" /\ UNCHANGED << chain, file >>
      BY <1>3, <2>1 DEF FinalizeArtifact, QuietStep
    <2>2. CASE \E digest \in ArtifactDigests :
                  writeEvent(Draft("artifact_finalized", boottimeNS, artifactProducer,
                                   [ path |-> flags.artifact, sha256 |-> digest ]), "loss")
      <3>1. PICK draft : writeEvent(draft, "loss") /\ draft.operation = "artifact_finalized"
        BY <2>2 DEF Draft
      <3>2. "artifact_finalized" \in LifecycleOperations
        BY DEF LifecycleOperations
      <3>3. /\ pc' \in { "loss", "fatal" } /\ exists' = exists
            /\ \/ stream' = stream
               \/ \E e : stream' = Append(stream, e) /\ e.operation \notin KernelOperations
        BY <1>1, <3>1, <3>2
      <3>4. /\ pc = "artifact"
            /\ UNCHANGED << taken, rejected, missed, ring, drops, stop, decodeLoss, snapshot,
                            counterReadError >>
        BY <1>3 DEF FinalizeArtifact
      <3> QED
        BY <3>3, <3>4 DEF QuietStep
    <2> QED
      BY <1>3, <2>1, <2>2 DEF FinalizeArtifact
  <1>4. CASE WriteFinalized
    <2>1. PICK draft, next : /\ writeEvent(draft, next) /\ draft.operation = "sensor_finalized"
                             /\ next \in { "fatal", "done" }
      BY <1>4 DEF WriteFinalized, Draft
    <2>2. "sensor_finalized" \in LifecycleOperations
      BY DEF LifecycleOperations
    <2>3. /\ pc' \in { "fatal", "done" } /\ exists' = exists
          /\ \/ stream' = stream
             \/ \E e : stream' = Append(stream, e) /\ e.operation \notin KernelOperations
      BY <1>1, <2>1, <2>2
    <2> QED
      BY <1>4, <2>3 DEF WriteFinalized, QuietStep
  <1>5. CASE ParseFlags \/ CheckContext \/ PollDeadline \/ ReadError
    BY <1>5 DEF ParseFlags, CheckContext, PollDeadline, ReadError, QuietStep
  <1>6. CASE CreateEvidence
    BY <1>6 DEF CreateEvidence, QuietStep
  <1>7. CASE Crash \/ Tick \/ Suspend
    <2>1. /\ UNCHANGED << taken, rejected, missed, ring, drops, stop, decodeLoss, snapshot,
                          counterReadError, stream, exists >>
          /\ pc' = pc \/ pc' = "crashed"
      BY <1>7 DEF Crash, Tick, Suspend
    <2>2. exists => exists'
      BY <2>1, Zenon
    <2> QED
      BY <2>1, <2>2 DEF QuietStep
  <1>8. CASE KernelReserve \/ KernelSubmit \/ KernelCauseDrop \/ KernelCorrelationDrop
    BY <1>8 DEF KernelReserve, KernelSubmit, KernelCauseDrop, KernelCorrelationDrop,
                KernelActive, KernelStep
  <1>9. CASE UNCHANGED vars
    <2>1. UNCHANGED << taken, rejected, missed, ring, drops, stop, decodeLoss, snapshot,
                       counterReadError, stream, exists, pc >>
      BY <1>9 DEF vars
    <2>2. exists => exists'
      BY <2>1, Zenon
    <2> QED
      BY <2>1, <2>2 DEF QuietStep
  <1> QED
    BY <1>2, <1>3, <1>4, <1>5, <1>6, <1>7, <1>8, <1>9 DEF Next, CollectorStep, Environment

\* Naturals the counters and the ring are made of.
LEMMA CountTypes ==
    ASSUME TypeInv, LossInv, KernelBounds
    PROVE  /\ IsSequence(ring) /\ Len(ring) \in Nat
           /\ \A c \in Source!Counters : drops[c] \in Nat
           /\ drops["ringbuf_drops"] \in Nat /\ drops["correlation_drops"] \in Nat
           /\ drops["path_read_drops"] \in Nat /\ drops["map_update_drops"] \in Nat
           /\ drops["cgroup_mismatch_drops"] \in Nat
           /\ taken \in Nat /\ rejected \in Nat /\ missed \in Nat
  BY ZeroLength, CounterNames DEF TypeInv, LossInv, KernelBounds

\* A record leaves the ring when it is read, so no step exceeds the bound of records.
LEMMA ConsumedRing ==
    ASSUME IsSequence(ring), ring # << >>, ring' = Tail(ring)
    PROVE  Len(ring') = Len(ring) - 1 /\ Len(ring) \in Nat
  <1>1. PICK S : ring \in Seq(S)
    BY DEF IsSequence
  <1> QED
    BY <1>1

\* Programs stop at the bounds.
LEMMA KernelKeepsBounds ==
    ASSUME TypeInv, LossInv, KernelBounds, KernelStep
    PROVE  KernelBounds'
  <1> USE DEF Source!CausesCounted
  <1>0. UNCHANGED << taken, rejected, missed >>
    BY DEF KernelStep
  <1>1. CASE KernelReserve
    <2>1. taken + rejected + Len(ring) < MaxRecords
      BY <1>1 DEF KernelReserve
    <2>2. CASE \E pid \in Threads : Source!Reserve(pid)
      <3>1. drops' = drops /\ Len(ring') = Len(ring) + 1
        BY <2>2, CountTypes, AppendFacts DEF Source!Reserve
      <3> QED
        BY <1>0, <2>1, <3>1, CountTypes, CountersAssumption DEF KernelBounds
    <2>3. CASE LossesBounded /\ Source!DropFull
      <3>1. /\ drops["path_read_drops"] + drops["map_update_drops"] + drops["cgroup_mismatch_drops"]
                   + drops["ringbuf_drops"] < MaxDrops
            /\ ring' = ring /\ drops' = [ drops EXCEPT !["ringbuf_drops"] = @ + 1 ]
        BY <2>3 DEF LossesBounded, Source!DropFull
      <3>2. /\ drops'["ringbuf_drops"] = drops["ringbuf_drops"] + 1
            /\ \A c \in Source!Counters \ {"ringbuf_drops"} : drops'[c] = drops[c]
        BY <3>1, CounterNames DEF LossInv
      <3> QED
        BY <1>0, <3>1, <3>2, CountTypes, CountersAssumption, CounterNames DEF KernelBounds
    <2> QED
      BY <1>1, <2>2, <2>3 DEF KernelReserve
  <1>2. CASE KernelSubmit
    <2>1. drops' = drops /\ Len(ring') = Len(ring)
      BY <1>2, CountTypes, RingFacts DEF KernelSubmit, Source!Submit
    <2> QED
      BY <1>0, <2>1 DEF KernelBounds
  <1>3. CASE KernelCauseDrop
    <2>1. PICK c \in Source!Causes :
             ring' = ring /\ drops' = [ drops EXCEPT ![c] = @ + 1 ]
      BY <1>3 DEF KernelCauseDrop, Source!CauseDrop
    <2>2. drops["path_read_drops"] + drops["map_update_drops"] + drops["cgroup_mismatch_drops"]
              + drops["ringbuf_drops"] < MaxDrops
      BY <1>3 DEF KernelCauseDrop, LossesBounded
    <2>3. /\ c \in Source!Counters /\ c # "ringbuf_drops" /\ c # "correlation_drops"
          /\ drops'[c] = drops[c] + 1
          /\ \A d \in Source!Counters \ {c} : drops'[d] = drops[d]
      BY <2>1 DEF LossInv, Source!Causes, Source!Counters
    <2>4. c = "path_read_drops" \/ c = "map_update_drops" \/ c = "cgroup_mismatch_drops"
      BY DEF Source!Causes
    <2>5. /\ drops'["ringbuf_drops"] = drops["ringbuf_drops"]
          /\ drops'["path_read_drops"] + drops'["map_update_drops"] + drops'["cgroup_mismatch_drops"]
               = drops["path_read_drops"] + drops["map_update_drops"]
                     + drops["cgroup_mismatch_drops"] + 1
      <3>1. CASE c = "path_read_drops"
        <4>1. /\ drops'["path_read_drops"] = drops["path_read_drops"] + 1
              /\ drops'["map_update_drops"] = drops["map_update_drops"]
              /\ drops'["cgroup_mismatch_drops"] = drops["cgroup_mismatch_drops"]
              /\ drops'["ringbuf_drops"] = drops["ringbuf_drops"]
          BY <2>3, <3>1, CounterNames
        <4> QED
          BY <4>1, CountTypes
      <3>2. CASE c = "map_update_drops"
        <4>1. /\ drops'["map_update_drops"] = drops["map_update_drops"] + 1
              /\ drops'["path_read_drops"] = drops["path_read_drops"]
              /\ drops'["cgroup_mismatch_drops"] = drops["cgroup_mismatch_drops"]
              /\ drops'["ringbuf_drops"] = drops["ringbuf_drops"]
          BY <2>3, <3>2, CounterNames
        <4> QED
          BY <4>1, CountTypes
      <3>3. CASE c = "cgroup_mismatch_drops"
        <4>1. /\ drops'["cgroup_mismatch_drops"] = drops["cgroup_mismatch_drops"] + 1
              /\ drops'["path_read_drops"] = drops["path_read_drops"]
              /\ drops'["map_update_drops"] = drops["map_update_drops"]
              /\ drops'["ringbuf_drops"] = drops["ringbuf_drops"]
          BY <2>3, <3>3, CounterNames
        <4> QED
          BY <4>1, CountTypes
      <3> QED
        BY <2>4, <3>1, <3>2, <3>3
    <2> QED
      BY <1>0, <2>1, <2>2, <2>5, CountTypes, CountersAssumption DEF KernelBounds
  <1>4. CASE KernelCorrelationDrop
    <2>1. ring' = ring /\ drops' = [ drops EXCEPT !["correlation_drops"] = @ + 1 ]
      BY <1>4 DEF KernelCorrelationDrop, Source!CorrelationDrop
    <2>2. /\ drops'["ringbuf_drops"] = drops["ringbuf_drops"]
          /\ drops'["path_read_drops"] = drops["path_read_drops"]
          /\ drops'["map_update_drops"] = drops["map_update_drops"]
          /\ drops'["cgroup_mismatch_drops"] = drops["cgroup_mismatch_drops"]
      BY <2>1, CounterNames DEF LossInv
    <2> QED
      BY <1>0, <2>1, <2>2 DEF KernelBounds
  <1> QED
    BY <1>1, <1>2, <1>3, <1>4 DEF KernelStep

\* No step exceeds the bounds of records and losses.
LEMMA BoundsNext ==
    ASSUME TypeInv, LossInv, KernelBounds, [Next]_vars
    PROVE  KernelBounds'
  <1>0. /\ IsSequence(ring) /\ Len(ring) \in Nat /\ taken \in Nat /\ rejected \in Nat
        /\ missed \in Nat
        /\ drops["ringbuf_drops"] \in Nat /\ drops["correlation_drops"] \in Nat
    BY CountTypes
  <1>1. CASE HandleExec \/ HandleOpen \/ HandleSensitive \/ HandleConnect
    <2>1. Len(ring') = Len(ring) - 1
      BY <1>0, <1>1, TakenRecords, ConsumedRing
    <2> QED
      BY <1>0, <1>1, <2>1, TakenRecords DEF KernelBounds, Source!CausesCounted
  <1>2. CASE ReadMalformed
    <2>1. /\ ring # << >> /\ ring' = Tail(ring) /\ drops' = drops
          /\ rejected' = rejected + 1 /\ UNCHANGED << taken, missed >>
      BY <1>2 DEF ReadMalformed, Source!Consume, Source!HeadReady
    <2>2. Len(ring') = Len(ring) - 1
      BY <1>0, <2>1, ConsumedRing
    <2> QED
      BY <1>0, <2>1, <2>2 DEF KernelBounds, Source!CausesCounted
  <1>3. CASE Signal
    <2>1. /\ UNCHANGED << ring, drops, taken, rejected >>
          /\ \/ missed' = missed
             \/ missed' = missed + drops["ringbuf_drops"] + drops["correlation_drops"]
      BY <1>3 DEF Signal, kernel
    <2>2. missed' \in Nat
      BY <1>0, <2>1
    <2> QED
      BY <2>1, <2>2 DEF KernelBounds, Source!CausesCounted
  <1>4. CASE ReadCounter \/ Restart
    BY <1>4 DEF ReadCounter, Restart, KernelBounds, Source!CausesCounted, kernel, history
  <1>5. CASE OpenSensor
    <2>1. /\ Len(ring') = 0 /\ drops' = [ c \in Source!Counters |-> 0 ]
          /\ UNCHANGED << taken, rejected, missed >>
      BY <1>5 DEF OpenSensor, Source!Reset, history
    <2> QED
      BY <1>0, <2>1, CounterNames, CountersAssumption DEF KernelBounds, Source!CausesCounted
  <1>6. CASE QuietStep
    BY <1>6 DEF QuietStep, KernelBounds, Source!CausesCounted
  <1>7. CASE AfterReadError
    <2>1. UNCHANGED << ring, drops, taken, rejected >> /\ missed' \in { missed, missed + 1 }
      BY <1>7 DEF AfterReadError, kernel
    <2> QED
      BY <1>0, <2>1 DEF KernelBounds, Source!CausesCounted
  <1> QED
    BY <1>1, <1>2, <1>3, <1>4, <1>5, <1>6, <1>7, KernelKeepsBounds, CountSteps

\* Records are read in the loop only, and the loop belongs to a process that created
\* the file.
LEMMA FreshNext ==
    ASSUME TypeInv, ChainInv, FreshInv, [Next]_vars
    PROVE  FreshInv'
  <1> USE DEF Starting, Writing, Monitoring
  <1>0. pc \in Monitoring => exists
    BY DEF ChainInv
  <1>1. CASE HandleExec \/ HandleOpen \/ HandleSensitive \/ HandleConnect
    <2>1. pc = "poll" /\ exists' = exists /\ pc' \in { "check", "fatal" }
      BY <1>1, TakenRecords DEF SkipRecord, writeEvent
    <2>2. exists'
      BY <1>0, <2>1
    <2> QED
      BY <2>1, <2>2 DEF FreshInv
  <1>2. CASE ReadMalformed \/ AfterReadError
    <2>1. /\ pc \in { "poll", "error" } /\ exists' = exists
          /\ pc' \in { "error", "artifact", "fatal" }
      BY <1>2 DEF ReadMalformed, AfterReadError, file
    <2>2. exists'
      BY <1>0, <2>1
    <2> QED
      BY <2>1, <2>2 DEF FreshInv
  <1>3. CASE Signal
    <2>1. exists' = exists /\ UNCHANGED << taken, rejected >>
      BY <1>3 DEF Signal, file
    <2>2. CASE pc \in Monitoring
      <3>1. exists' /\ pc' = pc
        BY <1>0, <1>3, <2>1, <2>2 DEF Signal
      <3> QED
        BY <2>2, <3>1 DEF FreshInv
    <2>3. CASE pc \notin Monitoring
      BY <1>3, <2>1, <2>3 DEF Signal, FreshInv
    <2> QED
      BY <2>2, <2>3
  <1>4. CASE ReadCounter
    <2>1. pc = "loss" /\ exists' = exists /\ pc' \in { "loss", "final" }
      BY <1>4 DEF ReadCounter, file
    <2>2. exists'
      BY <1>0, <2>1
    <2> QED
      BY <2>1, <2>2 DEF FreshInv
  <1>5. CASE Restart
    <2>1. /\ exists' = exists /\ UNCHANGED << taken, rejected, missed >>
          /\ pc' = "flags" /\ ~stop' /\ decodeLoss' = 0
      BY <1>5 DEF Restart, file, history
    <2> QED
      BY <2>1 DEF FreshInv
  <1>6. CASE OpenSensor
    <2>1. /\ exists' = exists /\ UNCHANGED << taken, rejected, missed, stop, decodeLoss >>
          /\ pc = "open" /\ pc' \in { "create", "fatal" }
      BY <1>6 DEF OpenSensor, file, history, locals
    <2> QED
      BY <2>1 DEF FreshInv
  <1>7. CASE KernelStep
    <2>1. UNCHANGED << exists, pc, taken, rejected, missed, stop, decodeLoss >>
      BY <1>7 DEF KernelStep, file, locals
    <2>2. (exists <=> exists') /\ (stop <=> stop')
      BY <2>1, Zenon
    <2> QED
      BY <2>1, <2>2 DEF FreshInv
  <1>8. CASE QuietStep
    <2>1. /\ UNCHANGED << taken, rejected, missed, stop, decodeLoss >>
          /\ exists => exists'
          /\ pc' \in Starting => pc \in Starting
          /\ pc' = "started" => pc = "started" \/ ~exists
      BY <1>8 DEF QuietStep
    <2>2. ~exists' \/ pc' = "started" => taken' = 0 /\ rejected' = 0 /\ missed' = 0
      BY <2>1 DEF FreshInv
    <2>3. ~stop => ~stop'
      BY <2>1, Zenon
    <2> QED
      BY <2>1, <2>2, <2>3 DEF FreshInv
  <1> QED
    BY <1>1, <1>2, <1>3, <1>4, <1>5, <1>6, <1>7, <1>8, CountSteps

\* The userspace counter does not wrap.
LEMMA DecodeCounted ==
    ASSUME TypeInv, KernelBounds, KernelBounds', RecordInv,
           HandleExec \/ HandleOpen \/ HandleSensitive \/ HandleConnect
    PROVE  CountDecodeLoss => decodeLoss' = decodeLoss + 1
  <1> USE DEF Writing, Monitoring
  <1>1. pc = "poll" /\ taken' = taken + 1 /\ taken \in Nat /\ decodeLoss \in Nat
    BY TakenRecords DEF KernelBounds, TypeInv, TypeOK
  <1>2. decodeLoss <= taken
    BY <1>1 DEF RecordInv
  <1>3. taken' <= MaxRecords /\ taken' \in Nat
    <2>1. /\ taken' \in Nat /\ rejected' \in Nat
          /\ taken' + rejected' + Len(ring') <= MaxRecords
      BY DEF KernelBounds
    <2>2. Len(ring') \in Nat
      BY TakenRecords, ConsumedRing, RingFacts, ZeroLength DEF TypeInv
    <2> QED
      BY <2>1, <2>2, CountersAssumption
  <1>4. taken + 1 < Wrap
    BY <1>1, <1>3, CountersAssumption, WrapAssumption
  <1> QED
    BY <1>1, <1>2, <1>4, WrapAssumption DEF CountDecodeLoss

\* A decoded record becomes an event or is counted, before anything else is done.
LEMMA RecordNext ==
    ASSUME TypeInv, ChainInv, LossInv, KernelBounds, KernelBounds', FreshInv, RecordInv, [Next]_vars
    PROVE  RecordInv'
  <1> USE DEF Writing, Monitoring
  <1>0. IsSequence(stream) /\ KernelEvents \in Nat /\ taken \in Nat /\ decodeLoss \in Nat
    BY KernelEventsType DEF ChainInv, KernelBounds, TypeInv, TypeOK
  <1>1. CASE HandleExec \/ HandleOpen \/ HandleSensitive \/ HandleConnect
    <2>1. pc = "poll" /\ taken' = taken + 1
      BY <1>1, TakenRecords
    <2>2. /\ KernelEvents <= taken
          /\ taken - KernelEvents <= decodeLoss
          /\ decodeLoss <= taken
      BY <2>1 DEF RecordInv
    <2>4. CountDecodeLoss => decodeLoss' = decodeLoss + 1
      BY <1>1, DecodeCounted
    <2>5. CASE SkipRecord
      <3>1. KernelEvents' = KernelEvents
        BY <2>5, KernelEventsFrame DEF SkipRecord, file
      <3> QED
        BY <1>0, <2>1, <2>2, <2>4, <2>5, <3>1 DEF RecordInv, SkipRecord
    <2>6. CASE /\ decodeLoss' = decodeLoss \/ CountDecodeLoss
               /\ \E draft : writeEvent(draft, "check") /\ draft.operation \in KernelOperations
      <3>1. PICK draft : writeEvent(draft, "check") /\ draft.operation \in KernelOperations
        BY <2>6
      <3>2. CASE pc' \notin Writing
        BY <3>2 DEF RecordInv
      <3>3. CASE pc' \in Writing
        <4>1. stream' = Append(stream, Seal(draft))
          BY <3>1, <3>3 DEF writeEvent
        <4>2. Seal(draft).operation \in KernelOperations
          BY <3>1, SealedEvent DEF Seal
        <4>3. KernelEvents' = KernelEvents + 1
          BY <1>0, <4>1, <4>2, KernelEventsAppend
        <4> QED
          BY <1>0, <2>1, <2>2, <2>4, <2>6, <4>3 DEF RecordInv
      <3> QED
        BY <3>2, <3>3
    <2> QED
      BY <1>1, <2>5, <2>6, TakenRecords
  <1>2. CASE ReadMalformed \/ AfterReadError \/ Signal \/ ReadCounter \/ KernelStep
    <2>1. /\ stream' = stream /\ UNCHANGED << taken, decodeLoss >>
          /\ pc' \in Writing => pc \in Writing
      BY <1>2 DEF ReadMalformed, Signal, ReadCounter, KernelStep, AfterReadError, locals, file, history
    <2> QED
      BY <2>1, KernelEventsFrame DEF RecordInv
  <1>3. CASE Restart \/ OpenSensor
    BY <1>3 DEF Restart, OpenSensor, RecordInv
  <1>4. CASE QuietStep
    <2>1. UNCHANGED << taken, decodeLoss >>
      BY <1>4 DEF QuietStep
    <2>2. KernelEvents' = KernelEvents
      BY <1>0, <1>4, KernelEventsFrame, KernelEventsAppend DEF QuietStep
    <2>3. CASE pc \in Writing
      BY <2>1, <2>2, <2>3 DEF RecordInv
    <2>4. CASE pc \notin Writing /\ pc' \in Writing
      <3>1. pc = "create" /\ ~exists
        BY <1>4, <2>4 DEF QuietStep
      <3>2. stream = << >> /\ taken = 0 /\ decodeLoss = 0
        BY <3>1 DEF ChainInv, FreshInv, Starting
      <3>3. KernelEvents = 0
        <4>1. { i \in 1..Len(stream) : Operation(i) \in ActivityOperations \cup { "process_exec" } } = {}
          BY <3>2
        <4> QED
          BY <4>1, FS_EmptySet DEF KernelEvents
      <3> QED
        BY <2>1, <2>2, <3>2, <3>3 DEF RecordInv
    <2> QED
      BY <2>3, <2>4 DEF RecordInv
  <1> QED
    BY <1>1, <1>2, <1>3, <1>4, CountSteps

\* A step that leaves the snapshot, the counters and the history of losses alone.
LEMMA StillReport ==
    ASSUME ReportInv, UNCHANGED << snapshot, drops, missed, counterReadError, stop >>,
           pc' \in Writing, pc \in Writing,
           pc' \in { "started", "check", "poll" } => rejected' = 0, rejected' <= 1,
           pc' = "final" <=> pc = "final",
           pc' \in { "artifact", "loss" } => stop \/ pc \in { "artifact", "loss" },
           pc' = "loss" => pc = "loss" \/ snapshot = << >>
    PROVE  ReportInv'
  <1> USE DEF Running, Writing, Monitoring
  <1>1. /\ (stop <=> stop') /\ (counterReadError <=> counterReadError')
    BY Zenon
  <1>2. /\ Seen(1, "ringbuf_drops")' = Seen(1, "ringbuf_drops")
        /\ Seen(2, "correlation_drops")' = Seen(2, "correlation_drops")
    BY DEF Seen
  <1> HIDE DEF Seen
  <1>3. pc' \in Running \ { "final" } => ~counterReadError'
    BY <1>1 DEF ReportInv
  <1>4. pc' \in { "artifact", "loss", "final" } => stop'
    BY <1>1 DEF ReportInv
  <1>5. ~stop' => missed' = 0
    BY <1>1 DEF ReportInv
  <1>6. stop' => counterReadError'
                 \/ missed' <= Seen(1, "ringbuf_drops")' + Seen(2, "correlation_drops")'
    BY <1>1, <1>2 DEF ReportInv
  <1>7. pc' \in { "loss", "final" } =>
           /\ Len(snapshot') >= 1 => snapshot'[1] <= drops'["ringbuf_drops"]
           /\ Len(snapshot') >= 2 => snapshot'[2] <= drops'["correlation_drops"]
    BY DEF ReportInv
  <1>8. pc' \in Writing
    OBVIOUS
  <1> QED
    BY <1>3, <1>4, <1>5, <1>6, <1>7, <1>8, Zenon DEF ReportInv

\* The first signal notes the losses that Loss() has not begun to read.
LEMMA SignalReport ==
    ASSUME TypeInv, LossInv, KernelBounds, ReportInv, Signal
    PROVE  ReportInv'
  <1> USE DEF Running, Writing, Monitoring
  <1>1. UNCHANGED << snapshot, drops, counterReadError, rejected >>
    BY DEF Signal, loss, kernel
  <1>2. CASE pc \notin Monitoring
    BY <1>2 DEF Signal, ReportInv, Ended
  <1>3. CASE pc \in Monitoring /\ stop
    <2>1. pc' = pc /\ missed' = missed /\ stop'
      BY <1>3 DEF Signal
    <2>2. UNCHANGED << snapshot, drops, missed, counterReadError >> /\ (counterReadError <=> counterReadError')
      BY <1>1, <2>1, Zenon
    <2>3. /\ Seen(1, "ringbuf_drops")' = Seen(1, "ringbuf_drops")
          /\ Seen(2, "correlation_drops")' = Seen(2, "correlation_drops")
      BY <2>2 DEF Seen
    <2> HIDE DEF Seen
    <2> QED
      BY <1>1, <1>3, <2>1, <2>2, <2>3 DEF ReportInv
  <1>4. CASE pc \in Monitoring /\ ~stop
    <2>1. pc' = pc /\ stop' /\ missed' = missed + drops["ringbuf_drops"] + drops["correlation_drops"]
      BY <1>4 DEF Signal
    <2>2. pc \in { "check", "poll", "error" } /\ missed = 0
      BY <1>4 DEF ReportInv
    <2>3. snapshot' = << >>
      BY <1>1, <2>2 DEF LossInv, BeforeLoss
    <2>4. /\ Seen(1, "ringbuf_drops")' = drops["ringbuf_drops"]
          /\ Seen(2, "correlation_drops")' = drops["correlation_drops"]
      BY <1>1, <2>3 DEF Seen
    <2>5. ~counterReadError'
      BY <1>1, <2>2, Zenon DEF ReportInv
    <2>6. missed' <= Seen(1, "ringbuf_drops")' + Seen(2, "correlation_drops")'
      BY <2>1, <2>2, <2>4, CountTypes
    <2> HIDE DEF Seen
    <2> QED
      BY <1>1, <2>1, <2>2, <2>3, <2>5, <2>6 DEF ReportInv
  <1> QED
    BY <1>2, <1>3, <1>4

\* The first two maps show what had been counted when they were read, or all five are
\* given up.
LEMMA ReadReport ==
    ASSUME TypeInv, LossInv, KernelBounds, ReportInv, ReadCounter
    PROVE  ReportInv'
  <1> USE DEF Running, Writing, Monitoring
  <1>1. /\ pc = "loss" /\ UNCHANGED << drops, stop, missed, rejected >>
        /\ pc' = IF Len(snapshot') = 5 THEN "final" ELSE "loss"
    BY FiveLossMaps DEF ReadCounter, kernel, history
  <1>2. stop /\ stop'
    <2>1. stop
      BY <1>1 DEF ReportInv
    <2> QED
      BY <1>1, <2>1, Zenon
  <1>3. CASE snapshot' = NoLoss /\ counterReadError' = TRUE
    <2>1. Len(snapshot') = 5 /\ \A i \in 1..5 : snapshot'[i] = 0
      BY <1>3, NoLossFacts, FiveLossMaps DEF NoLoss
    <2> QED
      BY <1>1, <1>2, <1>3, <2>1, CountTypes DEF ReportInv
  <1>4. CASE /\ snapshot' = Append(snapshot, drops[LossMaps[Len(snapshot) + 1]])
             /\ counterReadError' = FALSE
    <2> DEFINE n == Len(snapshot)
    <2>1. IsSequence(snapshot) /\ n \in Nat
      BY ZeroLength DEF TypeInv
    <2>2. /\ Len(snapshot') = n + 1
          /\ \A i \in 1..n : snapshot'[i] = snapshot[i]
          /\ snapshot'[n + 1] = drops[LossMaps[n + 1]]
      BY <1>4, <2>1, AppendFacts
    <2>3. LossMaps[1] = "ringbuf_drops" /\ LossMaps[2] = "correlation_drops"
      BY DEF LossMaps
    <2>4. ~counterReadError
      BY <1>1 DEF ReportInv
    <2>5. missed <= Seen(1, "ringbuf_drops") + Seen(2, "correlation_drops")
      BY <1>1, <1>2, <2>4 DEF ReportInv
    <2>6. /\ Seen(1, "ringbuf_drops")' = Seen(1, "ringbuf_drops")
          /\ Seen(2, "correlation_drops")' = Seen(2, "correlation_drops")
      <3>1. CASE n = 0
        BY <1>1, <2>2, <2>3, <3>1 DEF Seen
      <3>2. CASE n = 1
        <4>1. /\ Len(snapshot) = 1 /\ Len(snapshot') = 2
              /\ snapshot'[1] = snapshot[1] /\ snapshot'[2] = drops["correlation_drops"]
          BY <2>2, <2>3, <3>2
        <4> QED
          BY <1>1, <4>1 DEF Seen
      <3>3. CASE n >= 2
        BY <1>1, <2>1, <2>2, <3>3 DEF Seen
      <3>4. \A k \in Nat : k = 0 \/ k = 1 \/ k >= 2
        OBVIOUS
      <3> QED
        BY <2>1, <3>1, <3>2, <3>3, <3>4, Zenon
    <2>7. /\ Len(snapshot') >= 1 => snapshot'[1] <= drops'["ringbuf_drops"]
          /\ Len(snapshot') >= 2 => snapshot'[2] <= drops'["correlation_drops"]
      <3>1. /\ n >= 1 => snapshot[1] <= drops["ringbuf_drops"]
            /\ n >= 2 => snapshot[2] <= drops["correlation_drops"]
        BY <1>1 DEF ReportInv
      <3>2. CASE n = 0
        BY <1>1, <2>2, <2>3, <3>2, CountTypes
      <3>3. CASE n = 1
        <4>1. /\ Len(snapshot') = 2
              /\ snapshot'[1] = snapshot[1] /\ snapshot'[2] = drops["correlation_drops"]
          BY <2>2, <2>3, <3>3
        <4> QED
          BY <1>1, <3>1, <3>3, <4>1, CountTypes
      <3>4. CASE n >= 2
        BY <1>1, <2>1, <2>2, <3>1, <3>4
      <3>5. \A k \in Nat : k = 0 \/ k = 1 \/ k >= 2
        OBVIOUS
      <3> QED
        BY <2>1, <3>2, <3>3, <3>4, <3>5, Zenon
    <2> HIDE DEF Seen, n
    <2>8. missed' <= Seen(1, "ringbuf_drops")' + Seen(2, "correlation_drops")'
      BY <1>1, <2>5, <2>6
    <2>9. ~counterReadError'
      BY <1>4
    <2>10. pc' \in { "loss", "final" }
      BY <1>1
    <2> QED
      BY <1>1, <1>2, <2>7, <2>8, <2>9, <2>10 DEF ReportInv
  <1> QED
    BY <1>3, <1>4 DEF ReadCounter

\* Counters only grow while main runs, so what Loss() will read only grows.
LEMMA KernelReport ==
    ASSUME TypeInv, LossInv, KernelBounds, ReportInv, KernelStep, [Next]_vars
    PROVE  ReportInv'
  <1> USE DEF Running, Writing, Monitoring
  <1>1. /\ pc' = pc /\ pc \in Writing \cup { "create" }
        /\ UNCHANGED << snapshot, counterReadError, stop, rejected, missed >>
    BY DEF KernelStep, loss
  <1>2. (stop <=> stop') /\ (counterReadError <=> counterReadError')
    BY <1>1, Zenon
  <1>3. /\ drops'["ringbuf_drops"] \in Nat /\ drops'["ringbuf_drops"] >= drops["ringbuf_drops"]
        /\ drops'["correlation_drops"] \in Nat
        /\ drops'["correlation_drops"] >= drops["correlation_drops"]
    <2>1. drops' \in [ Source!Counters -> Nat ] /\ \A c \in Source!Counters : drops'[c] >= drops[c]
      BY <1>1, DropSteps DEF LossInv
    <2> QED
      BY <2>1, CounterNames
  <1>4. IsSequence(snapshot) /\ Len(snapshot) \in Nat
    BY ZeroLength DEF TypeInv
  <1>5. pc \in BeforeLoss => Len(snapshot) = 0
    BY <1>4, ZeroLength DEF LossInv
  <1>6. \A i \in 1..Len(snapshot) : snapshot[i] \in Nat
    <2>1. CASE pc \in { "loss", "final" }
      BY <2>1 DEF LossInv
    <2>2. CASE pc \notin { "loss", "final" }
      <3>1. Len(snapshot) = 0
        BY <1>1, <1>5, <2>2 DEF BeforeLoss
      <3> QED
        BY <3>1
    <2> QED
      BY <2>1, <2>2
  <1>7. /\ Seen(1, "ringbuf_drops") \in Nat /\ Seen(1, "ringbuf_drops")' \in Nat
        /\ Seen(1, "ringbuf_drops")' >= Seen(1, "ringbuf_drops")
    BY <1>1, <1>3, <1>4, <1>6, CountTypes DEF Seen
  <1>8. /\ Seen(2, "correlation_drops") \in Nat /\ Seen(2, "correlation_drops")' \in Nat
        /\ Seen(2, "correlation_drops")' >= Seen(2, "correlation_drops")
    BY <1>1, <1>3, <1>4, <1>6, CountTypes DEF Seen
  <1> HIDE DEF Seen
  <1>9. pc' \in Writing /\ stop' => counterReadError'
                 \/ missed' <= Seen(1, "ringbuf_drops")' + Seen(2, "correlation_drops")'
    <2> SUFFICES ASSUME pc' \in Writing, stop', ~counterReadError'
                 PROVE  missed' <= Seen(1, "ringbuf_drops")' + Seen(2, "correlation_drops")'
      OBVIOUS
    <2>1. missed <= Seen(1, "ringbuf_drops") + Seen(2, "correlation_drops")
      BY <1>1, <1>2 DEF ReportInv
    <2>2. missed' = missed /\ missed \in Nat
      BY <1>1, CountTypes
    <2> QED
      BY <1>7, <1>8, <2>1, <2>2
  <1>10. pc' \in { "loss", "final" } =>
           /\ Len(snapshot') >= 1 => snapshot'[1] <= drops'["ringbuf_drops"]
           /\ Len(snapshot') >= 2 => snapshot'[2] <= drops'["correlation_drops"]
    <2> SUFFICES ASSUME pc \in { "loss", "final" }
                 PROVE  /\ Len(snapshot) >= 1 => snapshot[1] <= drops'["ringbuf_drops"]
                        /\ Len(snapshot) >= 2 => snapshot[2] <= drops'["correlation_drops"]
      BY <1>1
    <2>1. /\ Len(snapshot) >= 1 => snapshot[1] <= drops["ringbuf_drops"]
          /\ Len(snapshot) >= 2 => snapshot[2] <= drops["correlation_drops"]
      BY DEF ReportInv
    <2>2. /\ Len(snapshot) >= 1 => snapshot[1] \in Nat
          /\ Len(snapshot) >= 2 => snapshot[2] \in Nat
      BY <1>4, <1>6
    <2>3. drops["ringbuf_drops"] \in Nat /\ drops["correlation_drops"] \in Nat
      BY CountTypes
    <2>4. /\ Len(snapshot) >= 1 => snapshot[1] <= drops'["ringbuf_drops"]
      BY <1>3, <2>1, <2>2, <2>3
    <2>5. /\ Len(snapshot) >= 2 => snapshot[2] <= drops'["correlation_drops"]
      BY <1>3, <2>1, <2>2, <2>3
    <2> QED
      BY <2>4, <2>5
  <1>11. /\ pc' \in Running \ { "final" } => ~counterReadError'
         /\ pc' \in { "artifact", "loss", "final" } => stop'
         /\ pc' \in { "started", "check", "poll" } => rejected' = 0
         /\ pc' \in Writing => rejected' <= 1
         /\ pc' \in Writing /\ ~stop' => missed' = 0
    BY <1>1, <1>2 DEF ReportInv
  <1> QED
    BY <1>9, <1>10, <1>11, Zenon DEF ReportInv

\* Every step keeps the report in step with what was lost.
LEMMA ReportNext ==
    ASSUME TypeInv, ChainInv, LossInv, KernelBounds, FreshInv, ReportInv, [Next]_vars
    PROVE  ReportInv'
  <1> USE DEF Running, Writing, Monitoring
  <1>1. CASE HandleExec \/ HandleOpen \/ HandleSensitive \/ HandleConnect
    <2>1. /\ pc = "poll" /\ UNCHANGED << snapshot, drops, missed, counterReadError, stop, rejected >>
      BY <1>1, TakenRecords DEF loss
    <2>2. pc' = "check" \/ pc' = "fatal"
      BY <1>1, TakenRecords DEF SkipRecord, writeEvent
    <2>3. rejected = 0
      BY <2>1 DEF ReportInv
    <2> QED
      BY <2>1, <2>2, <2>3, StillReport DEF ReportInv
  <1>2. CASE ReadMalformed
    <2>1. /\ pc = "poll" /\ UNCHANGED << snapshot, drops, missed, counterReadError, stop >>
          /\ pc' = "error" /\ rejected' = rejected + 1
      BY <1>2 DEF ReadMalformed, loss, Source!Consume
    <2>2. rejected' = 1
      BY <2>1 DEF ReportInv
    <2> QED
      BY <2>1, <2>2, StillReport
  <1>6. CASE AfterReadError
    <2>1. /\ pc = "error" /\ UNCHANGED << snapshot, drops, counterReadError, stop, rejected >>
          /\ IF stop THEN pc' = "artifact" /\ missed' = missed ELSE pc' = "fatal"
      BY <1>6 DEF AfterReadError, loss, kernel
    <2>2. CASE stop
      <3>1. rejected <= 1
        BY <2>1 DEF ReportInv
      <3> QED
        BY <2>1, <2>2, <3>1, StillReport
    <2>3. CASE ~stop
      BY <2>1, <2>3 DEF ReportInv
    <2> QED
      BY <2>2, <2>3
  <1>3. CASE Restart
    <2>1. pc' = "flags" /\ counterReadError' = FALSE
      BY <1>3 DEF Restart
    <2> QED
      BY <2>1 DEF ReportInv
  <1>4. CASE OpenSensor
    <2>1. pc = "open" /\ pc' \in { "create", "fatal" } /\ counterReadError' = counterReadError
      BY <1>4 DEF OpenSensor, loss
    <2>2. ~counterReadError'
      BY <2>1, Zenon DEF ReportInv
    <2> QED
      BY <2>1, <2>2 DEF ReportInv
  <1>5. CASE QuietStep
    <2>1. /\ UNCHANGED << snapshot, drops, missed, counterReadError, stop, rejected >>
          /\ pc' = "final" => pc = "final"
          /\ pc' \in Writing => pc # "final" \/ pc' = "final"
          /\ pc' \in { "artifact", "loss" } => stop \/ pc \in { "artifact", "loss" }
          /\ pc' = "loss" => pc \in { "artifact", "loss" }
          /\ pc' = "started" => pc = "started" \/ (pc = "create" /\ ~exists)
          /\ pc' \in Monitoring => pc \in Writing
          /\ pc' \in Starting => pc \in Starting
          /\ pc' \in { "check", "poll" } => pc \in { "started", "check", "poll" }
      BY <1>5 DEF QuietStep
    <2>2. CASE pc' \in Writing /\ pc \in Writing
      <3>1. pc' = "loss" => pc = "loss" \/ snapshot = << >>
        BY <2>1 DEF LossInv, BeforeLoss
      <3>2. rejected' <= 1 /\ (pc' \in { "started", "check", "poll" } => rejected' = 0)
        BY <2>1, <2>2 DEF ReportInv
      <3> QED
        BY <2>1, <2>2, <3>1, <3>2, StillReport
    <2>3. CASE pc' \in Writing /\ pc \notin Writing
      <3>1. pc' = "started" /\ pc = "create" /\ ~exists
        BY <2>1, <2>3
      <3>2. ~stop /\ ~counterReadError /\ rejected = 0 /\ missed = 0
        BY <3>1 DEF FreshInv, Starting, ReportInv
      <3>3. ~stop' /\ ~counterReadError'
        BY <2>1, <3>2, Zenon
      <3> QED
        BY <2>1, <3>1, <3>2, <3>3 DEF ReportInv
    <2>4. CASE pc' \in { "flags", "open", "create" }
      <3>1. pc \in Starting
        BY <2>1, <2>4 DEF Starting
      <3>2. ~counterReadError'
        <4>1. pc \in Running \ { "final" }
          BY <3>1 DEF Starting
        <4> QED
          BY <2>1, <4>1, Zenon DEF ReportInv
      <3> QED
        BY <2>4, <3>2 DEF ReportInv
    <2>5. CASE pc' \notin Running
      BY <2>5 DEF ReportInv
    <2> QED
      BY <2>2, <2>3, <2>4, <2>5
  <1> QED
    BY <1>1, <1>2, <1>3, <1>4, <1>5, <1>6, SignalReport, ReadReport, KernelReport, CountSteps

\* A counter that uintResource accepts is not larger than the value reported.
LEMMA UintBound ==
    ASSUME NEW resource, NEW key \in DOMAIN resource, resource[key] \in Nat
    PROVE  uintResource(resource, key) <= resource[key]
  <1>1. Wrap \div 2 \in Nat /\ Wrap \div 2 > 0
    BY WrapAssumption
  <1>2. CASE resource[key] \in 0..(Wrap \div 2 - 1)
    BY <1>2 DEF uintResource
  <1>3. CASE resource[key] \notin 0..(Wrap \div 2 - 1)
    BY <1>1, <1>3 DEF uintResource
  <1> QED
    BY <1>2, <1>3

\* The final event of a collector reports no loss only when there was none.
LEMMA FinalReport ==
    ASSUME TypeInv, ChainInv, LossInv, KernelBounds, RecordInv, ReportInv, pc = "final",
           NEW event, event.operation = "sensor_finalized", event.resource = FinalResource,
           NEW s, s = Append(stream, event), StreamCompleteness(s) = "complete"
    PROVE  taken = KernelEvents /\ missed = 0 /\ decodeLoss = 0
  <1> USE DEF Writing, Monitoring
  <1>1. /\ IsSequence(stream) /\ KernelEvents \in Nat /\ decodeLoss \in Nat
        /\ taken \in Nat /\ rejected \in Nat /\ missed \in Nat
    BY KernelEventsType, CountTypes DEF ChainInv, TypeInv, TypeOK
  <1>2. s[Len(s)] = event
    BY <1>1, AppendFacts
  <1>3. /\ Len(snapshot) = 5 /\ snapshot[1] \in Nat /\ snapshot[2] \in Nat
        /\ snapshot[1] <= drops["ringbuf_drops"] /\ snapshot[2] <= drops["correlation_drops"]
    <2>1. Len(snapshot) = 5 /\ \A i \in 1..Len(snapshot) : snapshot[i] \in Nat
      BY DEF LossInv
    <2>2. /\ Len(snapshot) >= 1 => snapshot[1] <= drops["ringbuf_drops"]
          /\ Len(snapshot) >= 2 => snapshot[2] <= drops["correlation_drops"]
      BY DEF ReportInv
    <2> QED
      BY <2>1, <2>2
  <1>4. /\ DOMAIN event.resource = LossFields \cup { "kernel_path_read", "kernel_map_update",
                                        "kernel_cgroup_mismatch", "counter_read_error" }
        /\ event.resource["kernel_reserve"] = snapshot[1]
        /\ event.resource["kernel_correlation"] = snapshot[2]
        /\ event.resource["decode"] = decodeLoss
        /\ event.resource["queue"] = 0 /\ event.resource["persistence"] = 0
        /\ event.resource.counter_read_error = counterReadError
    BY DEF FinalResource, LossFields
  <1>5. ReportFits(s)
    <2> DEFINE u(f) == uintResource(event.resource, f)
    <2>1. ReportedLoss(s) = u("kernel_reserve") + u("kernel_correlation") + u("decode")
                              + u("queue") + u("persistence")
      BY <1>2 DEF ReportedLoss, lossFromFinalEvent, LossFields
    <2>2. /\ u("kernel_reserve") \in Nat /\ u("kernel_correlation") \in Nat /\ u("decode") \in Nat
          /\ u("queue") \in Nat /\ u("persistence") \in Nat
      BY UintFacts
    <2>3. /\ u("kernel_reserve") <= snapshot[1] /\ u("kernel_correlation") <= snapshot[2]
          /\ u("decode") <= decodeLoss /\ u("queue") <= 0 /\ u("persistence") <= 0
      <3>1. \A f \in LossFields : f \in DOMAIN event.resource
        BY <1>4
      <3>2. u("kernel_reserve") <= snapshot[1]
        BY <1>3, <1>4, <3>1, UintBound DEF LossFields
      <3>3. u("kernel_correlation") <= snapshot[2]
        BY <1>3, <1>4, <3>1, UintBound DEF LossFields
      <3>4. u("decode") <= decodeLoss
        BY <1>1, <1>4, <3>1, UintBound DEF LossFields
      <3>5. u("queue") <= 0
        BY <1>4, <3>1, UintBound DEF LossFields
      <3>6. u("persistence") <= 0
        BY <1>4, <3>1, UintBound DEF LossFields
      <3> QED
        BY <3>2, <3>3, <3>4, <3>5, <3>6
    <2>4. decodeLoss <= MaxRecords
      <3>1. decodeLoss <= taken
        BY DEF RecordInv
      <3>2. taken + rejected + Len(ring) <= MaxRecords /\ Len(ring) \in Nat
        BY CountTypes DEF KernelBounds
      <3> QED
        BY <1>1, <3>1, <3>2, CountersAssumption
    <2>5. snapshot[1] + snapshot[2] <= MaxDrops
      <3>1. /\ drops["ringbuf_drops"] + Source!CausesCounted <= MaxDrops
            /\ drops["correlation_drops"] <= Source!CausesCounted
        BY DEF KernelBounds, LossInv
      <3>2. Source!CausesCounted \in Nat
        BY CountTypes DEF Source!CausesCounted
      <3>3. drops["ringbuf_drops"] \in Nat /\ drops["correlation_drops"] \in Nat
        BY CountTypes
      <3> QED
        BY <1>3, <3>1, <3>2, <3>3, CountersAssumption
    <2> HIDE DEF u
    <2>6. u("kernel_reserve") + u("kernel_correlation") + u("decode") + u("queue") + u("persistence")
            <= MaxDrops + MaxRecords
      BY <1>1, <1>3, <2>2, <2>3, <2>4, <2>5, CountersAssumption
    <2> QED
      BY <2>1, <2>2, <2>6, CountersAssumption, WrapAssumption DEF ReportFits
  <1>6. Lossless(s)
    BY <1>5, CompleteFacts
  <1>7. snapshot[1] = 0 /\ snapshot[2] = 0 /\ decodeLoss = 0 /\ ~counterReadError
    <2>1. /\ \A f \in LossFields : LossReport(s)[f] = 0
          /\ ~LossReport(s).counter_read_error
      BY <1>6 DEF Lossless
    <2>2. LossReport(s) = event.resource
      BY <1>2 DEF LossReport
    <2> QED
      BY <1>4, <2>1, <2>2 DEF LossFields
  <1>8. taken = KernelEvents
    BY <1>1, <1>7 DEF RecordInv
  <1>9. missed = 0
    <2>1. stop
      BY DEF ReportInv
    <2>2. missed <= Seen(1, "ringbuf_drops") + Seen(2, "correlation_drops")
      BY <1>7, <2>1 DEF ReportInv
    <2> QED
      BY <1>1, <1>3, <1>7, <2>2 DEF Seen
  <1> QED
    BY <1>7, <1>8, <1>9

\* Without a process that holds the evidence file nothing is written and nothing read.
LEMMA FrozenStep ==
    ASSUME [Next]_vars, pc \notin Writing
    PROVE  UNCHANGED << stream, torn, taken, rejected, missed >>
  <1> USE DEF Writing, Monitoring
  <1>1. stream' = stream /\ torn' = torn
    BY FileSteps DEF FileStep, file, CreateEvidence, Lifecycle
  <1>2. UNCHANGED << taken, rejected, missed >>
    <2>1. CASE HandleExec \/ HandleOpen \/ HandleSensitive \/ HandleConnect
      BY <2>1, TakenRecords
    <2>2. CASE ReadMalformed \/ AfterReadError \/ Signal \/ ReadCounter \/ Restart \/ OpenSensor
      BY <2>2 DEF ReadMalformed, AfterReadError, Signal, ReadCounter, Restart, OpenSensor, history
    <2>3. CASE KernelStep \/ QuietStep
      BY <2>3 DEF KernelStep, QuietStep
    <2> QED
      BY <2>1, <2>2, <2>3, CountSteps
  <1> QED
    BY <1>1, <1>2

\* Complete evidence is finished: no process writes to it any more.
LEMMA CompleteIsClosed ==
    ASSUME ChainInv, LifeInv, EvidenceComplete
    PROVE  pc \notin Writing /\ stream # << >> /\ stream[Len(stream)].operation = "sensor_finalized"
  <1>1. stream # << >> /\ stream[Len(stream)].operation = "sensor_finalized"
    BY DEF EvidenceComplete, StreamCompleteness, completeness
  <1> QED
    BY <1>1 DEF LifeInv, LastOperation, ChainInv, Writing, Monitoring

\* From "final" on only the final event can be added to the stream.
LEMMA OnlyFinalWrites ==
    ASSUME [Next]_vars, pc = "final", stream' # stream
    PROVE  WriteFinalized
  BY DEF Next, CollectorStep, Environment, vars, ParseFlags, OpenSensor, CreateEvidence, WriteStarted,
         CheckContext, PollDeadline, ReadError, ReadMalformed, AfterReadError, HandleExec, HandleOpen,
         HandleSensitive, HandleConnect, TakeRecord, FinalizeArtifact, ReadCounter, Signal, Crash,
         Restart, KernelReserve, KernelSubmit, KernelCauseDrop, KernelCorrelationDrop, Tick,
         Suspend, file

\* Evidence is complete because it was, or because the final event was written now and
\* had nothing to report.
LEMMA CompletedStep ==
    ASSUME TypeInv, ChainInv, ChainInv', LifeInv, LossInv, WitnessInv, [Next]_vars,
           EvidenceComplete'
    PROVE  \/ pc \notin Writing /\ EvidenceComplete
           \/ /\ pc = "final" /\ UNCHANGED << taken, rejected, missed >>
              /\ taken = KernelEvents /\ rejected <= 1 /\ missed = 0 /\ decodeLoss = 0
              /\ \E e : stream' = Append(stream, e) /\ e.operation = "sensor_finalized"
  <1> USE DEF Writing, Monitoring
  <1>1. /\ stream' # << >> /\ ~torn' /\ StreamCompleteness(stream') = "complete"
        /\ IsSequence(stream) /\ IsSequence(stream')
    BY DEF EvidenceComplete, ChainInv
  <1>2. stream'[Len(stream')].operation = "sensor_finalized"
    BY <1>1 DEF StreamCompleteness, completeness
  <1>3. CASE pc \notin Writing
    <2>1. UNCHANGED << stream, torn >>
      BY <1>3, FrozenStep
    <2>2. ~torn
      BY <1>1, <2>1, Zenon
    <2> QED
      BY <1>1, <1>3, <2>1, <2>2 DEF EvidenceComplete
  <1>4. CASE pc \in Writing /\ stream' = stream
    <2>1. stream # << >> /\ stream[Len(stream)].operation = "sensor_finalized"
      BY <1>1, <1>2, <1>4
    <2> QED
      BY <1>4, <2>1 DEF LifeInv, LastOperation, ChainInv
  <1>5. CASE pc \in Writing /\ stream' # stream
    <2>1. PICK draft, next : writeEvent(draft, next) /\ Lifecycle(draft.operation, next)
      BY <1>5, FileSteps DEF FileStep, file, CreateEvidence
    <2>2. stream' = Append(stream, Seal(draft)) /\ Seal(draft).operation = draft.operation
      BY <1>5, <2>1, SealedEvent DEF writeEvent, Seal
    <2>3. draft.operation = "sensor_finalized"
      BY <1>1, <1>2, <2>2, AppendFacts
    <2>4. pc = "final"
      BY <2>1, <2>3 DEF Lifecycle
    <2>5. WriteFinalized
      BY <1>5, <2>4, OnlyFinalWrites
    <2> DEFINE event == Seal(Draft("sensor_finalized", boottimeNS, Missing, FinalResource))
    <2>6. stream' = Append(stream, event)
      BY <1>5, <2>5 DEF WriteFinalized, writeEvent
    <2>7. event.operation = "sensor_finalized" /\ event.resource = FinalResource
      BY DEF Seal, ChainEvent, WithHash, Draft
    <2> HIDE DEF event
    <2>8. taken = KernelEvents /\ missed = 0 /\ decodeLoss = 0
      BY <1>1, <2>4, <2>6, <2>7, FinalReport DEF WitnessInv
    <2>9. UNCHANGED << taken, rejected, missed >>
      BY <2>5 DEF WriteFinalized, history
    <2>10. rejected <= 1
      BY <2>4 DEF WitnessInv, ReportInv
    <2> QED
      BY <2>4, <2>6, <2>7, <2>8, <2>9, <2>10
  <1> QED
    BY <1>3, <1>4, <1>5

\* Once a stream is finished, neither it nor what it stands for changes; until then it
\* does not call itself complete.
LEMMA CompleteNext ==
    ASSUME TypeInv, ChainInv, ChainInv', LifeInv, LossInv, WitnessInv, [Next]_vars
    PROVE  CompleteEvidenceIsLossless'
  <1> SUFFICES ASSUME EvidenceComplete' PROVE (taken = KernelEvents /\ rejected <= 1 /\ missed = 0)'
    BY DEF CompleteEvidenceIsLossless
  <1>1. CASE pc \notin Writing /\ EvidenceComplete
    <2>1. taken = KernelEvents /\ rejected <= 1 /\ missed = 0
      BY <1>1 DEF WitnessInv, CompleteEvidenceIsLossless
    <2> QED
      BY <1>1, <2>1, FrozenStep, KernelEventsFrame
  <1>2. CASE /\ pc = "final" /\ UNCHANGED << taken, rejected, missed >>
             /\ taken = KernelEvents /\ rejected <= 1 /\ missed = 0 /\ decodeLoss = 0
             /\ \E e : stream' = Append(stream, e) /\ e.operation = "sensor_finalized"
    <2>1. KernelEvents' = KernelEvents
      BY <1>2, KernelEventsAppend DEF KernelOperations, ActivityOperations, ChainInv
    <2> QED
      BY <1>2, <2>1
  <1> QED
    BY <1>1, <1>2, CompletedStep

\* Nothing has been read, lost or written at first.
LEMMA WitnessInvInit == Init => WitnessInv
  <1> SUFFICES ASSUME Init PROVE WitnessInv
    OBVIOUS
  <1>1. /\ pc = "flags" /\ ~stop /\ decodeLoss = 0 /\ ~counterReadError /\ stream = << >>
        /\ Len(ring) = 0 /\ drops = [ c \in Source!Counters |-> 0 ]
        /\ taken = 0 /\ rejected = 0 /\ missed = 0
    BY DEF Init, Source!Fresh
  <1>2. KernelBounds
    BY <1>1, CounterNames, CountersAssumption DEF KernelBounds, Source!CausesCounted
  <1> QED
    BY <1>1, <1>2 DEF WitnessInv, FreshInv, RecordInv, ReportInv, CompleteEvidenceIsLossless,
                      EvidenceComplete, Writing, Monitoring

\* Every step preserves the inductive invariant.
LEMMA WitnessInvNext ==
    TypeInv /\ ChainInv /\ ChainInv' /\ LifeInv /\ LossInv /\ WitnessInv /\ [Next]_vars
        => WitnessInv'
  BY BoundsNext, FreshNext, RecordNext, ReportNext, CompleteNext DEF WitnessInv

\* For every set of command lines and records, evidence that calls itself complete has
\* an event for every record main decoded, and no kernel loss had been counted and no
\* record refused when the collector was stopped.
THEOREM CompleteMeansLossless == Spec => []CompleteEvidenceIsLossless
  <1>1. ChainInv /\ LifeInv /\ [Next]_vars => LifeInv'
    BY StepImplements
  <1>2. Init => LifeInv
    BY InitImplements
  <1>3. WitnessInv => CompleteEvidenceIsLossless
    BY DEF WitnessInv
  <1> QED
    BY <1>1, <1>2, <1>3, WitnessInvInit, WitnessInvNext, LossInvInit, LossInvNext, TypeInvInit,
       TypeInvNext, ChainInvInit, ChainInvNext, PTL DEF Spec

-----------------------------------------------------------------------------
(* What an ALLOW of the whole path means                                   *)

\* Some event shows what the policy forbids.
Violates(events) ==
    \/ \E i \in Of(events, "process_exec") :
          events[i].process.executable \notin Policy.allowed_executables
    \/ \E i \in Of(events, "network_connect") :
          Member(events[i].resource, "destination") \notin Policy.allowed_network_destinations
    \/ \E i \in Of(events, "file_open_sensitive") :
          Member(events[i].resource, "category") \in Policy.forbidden_sensitive_categories

HashesBytes(events, bytes) ==
    \A i \in Finalizations(events) : Member(events[i].resource, "sha256") = Digest(bytes)

\* The digest in the evidence is that of the bytes main hashed.
HashInv ==
    /\ pc \in Writing \ { "loss", "final" } => Finalizations(stream) = {}
    /\ pc \in { "loss", "final" } \/ EvidenceComplete => HashesBytes(stream, hashed)

\* A forbidden record has an event that shows it, or was counted as a loss.
ForbidInv ==
    /\ ~exists \/ pc = "started" => ~forbidden
    /\ pc \in Writing /\ forbidden => decodeLoss > 0 \/ Violates(stream)
    /\ EvidenceComplete /\ forbidden => Violates(stream)

\* What verify-fixture allowed stays as it was.
ReleaseInv ==
    Allowed => EvidenceComplete /\ verdict.artifact = hashed /\ ~Violates(stream)

\* The inductive invariant of the whole path.
CollectInv == TypeInv /\ ChainInv /\ LifeInv /\ LossInv /\ WitnessInv

PathInv == CollectInv /\ HashInv /\ ForbidInv /\ ReleaseInv

\* Digests of different bytes differ.
LEMMA DigestInjective == \A a, b : Digest(a) = Digest(b) => a = b
  BY DEF Digest

\* A policy that is satisfied is not violated.
LEMMA PermittedFacts ==
    ASSUME NEW events, BehaviourPermitted(events, Policy)
    PROVE  ~Violates(events)
  BY DEF BehaviourPermitted, Violates

\* What a longer stream shows.
LEMMA ViolatesAppend ==
    ASSUME NEW s, NEW e, IsSequence(s)
    PROVE  /\ Violates(s) => Violates(Append(s, e))
           /\ e.operation = "process_exec" /\ e.process.executable \notin Policy.allowed_executables
                => Violates(Append(s, e))
           /\ (/\ e.operation = "network_connect"
               /\ Member(e.resource, "destination") \notin Policy.allowed_network_destinations)
                => Violates(Append(s, e))
           /\ (/\ e.operation = "file_open_sensitive"
               /\ Member(e.resource, "category") \in Policy.forbidden_sensitive_categories)
                => Violates(Append(s, e))
  <1> DEFINE t == Append(s, e)
  <1>1. /\ Len(s) \in Nat /\ Len(t) = Len(s) + 1
        /\ \A i \in 1..Len(s) : t[i] = s[i]
        /\ t[Len(s) + 1] = e
    BY AppendFacts
  <1> HIDE DEF t
  <1>2. /\ \A o : \A i \in Of(s, o) : i \in Of(t, o) /\ t[i] = s[i]
        /\ Len(s) + 1 \in Of(t, e.operation)
    BY <1>1 DEF Of
  <1>3. Violates(s) => Violates(t)
    BY <1>2 DEF Violates
  <1>4. /\ e.operation = "process_exec" /\ e.process.executable \notin Policy.allowed_executables
                => Violates(t)
    BY <1>1, <1>2 DEF Violates
  <1>5. /\ (/\ e.operation = "network_connect"
            /\ Member(e.resource, "destination") \notin Policy.allowed_network_destinations)
             => Violates(t)
    BY <1>1, <1>2 DEF Violates
  <1>6. /\ (/\ e.operation = "file_open_sensitive"
            /\ Member(e.resource, "category") \in Policy.forbidden_sensitive_categories)
             => Violates(t)
    BY <1>1, <1>2 DEF Violates
  <1> QED
    BY <1>3, <1>4, <1>5, <1>6 DEF t

\* Only the switch of main decodes a record.
LEMMA TakingSteps ==
    ASSUME KernelBounds, [Next]_vars, taken' > taken
    PROVE  HandleExec \/ HandleOpen \/ HandleSensitive \/ HandleConnect
  <1>1. taken \in Nat
    BY DEF KernelBounds
  <1>2. ReadMalformed \/ AfterReadError \/ Signal \/ ReadCounter \/ Restart \/ OpenSensor
           => taken' = taken
    BY DEF ReadMalformed, AfterReadError, Signal, ReadCounter, Restart, OpenSensor, history
  <1>3. KernelStep \/ QuietStep => taken' = taken
    BY DEF KernelStep, QuietStep
  <1> QED
    BY <1>1, <1>2, <1>3, CountSteps

\* Main writes what is forbidden about a record, or counts it.
LEMMA ForbiddenTaken ==
    ASSUME IsSequence(stream), HandleExec \/ HandleOpen \/ HandleSensitive \/ HandleConnect,
           ForbiddenRecord(ring[1]), pc' \in Writing
    PROVE  CountDecodeLoss \/ Violates(stream')
  <1> USE DEF Writing, Monitoring
  <1>1. ASSUME NEW draft, writeEvent(draft, "check")
        PROVE  /\ stream' = Append(stream, Seal(draft))
               /\ Seal(draft).operation = draft.operation
               /\ Seal(draft).process = draft.process
               /\ Seal(draft).resource = draft.resource
    <2>1. stream' = Append(stream, Seal(draft))
      BY <1>1 DEF writeEvent
    <2> QED
      BY <2>1 DEF Seal, ChainEvent, WithHash
  <1>2. CASE HandleExec
    <2> DEFINE draft == Draft("process_exec", ring[1].monotonic_ns, Head1, NoResource)
    <2>1. writeEvent(draft, "check") /\ ring[1].kind = "exec"
      BY <1>2 DEF HandleExec, TakeRecord
    <2>2. draft.operation = "process_exec" /\ draft.process.executable = ring[1].filename
      BY DEF Draft, Head1, processFromKernel
    <2>3. ring[1].filename \notin Policy.allowed_executables
      BY <2>1 DEF ForbiddenRecord
    <2> HIDE DEF draft
    <2>4. /\ stream' = Append(stream, Seal(draft)) /\ Seal(draft).operation = "process_exec"
          /\ Seal(draft).process.executable \notin Policy.allowed_executables
      BY <1>1, <2>1, <2>2, <2>3
    <2> QED
      BY <2>4, ViolatesAppend
  <1>3. CASE HandleOpen
    <2>1. ring[1].kind = "open"
      BY <1>3 DEF HandleOpen, TakeRecord
    <2> QED
      BY <2>1 DEF ForbiddenRecord
  <1>4. CASE HandleSensitive /\ ~SkipRecord
    <2> DEFINE draft == Draft("file_open_sensitive", ring[1].monotonic_ns, Observed,
                              [ category |-> flags.sensitive_category ])
    <2>1. writeEvent(draft, "check") /\ ring[1].kind = "sensitive"
      BY <1>4 DEF HandleSensitive, TakeRecord
    <2>2. /\ draft.operation = "file_open_sensitive"
          /\ Member(draft.resource, "category") = flags.sensitive_category
      BY DEF Draft, Member
    <2>3. flags.sensitive_category \in Policy.forbidden_sensitive_categories
      BY <2>1 DEF ForbiddenRecord
    <2> HIDE DEF draft
    <2>4. /\ stream' = Append(stream, Seal(draft)) /\ Seal(draft).operation = "file_open_sensitive"
          /\ Member(Seal(draft).resource, "category") \in Policy.forbidden_sensitive_categories
      BY <1>1, <2>1, <2>2, <2>3
    <2> QED
      BY <2>4, ViolatesAppend
  <1>5. CASE HandleConnect /\ ~SkipRecord
    <2> DEFINE draft == Draft("network_connect", ring[1].monotonic_ns, Observed,
                              [ destination |-> ipv4Destination(ring[1]) ])
    <2>1. writeEvent(draft, "check") /\ ring[1].kind = "connect4"
      BY <1>5 DEF HandleConnect, TakeRecord
    <2>2. /\ draft.operation = "network_connect"
          /\ Member(draft.resource, "destination") = ipv4Destination(ring[1])
      BY DEF Draft, Member
    <2>3. ipv4Destination(ring[1]) \notin Policy.allowed_network_destinations
      BY <2>1 DEF ForbiddenRecord
    <2> HIDE DEF draft
    <2>4. /\ stream' = Append(stream, Seal(draft)) /\ Seal(draft).operation = "network_connect"
          /\ Member(Seal(draft).resource, "destination") \notin Policy.allowed_network_destinations
      BY <1>1, <2>1, <2>2, <2>3
    <2> QED
      BY <2>4, ViolatesAppend
  <1>6. SkipRecord => CountDecodeLoss
    BY DEF SkipRecord
  <1> QED
    BY <1>2, <1>3, <1>4, <1>5, <1>6

\* A step of the path is a step of the collector, or leaves it alone.
LEMMA PathSteps ==
    ASSUME [PipelineNext]_pipeline
    PROVE  /\ [Next]_vars
           /\ \/ CollectorOrKernel
              \/ UNCHANGED << vars, hashed, forbidden >> /\ (VerifyFixture \/ verdict' = verdict)
  BY DEF PipelineNext, pipeline, outputs, BuildWrites, RecordProvenance, AssembleBundle,
         VerifyFixture, CollectorOrKernel

\* The collector's invariants hold on the whole path.
LEMMA CollectInvNext ==
    ASSUME CollectInv, [Next]_vars
    PROVE  CollectInv'
  <1> USE DEF CollectInv
  <1>1. TypeInv' /\ ChainInv'
    BY TypeInvNext, ChainInvNext
  <1>2. LifeInv' /\ LossInv'
    BY StepImplements, LossInvNext
  <1>3. WitnessInv'
    BY <1>1, WitnessInvNext
  <1> QED
    BY <1>1, <1>2, <1>3

\* Evidence that was complete stays as it is.
LEMMA CompleteStays ==
    ASSUME CollectInv, EvidenceComplete, [PipelineNext]_pipeline
    PROVE  /\ EvidenceComplete' /\ stream' = stream
           /\ hashed' = hashed
           /\ CollectorOrKernel => (forbidden' <=> forbidden)
  <1> USE DEF Writing, Monitoring
  <1>1. pc \notin Writing
    BY CompleteIsClosed DEF CollectInv
  <1>2. UNCHANGED << stream, torn, taken >>
    BY <1>1, PathSteps, FrozenStep
  <1>3. EvidenceComplete'
    <2>1. ~torn'
      BY <1>2, Zenon DEF EvidenceComplete
    <2> QED
      BY <1>2, <2>1 DEF EvidenceComplete
  <1>4. hashed' = hashed
    BY <1>1, PathSteps DEF CollectorOrKernel
  <1>5. ~(taken' > taken)
    BY <1>2 DEF CollectInv, WitnessInv, KernelBounds
  <1>6. CollectorOrKernel => (forbidden' <=> forbidden)
    BY <1>5, Zenon DEF CollectorOrKernel
  <1> QED
    BY <1>2, <1>3, <1>4, <1>6

\* A new event is a finalization of the artifact or not.
LEMMA FinalizationsAppend ==
    ASSUME NEW s, NEW e, IsSequence(s)
    PROVE  /\ \A i \in Finalizations(s) : Append(s, e)[i] = s[i]
           /\ e.operation # "artifact_finalized" => Finalizations(Append(s, e)) = Finalizations(s)
           /\ Finalizations(s) = {} => Finalizations(Append(s, e)) \subseteq { Len(s) + 1 }
  <1> DEFINE t == Append(s, e)
  <1>1. /\ Len(s) \in Nat /\ Len(t) = Len(s) + 1
        /\ \A i \in 1..Len(s) : t[i] = s[i]
        /\ t[Len(s) + 1] = e
    BY AppendFacts
  <1> HIDE DEF t
  <1>2. 1..Len(t) = 1..Len(s) \cup { Len(s) + 1 }
    BY <1>1
  <1> QED
    BY <1>1, <1>2 DEF Finalizations, Of, t

\* The event main writes after the loop has the digest as a member.
LEMMA ArtifactEvent ==
    ASSUME [Next]_vars, IsSequence(stream), pc = "artifact", NEW e, stream' = Append(stream, e)
    PROVE  Member(e.resource, "sha256") = e.resource.sha256
  <1>1. /\ stream' # stream /\ Len(stream) \in Nat /\ Len(stream') = Len(stream) + 1
        /\ stream'[Len(stream) + 1] = e
    BY AppendFacts
  <1>2. FinalizeArtifact
    BY <1>1 DEF Next, CollectorStep, Environment, vars, ParseFlags, OpenSensor, CreateEvidence,
         WriteStarted, CheckContext, PollDeadline, ReadError, ReadMalformed, AfterReadError, HandleExec, HandleOpen,
         HandleSensitive, HandleConnect, TakeRecord, WriteFinalized, ReadCounter, Signal, Crash,
         Restart, KernelReserve, KernelSubmit, KernelCauseDrop, KernelCorrelationDrop, Tick,
         Suspend, file
  <1>3. PICK digest \in ArtifactDigests :
          writeEvent(Draft("artifact_finalized", boottimeNS, artifactProducer,
                           [ path |-> flags.artifact, sha256 |-> digest ]), "loss")
    BY <1>1, <1>2 DEF FinalizeArtifact, file
  <1> DEFINE draft == Draft("artifact_finalized", boottimeNS, artifactProducer,
                           [ path |-> flags.artifact, sha256 |-> digest ])
  <1>4. stream' = Append(stream, Seal(draft))
    BY <1>1, <1>3 DEF writeEvent
  <1>5. Seal(draft).resource = [ path |-> flags.artifact, sha256 |-> digest ]
    BY DEF Seal, ChainEvent, WithHash, Draft
  <1> HIDE DEF draft
  <1>6. e = Seal(draft)
    BY <1>1, <1>4, AppendFacts
  <1> QED
    BY <1>5, <1>6 DEF Member

\* Until main hashes the artifact no event names a digest; then it is that of the bytes
\* the file held.
LEMMA HashNext ==
    ASSUME CollectInv, CollectInv', HashInv, [PipelineNext]_pipeline
    PROVE  HashInv'
  <1> USE DEF Writing, Monitoring
  <1>1. [Next]_vars /\ IsSequence(stream) /\ FileStep
    BY PathSteps, FileSteps DEF ChainInv, CollectInv
  <1>2. CASE UNCHANGED << vars, hashed >>
    <2>1. UNCHANGED << pc, stream, hashed >> /\ (EvidenceComplete' => EvidenceComplete)
      <3>1. UNCHANGED << pc, stream, torn, hashed >>
        BY <1>2 DEF vars, file
      <3>2. ~torn' => ~torn
        BY <3>1, Zenon
      <3> QED
        BY <3>1, <3>2 DEF EvidenceComplete
    <2> QED
      BY <2>1 DEF HashInv
  <1>3. ASSUME CollectorOrKernel, pc' \in Writing \ { "loss", "final" }
        PROVE  Finalizations(stream') = {}
    <2>1. CASE UNCHANGED file /\ pc \in Writing \ { "loss", "final" }
      BY <2>1 DEF HashInv, file
    <2>2. CASE CreateEvidence
      <3>1. pc' = "started"
        BY <1>3, <2>2 DEF CreateEvidence
      <3>2. stream' = << >>
        BY <3>1 DEF CollectInv, ChainInv
      <3> QED
        BY <3>2 DEF Finalizations, Of
    <2>3. CASE \E draft, next : writeEvent(draft, next) /\ Lifecycle(draft.operation, next)
      <3>1. PICK draft, next : writeEvent(draft, next) /\ Lifecycle(draft.operation, next)
        BY <2>3
      <3>2. /\ stream' = Append(stream, Seal(draft)) /\ Seal(draft).operation = draft.operation
            /\ pc' = next
        BY <1>3, <3>1, SealedEvent DEF writeEvent, Seal
      <3>3. pc \in { "started", "poll" } /\ draft.operation # "artifact_finalized"
        BY <1>3, <3>1, <3>2 DEF Lifecycle
      <3>4. Finalizations(stream) = {}
        BY <3>3 DEF HashInv
      <3> QED
        BY <1>1, <3>2, <3>3, <3>4, FinalizationsAppend
    <2> QED
      BY <1>1, <1>3, <2>1, <2>2, <2>3 DEF FileStep
  <1>4. ASSUME CollectorOrKernel, pc' \in { "loss", "final" }
        PROVE  HashesBytes(stream', hashed')
    <2>1. CASE UNCHANGED file /\ pc \in { "loss", "final" }
      <3>1. HashesBytes(stream, hashed) /\ stream' = stream /\ hashed' = hashed
        BY <1>4, <2>1 DEF HashInv, file, CollectorOrKernel
      <3> QED
        BY <3>1
    <2>2. CASE CreateEvidence
      BY <1>4, <2>2 DEF CreateEvidence
    <2>3. CASE \E draft, next : writeEvent(draft, next) /\ Lifecycle(draft.operation, next)
      <3>1. PICK draft, next : writeEvent(draft, next) /\ Lifecycle(draft.operation, next)
        BY <2>3
      <3>2. stream' = Append(stream, Seal(draft)) /\ pc' = next
        BY <1>4, <3>1 DEF writeEvent
      <3>3. pc = "artifact" /\ pc' = "loss"
        BY <1>4, <3>1, <3>2 DEF Lifecycle
      <3>4. Finalizations(stream) = {} /\ hashed' = built /\ DigestsBuilt
        BY <1>4, <3>3 DEF HashInv, CollectorOrKernel
      <3>5. Finalizations(stream') \subseteq { Len(stream) + 1 }
        BY <1>1, <3>2, <3>4, FinalizationsAppend
      <3>6. Len(stream) \in Nat /\ Len(stream') = Len(stream) + 1
        BY <1>1, <3>2, AppendFacts
      <3>7. \A i \in Finalizations(stream') :
               i = Len(stream) + 1 /\ stream'[i].resource.sha256 = Digest(built)
        BY <3>4, <3>5, <3>6 DEF DigestsBuilt, Finalizations, Of
      <3>8. Member(stream'[Len(stream) + 1].resource, "sha256")
              = stream'[Len(stream) + 1].resource.sha256
        BY <1>1, <3>2, <3>3, ArtifactEvent, AppendFacts
      <3> QED
        BY <3>4, <3>7, <3>8 DEF HashesBytes
    <2> QED
      BY <1>1, <1>4, <2>1, <2>2, <2>3 DEF FileStep
  <1>5. ASSUME CollectorOrKernel, EvidenceComplete'
        PROVE  HashesBytes(stream', hashed')
    <2>1. CASE EvidenceComplete
      <3>1. HashesBytes(stream, hashed) /\ stream' = stream /\ hashed' = hashed
        BY <2>1, CompleteStays DEF HashInv
      <3> QED
        BY <3>1
    <2>2. CASE pc = "final" /\ \E e : stream' = Append(stream, e) /\ e.operation = "sensor_finalized"
      <3>1. PICK e : stream' = Append(stream, e) /\ e.operation = "sensor_finalized"
        BY <2>2
      <3>2. HashesBytes(stream, hashed) /\ hashed' = hashed
        BY <1>5, <2>2 DEF HashInv, CollectorOrKernel
      <3>3. /\ Finalizations(stream') = Finalizations(stream)
            /\ \A i \in Finalizations(stream) : stream'[i] = stream[i]
        BY <1>1, <3>1, FinalizationsAppend
      <3> QED
        BY <3>2, <3>3 DEF HashesBytes
    <2> QED
      BY <1>1, <1>5, <2>1, <2>2, CompletedStep DEF CollectInv
  <1> QED
    BY <1>2, <1>3, <1>4, <1>5, PathSteps DEF HashInv

\* A file that does not exist did not exist before, and main began to write to it once.
LEMMA NoFileBefore ==
    ASSUME [Next]_vars, ~exists' \/ pc' = "started"
    PROVE  ~exists \/ pc = "started"
  <1> USE DEF Writing, Monitoring
  <1>1. CASE UNCHANGED file
    <2>1. exists <=> exists'
      BY <1>1, Zenon DEF file
    <2> QED
      BY <1>1, <2>1, FileSteps DEF FileStep, CreateEvidence, writeEvent, Lifecycle
  <1>2. CASE CreateEvidence
    <2>1. CASE exists' = exists
      <3>1. exists <=> exists'
        BY <2>1, Zenon
      <3> QED
        BY <1>2, <2>1, <3>1 DEF CreateEvidence
    <2> QED
      BY <1>2, <2>1 DEF CreateEvidence
  <1>3. CASE \E draft, next : writeEvent(draft, next) /\ Lifecycle(draft.operation, next)
    <2>1. exists' = exists /\ pc' # "started"
      BY <1>3 DEF writeEvent, Lifecycle
    <2>2. exists <=> exists'
      BY <2>1, Zenon
    <2> QED
      BY <2>1, <2>2
  <1> QED
    BY <1>1, <1>2, <1>3, FileSteps DEF FileStep

\* A forbidden record is in the evidence or counted, and then the evidence is incomplete.
LEMMA ForbidNext ==
    ASSUME CollectInv, CollectInv', ForbidInv, [PipelineNext]_pipeline
    PROVE  ForbidInv'
  <1> USE DEF Writing, Monitoring
  <1>1. /\ [Next]_vars /\ IsSequence(stream) /\ decodeLoss \in Nat
        /\ KernelBounds /\ KernelBounds' /\ FreshInv'
    BY PathSteps DEF ChainInv, CollectInv, TypeInv, TypeOK, WitnessInv
  <1>2. CASE UNCHANGED << vars, forbidden >>
    <2>1. UNCHANGED << pc, exists, stream, torn, decodeLoss, forbidden >>
      BY <1>2 DEF vars, file, locals
    <2>2. (exists <=> exists') /\ (torn <=> torn') /\ (forbidden <=> forbidden')
      BY <2>1, Zenon
    <2> QED
      BY <2>1, <2>2 DEF ForbidInv, EvidenceComplete
  <1>3. CASE CollectorOrKernel
    <2>1. forbidden' => forbidden \/ (taken' > taken /\ ForbiddenRecord(ring[1]))
      BY <1>3, Zenon DEF CollectorOrKernel
    <2>3. ~exists' \/ pc' = "started" => ~forbidden'
      <3> SUFFICES ASSUME ~exists' \/ pc' = "started" PROVE ~forbidden'
        OBVIOUS
      <3>1. taken' = 0 /\ taken \in Nat
        BY <1>1 DEF FreshInv, KernelBounds
      <3>2. ~(taken' > taken)
        BY <3>1
      <3>3. ~exists \/ pc = "started"
        BY <1>1, NoFileBefore
      <3> QED
        BY <2>1, <3>2, <3>3 DEF ForbidInv
    <2>4. pc' \in Writing /\ forbidden' => decodeLoss' > 0 \/ Violates(stream')
      <3> SUFFICES ASSUME pc' \in Writing, forbidden' PROVE decodeLoss' > 0 \/ Violates(stream')
        OBVIOUS
      <3>1. CASE HandleExec \/ HandleOpen \/ HandleSensitive \/ HandleConnect
        <4>1. pc = "poll"
          BY <3>1, TakenRecords
        <4>2. CountDecodeLoss => decodeLoss' > 0
          BY <1>1, <3>1, DecodeCounted DEF CollectInv, WitnessInv
        <4>3. CASE ForbiddenRecord(ring[1])
          BY <1>1, <3>1, <4>2, <4>3, ForbiddenTaken
        <4>4. CASE forbidden
          <5>1. decodeLoss > 0 \/ Violates(stream)
            BY <4>1, <4>4 DEF ForbidInv
          <5>2. decodeLoss' = decodeLoss \/ CountDecodeLoss
            BY <3>1, TakenRecords DEF SkipRecord
          <5>3. stream' = stream \/ \E e : stream' = Append(stream, e)
            BY <3>1, TakenRecords DEF SkipRecord, file, writeEvent
          <5>4. Violates(stream) => Violates(stream')
            BY <1>1, <5>3, ViolatesAppend
          <5> QED
            BY <4>2, <5>1, <5>2, <5>4
        <4> QED
          BY <2>1, <4>3, <4>4
      <3>2. ASSUME taken' = taken, pc \in Writing, decodeLoss' = decodeLoss,
                   stream' = stream \/ \E e : stream' = Append(stream, e)
            PROVE  decodeLoss' > 0 \/ Violates(stream')
        <4>1. ~(taken' > taken)
          BY <1>1, <3>2 DEF KernelBounds
        <4>2. decodeLoss > 0 \/ Violates(stream)
          BY <2>1, <3>2, <4>1 DEF ForbidInv
        <4>3. Violates(stream) => Violates(stream')
          BY <1>1, <3>2, ViolatesAppend
        <4> QED
          BY <3>2, <4>2, <4>3
      <3>3. CASE ReadMalformed \/ AfterReadError \/ Signal \/ ReadCounter \/ KernelStep
        <4>1. stream' = stream /\ UNCHANGED << taken, decodeLoss >> /\ pc \in Writing
          BY <3>3 DEF ReadMalformed, Signal, ReadCounter, KernelStep, AfterReadError, locals, file,
                      history
        <4> QED
          BY <3>2, <4>1
      <3>4. CASE Restart \/ OpenSensor
        BY <3>4 DEF Restart, OpenSensor
      <3>5. CASE QuietStep
        <4>1. /\ UNCHANGED << taken, decodeLoss >>
              /\ stream' = stream \/ \E e : stream' = Append(stream, e)
              /\ pc' \in Monitoring => pc \in Writing
          BY <3>5 DEF QuietStep
        <4>2. pc' # "started"
          BY <2>3
        <4> QED
          BY <3>2, <4>1, <4>2
      <3> QED
        BY <1>1, <3>1, <3>3, <3>4, <3>5, CountSteps
    <2>5. EvidenceComplete' /\ forbidden' => Violates(stream')
      <3> SUFFICES ASSUME EvidenceComplete', forbidden' PROVE Violates(stream')
        OBVIOUS
      <3>1. CASE EvidenceComplete
        <4>1. stream' = stream /\ forbidden
          BY <1>3, <3>1, CompleteStays
        <4> QED
          BY <3>1, <4>1 DEF ForbidInv
      <3>2. CASE /\ pc = "final" /\ taken' = taken /\ decodeLoss = 0
                 /\ \E e : stream' = Append(stream, e)
        <4>1. ~(taken' > taken)
          BY <1>1, <3>2 DEF KernelBounds
        <4>2. Violates(stream)
          BY <2>1, <3>2, <4>1 DEF ForbidInv
        <4> QED
          BY <1>1, <3>2, <4>2, ViolatesAppend
      <3> QED
        BY <1>1, <3>1, <3>2, CompletedStep DEF CollectInv
    <2> QED
      BY <2>3, <2>4, <2>5 DEF ForbidInv
  <1> QED
    BY <1>2, <1>3, PathSteps

\* What ALLOW of verify-fixture says about the evidence and the bytes.
LEMMA AllowFacts ==
    ASSUME CollectInv, HashInv, VerifyFixture, Verify(Inputs, bundle).decision = "ALLOW"
    PROVE  EvidenceComplete /\ built = hashed /\ ~Violates(stream)
  <1> DEFINE in == Inputs
  <1>1. /\ in.artifact = built /\ in.events.lines = stream /\ in.events.torn = torn
        /\ in.policy = Policy
    BY DEF Inputs
  <1> HIDE DEF in
  <1>2. /\ Decoded(in) /\ AssembleAccepts(in)
        /\ Harmless(integrityReasons(bundle, Assemble(in)))
        /\ Harmless(evidenceReasons(bundle.manifest, in.policy))
        /\ Harmless(behaviorReasons(in.events.lines, in.policy))
    BY VerifyFacts DEF in
  <1>3. bundle.manifest = ManifestOf(in)
    BY <1>2, IntegrityFacts, ManifestFacts
  <1>4. StreamCompleteness(stream) = "complete"
    BY <1>1, <1>2, <1>3, EvidenceFacts, ManifestFacts DEF Decoded
  <1>5. ~torn /\ stream # << >>
    BY <1>1, <1>2 DEF Decoded, ParseEventStreamAccepts
  <1>6. ~Violates(stream)
    BY <1>1, <1>2, BehaviourFacts, PermittedFacts
  <1>7. EvidenceComplete
    BY <1>4, <1>5 DEF EvidenceComplete
  <1>8. built = hashed
    <2>1. \E i \in Finalizations(stream) : Member(stream[i].resource, "sha256") = Digest(built)
      BY <1>1, <1>2 DEF AssembleAccepts, verifyArtifactObservation
    <2>2. PICK i \in Finalizations(stream) : Member(stream[i].resource, "sha256") = Digest(built)
      BY <2>1
    <2>3. Member(stream[i].resource, "sha256") = Digest(hashed)
      BY <1>7 DEF HashInv, HashesBytes
    <2> QED
      BY <2>2, <2>3, DigestInjective
  <1> QED
    BY <1>6, <1>7, <1>8

\* Only verify-fixture allows, and what it allowed can no longer change.
LEMMA ReleaseNext ==
    ASSUME CollectInv, HashInv, ReleaseInv, [PipelineNext]_pipeline
    PROVE  ReleaseInv'
  <1> SUFFICES ASSUME Allowed'
               PROVE  (EvidenceComplete /\ verdict.artifact = hashed /\ ~Violates(stream))'
    BY DEF ReleaseInv
  <1>1. CASE verdict' = verdict
    <2>1. Allowed
      BY <1>1 DEF Allowed
    <2>2. EvidenceComplete /\ verdict.artifact = hashed /\ ~Violates(stream)
      BY <2>1 DEF ReleaseInv
    <2>3. EvidenceComplete' /\ stream' = stream /\ hashed' = hashed
      BY <2>2, CompleteStays
    <2> QED
      BY <1>1, <2>2, <2>3
  <1>2. CASE VerifyFixture
    <2>1. /\ verdict' = [ decision |-> Verify(Inputs, bundle).decision, artifact |-> built ]
          /\ UNCHANGED << pc, stream, torn, hashed >>
      BY <1>2 DEF VerifyFixture, vars, file
    <2>2. verdict'.artifact = built /\ Verify(Inputs, bundle).decision = "ALLOW"
      BY <2>1 DEF Allowed
    <2>3. EvidenceComplete /\ built = hashed /\ ~Violates(stream)
      BY <1>2, <2>2, AllowFacts
    <2>4. EvidenceComplete' /\ stream' = stream /\ hashed' = hashed
      BY <2>3, CompleteStays
    <2> QED
      BY <2>2, <2>3, <2>4
  <1> QED
    BY <1>1, <1>2, PathSteps DEF CollectorOrKernel, outputs

\* Nothing is written, forbidden or allowed at first.
LEMMA PathInvInit == PipelineInit => PathInv
  <1> SUFFICES ASSUME PipelineInit PROVE PathInv
    OBVIOUS
  <1>1. Init /\ ~forbidden /\ verdict = Missing
    BY DEF PipelineInit
  <1>2. CollectInv
    BY <1>1, TypeInvInit, ChainInvInit, InitImplements, LossInvInit, WitnessInvInit DEF CollectInv
  <1>3. pc = "flags" /\ stream = << >>
    BY <1>1 DEF Init
  <1> QED
    BY <1>1, <1>2, <1>3 DEF PathInv, HashInv, ForbidInv, ReleaseInv, Allowed, EvidenceComplete,
                            Writing, Monitoring

\* Every step of the path preserves the inductive invariant.
LEMMA PathInvNext ==
    ASSUME PathInv, [PipelineNext]_pipeline
    PROVE  PathInv'
  <1>1. CollectInv'
    BY PathSteps, CollectInvNext DEF PathInv
  <1> QED
    BY <1>1, HashNext, ForbidNext, ReleaseNext DEF PathInv

\* The invariant of the path holds throughout.
LEMMA PathInvariant == PipelineSpec => []PathInv
  <1>1. PathInv /\ [PipelineNext]_pipeline => PathInv'
    BY PathInvNext
  <1> QED
    BY <1>1, PathInvInit, PTL DEF PipelineSpec

\* Whatever the build writes and whenever the collector dies and the commands of rpf are
\* run, verify-fixture allows only the bytes main hashed, on whole evidence with an event
\* for every decoded record, no loss noticed before the signal and at most one record
\* refused, at the signal: for every policy, set of records and contents of the artifact.
THEOREM AllowedReleaseIsWitnessed == PipelineSpec => []ReleaseIsWitnessed
  <1>1. PathInv => ReleaseIsWitnessed
    <2> SUFFICES ASSUME PathInv, Allowed
                 PROVE  /\ verdict.artifact = hashed
                        /\ ~torn /\ taken = KernelEvents /\ rejected <= 1 /\ missed = 0
      BY DEF ReleaseIsWitnessed
    <2>1. EvidenceComplete /\ verdict.artifact = hashed
      BY DEF PathInv, ReleaseInv
    <2>2. taken = KernelEvents /\ rejected <= 1 /\ missed = 0
      BY <2>1 DEF PathInv, CollectInv, WitnessInv, CompleteEvidenceIsLossless
    <2> QED
      BY <2>1, <2>2 DEF EvidenceComplete
  <1> QED
    BY <1>1, PathInvariant, PTL

\* For every policy, an artifact whose build executed, connected to or opened what the
\* policy forbids, in a record main decoded, is never allowed, even when main could not
\* attribute the record and wrote no event for it.
THEOREM ForbiddenIsNeverAllowed == PipelineSpec => []ForbiddenNeverAllowed
  <1>1. PathInv => ForbiddenNeverAllowed
    <2> SUFFICES ASSUME PathInv, Allowed, forbidden PROVE FALSE
      BY DEF ForbiddenNeverAllowed
    <2>1. EvidenceComplete /\ ~Violates(stream)
      BY DEF PathInv, ReleaseInv
    <2> QED
      BY <2>1 DEF PathInv, ForbidInv
  <1> QED
    BY <1>1, PathInvariant, PTL
=============================================================================
