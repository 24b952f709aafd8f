--------------------------- MODULE LedgerProofs ------------------------------
(***************************************************************************)
(* The collector implements the ledger: for every set of command lines,    *)
(* records and bounds its evidence file is created once, has one writer,   *)
(* and grows by entries that continue chain and lifecycle.  On top of it:  *)
(* whom the evidence blames, according to the stream itself, and which     *)
(* times in it can be out of order.                                        *)
(***************************************************************************)
EXTENDS CollectorProofs

LastOperation == stream[Len(stream)].operation

\* The inductive invariant adds to ChainInv where the lifecycle stands: behind
\* artifact_finalized exactly from "loss" on.
LifeInv ==
    /\ pc \in { "check", "poll", "error", "artifact" } =>
           stream # << >> /\ LastOperation \notin { "artifact_finalized", "sensor_finalized" }
    /\ pc \in { "loss", "final" } => stream # << >> /\ LastOperation = "artifact_finalized"
    /\ pc = "done" => stream # << >> /\ ~torn
    /\ torn \in BOOLEAN

\* Where writeEvent may go with an event of each operation.
Lifecycle(operation, next) ==
    \/ pc = "started" /\ operation = "sensor_started" /\ next = "check"
    \/ /\ pc = "poll" /\ next = "check"
       /\ operation \notin { "sensor_started", "artifact_finalized", "sensor_finalized" }
    \/ pc = "artifact" /\ operation = "artifact_finalized" /\ next = "loss"
    \/ pc = "final" /\ operation = "sensor_finalized" /\ next \in { "fatal", "done" }

\* What any step does to the evidence file.
FileStep ==
    \/ /\ UNCHANGED file
       /\ pc' = pc \/ pc' \notin Writing \/ << pc, pc' >> \in
              { << "check", "error" >>, << "check", "poll" >>, << "poll", "check" >>,
                << "poll", "error" >>, << "error", "artifact" >>, << "loss", "final" >> }
       /\ pc' = "done" => pc = "done"
    \/ CreateEvidence
    \/ \E draft, next : /\ writeEvent(draft, next)
                        /\ Lifecycle(draft.operation, next)
                        /\ flags' = flags

\* Every action leaves the file alone, creates it, or writes one event to it.
LEMMA FileSteps == [Next]_vars => FileStep
  <1> SUFFICES ASSUME [Next]_vars PROVE FileStep
    OBVIOUS
  <1> USE DEF FileStep, Lifecycle, Draft, Writing, Monitoring
  <1>1. CASE WriteStarted
    BY <1>1 DEF WriteStarted
  <1>2. CASE HandleExec
    BY <1>2 DEF HandleExec, TakeRecord
  <1>3. CASE HandleOpen
    BY <1>3 DEF HandleOpen, TakeRecord, SkipRecord
  <1>4. CASE HandleSensitive
    BY <1>4 DEF HandleSensitive, TakeRecord, SkipRecord
  <1>5. CASE HandleConnect
    BY <1>5 DEF HandleConnect, TakeRecord, SkipRecord
  <1>6. CASE FinalizeArtifact
    BY <1>6 DEF FinalizeArtifact
  <1>7. CASE WriteFinalized
    BY <1>7 DEF WriteFinalized
  <1>8. CASE ParseFlags \/ OpenSensor \/ CreateEvidence \/ CheckContext \/ PollDeadline
             \/ ReadError \/ ReadMalformed \/ AfterReadError \/ ReadCounter
    BY <1>8 DEF ParseFlags, OpenSensor, CheckContext, PollDeadline,
                ReadError, ReadMalformed, AfterReadError, ReadCounter
  <1>9. CASE Environment
    BY <1>9 DEF Environment, Signal, Crash, Restart, KernelReserve, KernelSubmit,
                KernelCauseDrop, KernelCorrelationDrop, Tick, Suspend
  <1>10. CASE UNCHANGED vars
    BY <1>10 DEF vars
  <1> QED
    BY <1>1, <1>2, <1>3, <1>4, <1>5, <1>6, <1>7, <1>8, <1>9, <1>10 DEF Next, CollectorStep

\* The names Ledger has for the operators of Evidence mean the same.
LEMMA SameEvidence ==
    /\ \A e : Log!validateEvent(e) = validateEvent(e)
    /\ \A e : Log!eventDigest(e) = eventDigest(e)
    /\ Log!zeroHash = zeroHash
  BY DEF Log!validateEvent, validateEvent, Log!BuildComplete, BuildComplete,
         Log!SourceComplete, SourceComplete, Log!ProcessComplete, ProcessComplete,
         Log!allowedOperations, allowedOperations, Log!eventDigest, eventDigest,
         Log!Body, Body, Log!zeroHash, zeroHash

\* A write of the collector is a write of the ledger, or the end of its writer.
LEMMA WriteImplements ==
    ASSUME ChainInv, LifeInv, flags' = flags,
           NEW draft, NEW next, Lifecycle(draft.operation, next), writeEvent(draft, next)
    PROVE  LifeInv' /\ [Log!LedgerNext]_(Log!ledger)
  <1> DEFINE event == Seal(draft)
  <1>1. /\ event.sequence = chain.sequence + 1
        /\ event.build = flags.build
        /\ event.sensor = digestSensorConfiguration(flags)
        /\ event.previous_event_hash = chain.previous
        /\ event.event_hash = eventDigest(event)
        /\ event.operation = draft.operation
    BY SealedEvent DEF Seal
  <1> HIDE DEF event
  <1>2. pc \in Writing /\ next \in Monitoring \cup Ended
    BY DEF Lifecycle, Writing, Monitoring, Ended
  <1>3. /\ IsSequence(stream) /\ Chained(stream) /\ ~torn /\ exists
        /\ chain.sequence = Len(stream)
        /\ chain.previous = IF stream = << >> THEN zeroHash ELSE stream[Len(stream)].event_hash
        /\ stream # << >> => /\ stream[1].build = flags.build
                            /\ stream[1].sensor = digestSensorConfiguration(flags)
    BY <1>2 DEF ChainInv, WriterOwnsStream, StreamChained
  <1>4. /\ exists' = exists /\ pc' \in Monitoring \cup Ended
        /\ pc' \in { next, "fatal" }
    BY <1>2 DEF writeEvent, Ended
  <1>5. /\ Log!InLifecycle(event.operation)
    <2>1. pc = "started" => stream = << >>
      BY DEF ChainInv
    <2> QED
      BY <1>1, <2>1 DEF Lifecycle, LifeInv, LastOperation, Log!InLifecycle, Log!Last
  <1>6. CASE validateEvent(event) /\ stream' = Append(stream, event) /\ torn' = torn
    <2>1. /\ stream' # << >> /\ Len(stream) \in Nat
          /\ Len(stream') = Len(stream) + 1
          /\ stream'[Len(stream) + 1] = event
      BY <1>3, <1>6, AppendFacts
    <2>2. stream # << >> => /\ stream[Len(stream)].build = flags.build
                            /\ stream[Len(stream)].sensor = digestSensorConfiguration(flags)
      <3> SUFFICES ASSUME stream # << >>
                   PROVE  /\ stream[Len(stream)].build = flags.build
                          /\ stream[Len(stream)].sensor = digestSensorConfiguration(flags)
        OBVIOUS
      <3>1. Len(stream) \in 1..Len(stream)
        BY <1>3, ZeroLength
      <3> QED
        BY <3>1, <1>3 DEF Chained, ScopeConstant
    <2>3. Log!Continues(event)
      BY <1>1, <1>3, <1>5, <1>6, <2>2, SameEvidence DEF Log!Continues, Log!Last
    <2>4. Log!Write
      BY <1>2, <1>3, <1>4, <1>6, <2>1, <2>3 DEF Log!Write
    <2>5. LifeInv'
      <3>1. LastOperation' = draft.operation
        BY <2>1, <1>1 DEF LastOperation
      <3> QED
        BY <3>1, <1>3, <1>4, <1>6, <2>1 DEF LifeInv, Lifecycle
    <2> QED
      BY <2>4, <2>5 DEF Log!LedgerNext
  <1>7. CASE stream' = stream /\ pc' = "fatal" /\ torn' \in BOOLEAN
    <2>1. Log!Abandon
      BY <1>2, <1>3, <1>4, <1>7 DEF Log!Abandon, Writing, Monitoring
    <2>2. LifeInv'
      BY <1>7 DEF LifeInv
    <2> QED
      BY <2>1, <2>2 DEF Log!LedgerNext
  <1>8. CASE stream' = stream /\ pc' = "fatal" /\ torn' = torn
    <2>1. torn' \in BOOLEAN
      BY <1>8, Zenon DEF LifeInv
    <2> QED
      BY <1>7, <1>8, <2>1
  <1> QED
    BY <1>6, <1>7, <1>8 DEF writeEvent, event

\* O_EXCL creates the ledger, or nothing happens to it.
LEMMA CreateImplements ==
    ASSUME ChainInv, LifeInv, CreateEvidence
    PROVE  LifeInv' /\ [Log!LedgerNext]_(Log!ledger)
  <1> USE DEF Writing, Monitoring
  <1>1. pc = "create" /\ pc' \in { "started", "fatal" } /\ UNCHANGED << stream, torn >>
    BY DEF CreateEvidence
  <1>2. LifeInv'
    BY <1>1 DEF LifeInv
  <1>3. CASE ~exists /\ exists' = TRUE /\ pc' = "started"
    BY <1>1, <1>2, <1>3 DEF Log!LedgerNext, Log!Create
  <1>4. CASE exists' = exists /\ pc' = "fatal"
    BY <1>1, <1>2, <1>4 DEF Log!ledger
  <1> QED
    BY <1>3, <1>4 DEF CreateEvidence

\* Any other step leaves the file alone; when it ends the writer, the ledger is
\* abandoned.
LEMMA QuietImplements ==
    ASSUME ChainInv, LifeInv, UNCHANGED file,
           pc' = pc \/ pc' \notin Writing \/ << pc, pc' >> \in
              { << "check", "error" >>, << "check", "poll" >>, << "poll", "check" >>,
                << "poll", "error" >>, << "error", "artifact" >>, << "loss", "final" >> },
           pc' = "done" => pc = "done"
    PROVE  LifeInv' /\ [Log!LedgerNext]_(Log!ledger)
  <1>1. UNCHANGED << exists, stream, torn >>
    BY DEF file
  <1>2. LifeInv'
    BY <1>1 DEF LifeInv, LastOperation, Writing, Monitoring
  <1>3. torn' \in BOOLEAN
    BY <1>1, Zenon DEF LifeInv
  <1>4. CASE pc \in Writing /\ pc' \notin Writing
    <2>1. exists
      BY <1>4 DEF ChainInv
    <2>2. Log!Abandon
      BY <1>1, <1>3, <1>4, <2>1 DEF Log!Abandon
    <2> QED
      BY <1>2, <2>2 DEF Log!LedgerNext
  <1>5. CASE pc \in Writing <=> pc' \in Writing
    BY <1>1, <1>2, <1>5 DEF Log!ledger
  <1> QED
    BY <1>4, <1>5 DEF Writing, Monitoring

\* Every step of the collector is a step of the ledger or none.
LEMMA StepImplements == ChainInv /\ LifeInv /\ [Next]_vars => LifeInv' /\ [Log!LedgerNext]_(Log!ledger)
  <1> SUFFICES ASSUME ChainInv, LifeInv, [Next]_vars
               PROVE  LifeInv' /\ [Log!LedgerNext]_(Log!ledger)
    OBVIOUS
  <1>1. FileStep
    BY FileSteps
  <1> QED
    BY <1>1, WriteImplements, CreateImplements, QuietImplements DEF FileStep

\* Before the first start there is no ledger.
LEMMA InitImplements == Init => LifeInv /\ Log!LedgerInit
  <1> SUFFICES ASSUME Init PROVE LifeInv /\ Log!LedgerInit
    OBVIOUS
  <1>1. torn \in BOOLEAN
    BY Zenon DEF Init
  <1> QED
    BY <1>1 DEF Init, LifeInv, Log!LedgerInit

\* For every set of command lines and records, with failed writes, crashes and
\* restarts anywhere, main's evidence file behaves as the ledger: created once, one
\* writer, entries that continue chain and lifecycle.
THEOREM CollectorKeepsLedger == Spec => ImplementsLedger
  <1>1. ChainInv /\ LifeInv /\ [Next]_vars => LifeInv' /\ [Log!LedgerNext]_(Log!ledger)
    BY StepImplements
  <1> QED
    BY <1>1, InitImplements, ChainInvInit, ChainInvNext, PTL
       DEF Spec, ImplementsLedger, Log!LedgerSpec

\* ParseEventStream accepts what a collector finished unless the stream is too long
\* or its times are out of order.
THEOREM FinishedStreamsParse == Spec => []FinalizedStreamParses
  <1>1. ChainInv /\ LifeInv => FinalizedStreamParses
    <2> SUFFICES ASSUME ChainInv, LifeInv, pc = "done"
                 PROVE  ParseEventStreamAccepts(stream, torn)
                          <=> Len(stream) <= maxEvents /\ MonotonicOrder(stream)
      BY DEF FinalizedStreamParses
    <2>1. IsSequence(stream) /\ Chained(stream) /\ stream # << >> /\ ~torn
      BY DEF ChainInv, LifeInv, StreamChained
    <2>2. Len(stream) \in Nat /\ Len(stream) # 0
      BY <2>1, ZeroLength
    <2> QED
      BY <2>1, <2>2, MaxEventsAssumption DEF ParseEventStreamAccepts, verifyChain, Chained
  <1> QED
    BY <1>1, StepImplements, InitImplements, ChainInvInit, ChainInvNext, PTL DEF Spec

-----------------------------------------------------------------------------
(* Attribution: an open or a connect has the image its process last        *)
(* executed, and the artifact has its last recorded opener as producer.    *)

\* The last exec among the first n events with the key of process is its own.
LastExec(s, n, process) ==
    \E j \in 1..n :
        /\ s[j].operation = "process_exec"
        /\ s[j].process = process
        /\ \A k \in (j+1)..n :
              s[k].operation = "process_exec" => s[k].process.process_key # process.process_key

OpensPath(event, path) == event.operation = "file_open_output" /\ event.resource.path = path

\* The last write-open of path among the first n events is one by process.
LastOpen(s, n, path, process) ==
    \E j \in 1..n :
        /\ OpensPath(s[j], path)
        /\ s[j].process = process
        /\ \A k \in 1..n : OpensPath(s[k], path) => k <= j

ActivityFollowsExec ==
    \A i \in 1..Len(stream) :
        stream[i].operation \in ActivityOperations => LastExec(stream, i - 1, stream[i].process)

ArtifactFollowsOpen ==
    \A i \in 1..Len(stream) :
        stream[i].operation = "artifact_finalized" =>
            LastOpen(stream, i - 1, stream[i].resource.path, stream[i].process)

\* Where main stands before sensor_started is written; it knows no process yet.
Early == { "flags", "open", "create", "started" }

\* What main caches is what the stream says, while main may write to it.
AttributionInv ==
    /\ pc \in Early => DOMAIN processes = {} /\ artifactProducer = Missing
    /\ ActivityFollowsExec
    /\ ArtifactFollowsOpen
    /\ pc \in Writing => \A key \in DOMAIN processes :
           processes[key].process_key = key /\ LastExec(stream, Len(stream), processes[key])
    /\ pc \in Writing /\ artifactProducer # Missing =>
           LastOpen(stream, Len(stream), flags.artifact, artifactProducer)

-----------------------------------------------------------------------------
\* The chain takes operation, process and resource from the draft.
LEMMA SealedDraft ==
    ASSUME NEW draft
    PROVE  /\ Seal(draft).operation = draft.operation
           /\ Seal(draft).process = draft.process
           /\ Seal(draft).resource = draft.resource
  BY DEF Seal, ChainEvent, WithHash

\* Both facts are about a prefix, and what one more event does to them.
LEMMA LastExecAppend ==
    ASSUME NEW s, NEW e, IsSequence(s), NEW process
    PROVE  /\ \A n \in 0..Len(s) : LastExec(s, n, process) => LastExec(Append(s, e), n, process)
           /\ /\ LastExec(s, Len(s), process)
              /\ e.operation = "process_exec" => e.process.process_key # process.process_key
              => LastExec(Append(s, e), Len(s) + 1, process)
           /\ e.operation = "process_exec" /\ e.process = process
              => LastExec(Append(s, e), Len(s) + 1, process)
  <1> DEFINE t == Append(s, e)
  <1>1. /\ Len(s) \in Nat
        /\ \A i \in 1..Len(s) : t[i] = s[i]
        /\ t[Len(s) + 1] = e
    BY AppendFacts
  <1> HIDE DEF t
  <1>2. ASSUME NEW n \in 0..Len(s), LastExec(s, n, process)
        PROVE  LastExec(t, n, process)
    BY <1>1, <1>2 DEF LastExec
  <1>3. ASSUME LastExec(s, Len(s), process),
               e.operation = "process_exec" => e.process.process_key # process.process_key
        PROVE  LastExec(t, Len(s) + 1, process)
    <2>1. PICK j \in 1..Len(s) :
              /\ s[j].operation = "process_exec"
              /\ s[j].process = process
              /\ \A k \in (j+1)..Len(s) :
                    s[k].operation = "process_exec" => s[k].process.process_key # process.process_key
      BY <1>3 DEF LastExec
    <2>2. ASSUME NEW k \in (j+1)..(Len(s) + 1), t[k].operation = "process_exec"
          PROVE  t[k].process.process_key # process.process_key
      <3>1. CASE k = Len(s) + 1
        BY <1>1, <1>3, <2>2, <3>1
      <3>2. CASE k \in (j+1)..Len(s)
        BY <1>1, <2>1, <2>2, <3>2
      <3> QED
        BY <1>1, <3>1, <3>2
    <2> QED
      BY <1>1, <2>1, <2>2 DEF LastExec
  <1>4. ASSUME e.operation = "process_exec", e.process = process
        PROVE  LastExec(t, Len(s) + 1, process)
    BY <1>1, <1>4 DEF LastExec
  <1> QED
    BY <1>2, <1>3, <1>4 DEF t

\* The same for the last opener of a path.
LEMMA LastOpenAppend ==
    ASSUME NEW s, NEW e, IsSequence(s), NEW path, NEW process
    PROVE  /\ \A n \in 0..Len(s) :
                  LastOpen(s, n, path, process) => LastOpen(Append(s, e), n, path, process)
           /\ LastOpen(s, Len(s), path, process) /\ ~OpensPath(e, path)
              => LastOpen(Append(s, e), Len(s) + 1, path, process)
           /\ OpensPath(e, path) /\ e.process = process
              => LastOpen(Append(s, e), Len(s) + 1, path, process)
  <1> DEFINE t == Append(s, e)
  <1>1. /\ Len(s) \in Nat
        /\ \A i \in 1..Len(s) : t[i] = s[i]
        /\ t[Len(s) + 1] = e
    BY AppendFacts
  <1> HIDE DEF t
  <1>2. ASSUME NEW n \in 0..Len(s), LastOpen(s, n, path, process)
        PROVE  LastOpen(t, n, path, process)
    BY <1>1, <1>2 DEF LastOpen
  <1>3. ASSUME LastOpen(s, Len(s), path, process), ~OpensPath(e, path)
        PROVE  LastOpen(t, Len(s) + 1, path, process)
    <2>1. PICK j \in 1..Len(s) :
              /\ OpensPath(s[j], path)
              /\ s[j].process = process
              /\ \A k \in 1..Len(s) : OpensPath(s[k], path) => k <= j
      BY <1>3 DEF LastOpen
    <2>2. ASSUME NEW k \in 1..(Len(s) + 1), OpensPath(t[k], path)
          PROVE  k <= j
      BY <1>1, <1>3, <2>1, <2>2
    <2> QED
      BY <1>1, <2>1, <2>2 DEF LastOpen
  <1>4. ASSUME OpensPath(e, path), e.process = process
        PROVE  LastOpen(t, Len(s) + 1, path, process)
    BY <1>1, <1>4 DEF LastOpen
  <1> QED
    BY <1>2, <1>3, <1>4 DEF t

\* A write keeps the invariant when the draft names a process the stream vouches
\* for, and what main caches from then on takes the draft into account.
LEMMA WriteAttributes ==
    ASSUME AttributionInv, IsSequence(stream), pc \in Writing, flags' = flags,
           NEW draft, NEW next \in Monitoring \cup Ended, writeEvent(draft, next),
           draft.operation \in ActivityOperations => LastExec(stream, Len(stream), draft.process),
           draft.operation = "artifact_finalized" =>
               LastOpen(stream, Len(stream), draft.resource.path, draft.process),
           \A key \in DOMAIN processes' :
               /\ processes'[key].process_key = key
               /\ \/ /\ LastExec(stream, Len(stream), processes'[key])
                     /\ draft.operation = "process_exec" => draft.process.process_key # key
                  \/ draft.operation = "process_exec" /\ draft.process = processes'[key],
           artifactProducer' # Missing =>
               \/ /\ LastOpen(stream, Len(stream), flags.artifact, artifactProducer')
                  /\ ~OpensPath(draft, flags.artifact)
               \/ OpensPath(draft, flags.artifact) /\ draft.process = artifactProducer'
    PROVE  AttributionInv'
  <1> DEFINE event == Seal(draft)
  <1>1. /\ event.operation = draft.operation
        /\ event.process = draft.process
        /\ event.resource = draft.resource
    BY SealedDraft
  <1> HIDE DEF event
  <1>2. pc' \in Monitoring \cup Ended
    BY DEF writeEvent, Ended
  <1>3. pc' \notin Early
    BY <1>2 DEF Monitoring, Ended, Early
  <1>4. CASE stream' = stream /\ pc' = "fatal"
    BY <1>3, <1>4 DEF AttributionInv, ActivityFollowsExec, ArtifactFollowsOpen, Writing, Monitoring
  <1>5. CASE stream' = Append(stream, event)
    <2>1. /\ Len(stream) \in Nat
          /\ Len(stream') = Len(stream) + 1
          /\ \A i \in 1..Len(stream) : stream'[i] = stream[i]
          /\ stream'[Len(stream) + 1] = event
      BY <1>5, AppendFacts
    <2>2. ASSUME NEW i \in 1..Len(stream'), stream'[i].operation \in ActivityOperations
          PROVE  LastExec(stream', i - 1, stream'[i].process)
      <3>1. CASE i = Len(stream) + 1
        <4>1. LastExec(stream, Len(stream), draft.process)
          BY <1>1, <2>1, <2>2, <3>1
        <4>2. LastExec(stream', Len(stream), draft.process)
          BY <1>5, <2>1, <4>1, LastExecAppend
        <4> QED
          BY <1>1, <2>1, <3>1, <4>2
      <3>2. CASE i \in 1..Len(stream)
        <4>1. LastExec(stream, i - 1, stream[i].process)
          BY <2>1, <2>2, <3>2 DEF AttributionInv, ActivityFollowsExec
        <4>2. LastExec(stream', i - 1, stream[i].process)
          <5>1. i - 1 \in 0..Len(stream)
            BY <2>1, <3>2
          <5> QED
            BY <1>5, <4>1, <5>1, LastExecAppend
        <4> QED
          BY <2>1, <3>2, <4>2
      <3> QED
        BY <2>1, <3>1, <3>2
    <2>3. ASSUME NEW i \in 1..Len(stream'), stream'[i].operation = "artifact_finalized"
          PROVE  LastOpen(stream', i - 1, stream'[i].resource.path, stream'[i].process)
      <3>1. CASE i = Len(stream) + 1
        <4>1. LastOpen(stream, Len(stream), draft.resource.path, draft.process)
          BY <1>1, <2>1, <2>3, <3>1
        <4>2. LastOpen(stream', Len(stream), draft.resource.path, draft.process)
          BY <1>5, <2>1, <4>1, LastOpenAppend
        <4> QED
          BY <1>1, <2>1, <3>1, <4>2
      <3>2. CASE i \in 1..Len(stream)
        <4>1. LastOpen(stream, i - 1, stream[i].resource.path, stream[i].process)
          BY <2>1, <2>3, <3>2 DEF AttributionInv, ArtifactFollowsOpen
        <4>2. LastOpen(stream', i - 1, stream[i].resource.path, stream[i].process)
          <5>1. i - 1 \in 0..Len(stream)
            BY <2>1, <3>2
          <5> QED
            BY <1>5, <4>1, <5>1, LastOpenAppend
        <4> QED
          BY <2>1, <3>2, <4>2
      <3> QED
        BY <2>1, <3>1, <3>2
    <2>4. ASSUME NEW key \in DOMAIN processes'
          PROVE  /\ processes'[key].process_key = key
                 /\ LastExec(stream', Len(stream'), processes'[key])
      <3>1. processes'[key].process_key = key
        OBVIOUS
      <3>2. CASE /\ LastExec(stream, Len(stream), processes'[key])
                 /\ draft.operation = "process_exec" => draft.process.process_key # key
        <4>1. event.operation = "process_exec" =>
                  event.process.process_key # processes'[key].process_key
          BY <1>1, <3>1, <3>2
        <4> QED
          BY <1>5, <2>1, <3>1, <3>2, <4>1, LastExecAppend
      <3>3. CASE draft.operation = "process_exec" /\ draft.process = processes'[key]
        BY <1>1, <1>5, <2>1, <3>1, <3>3, LastExecAppend
      <3> QED
        BY <3>2, <3>3
    <2>5. artifactProducer' # Missing =>
              LastOpen(stream', Len(stream'), flags'.artifact, artifactProducer')
      <3>1. OpensPath(event, flags.artifact) <=> OpensPath(draft, flags.artifact)
        BY <1>1 DEF OpensPath
      <3>2. ASSUME LastOpen(stream, Len(stream), flags.artifact, artifactProducer'),
                   ~OpensPath(draft, flags.artifact)
            PROVE  LastOpen(stream', Len(stream'), flags.artifact, artifactProducer')
        BY <1>5, <2>1, <3>1, <3>2, LastOpenAppend
      <3>3. ASSUME OpensPath(draft, flags.artifact), draft.process = artifactProducer'
            PROVE  LastOpen(stream', Len(stream'), flags.artifact, artifactProducer')
        BY <1>1, <1>5, <2>1, <3>1, <3>3, LastOpenAppend
      <3> QED
        BY <3>2, <3>3
    <2> QED
      BY <1>3, <2>2, <2>3, <2>4, <2>5 DEF AttributionInv, ActivityFollowsExec, ArtifactFollowsOpen
  <1> QED
    BY <1>4, <1>5 DEF writeEvent, event

\* The two properties in terms of these facts.
LEMMA PropertiesAsFacts ==
    (ActivityFollowsExec => AttributionSound) /\ (ArtifactFollowsOpen => ProducerIsLastOpener)
  <1>1. ActivityFollowsExec => AttributionSound
    BY DEF AttributionSound, ActivityFollowsExec, LastExec, Operation
  <1>2. ArtifactFollowsOpen => ProducerIsLastOpener
    BY DEF ProducerIsLastOpener, ArtifactFollowsOpen, LastOpen, OpensPath, Operation
  <1> QED
    BY <1>1, <1>2

\* A step that leaves the file alone keeps the caches, or starts with empty ones.
LEMMA QuietAttributes ==
    ASSUME AttributionInv, stream' = stream,
           \/ /\ UNCHANGED << flags, processes, artifactProducer >>
              /\ pc' \in Writing => pc \in Writing \cup Early
              /\ pc' \in Early => pc \in Early
           \/ DOMAIN processes' = {} /\ artifactProducer' = Missing
    PROVE  AttributionInv'
  <1>1. ActivityFollowsExec' /\ ArtifactFollowsOpen'
    BY DEF AttributionInv, ActivityFollowsExec, ArtifactFollowsOpen
  <1>2. CASE DOMAIN processes' = {} /\ artifactProducer' = Missing
    BY <1>1, <1>2 DEF AttributionInv
  <1>3. CASE /\ UNCHANGED << flags, processes, artifactProducer >>
             /\ pc' \in Writing => pc \in Writing \cup Early
             /\ pc' \in Early => pc \in Early
    <2>1. CASE pc \in Early
      BY <1>2, <1>3, <2>1 DEF AttributionInv, Early
    <2>2. CASE pc \notin Early
      BY <1>1, <1>3, <2>2 DEF AttributionInv, Early
    <2> QED
      BY <2>1, <2>2
  <1> QED
    BY <1>2, <1>3

\* An exec replaces the image of its process, whether or not the map has room.
LEMMA ExecAttributes ==
    ASSUME ChainInv, AttributionInv, HandleExec
    PROVE  AttributionInv'
  <1> DEFINE draft == Draft("process_exec", ring[1].monotonic_ns, Head1, NoResource)
  <1>1. /\ draft.operation = "process_exec"
        /\ draft.process = Head1
    BY DEF Draft
  <1>2. /\ pc = "poll" /\ flags' = flags /\ artifactProducer' = artifactProducer
        /\ writeEvent(draft, "check")
    BY DEF HandleExec, TakeRecord
  <1> HIDE DEF draft
  <1>3. IsSequence(stream) /\ pc \in Writing /\ "check" \in Monitoring \cup Ended
    BY <1>2 DEF ChainInv, Writing, Monitoring
  <1>4. /\ \A key \in DOMAIN processes :
               processes[key].process_key = key /\ LastExec(stream, Len(stream), processes[key])
        /\ artifactProducer # Missing =>
               LastOpen(stream, Len(stream), flags.artifact, artifactProducer)
    BY <1>3 DEF AttributionInv
  <1>5. ASSUME NEW key \in DOMAIN processes'
        PROVE  /\ processes'[key].process_key = key
               /\ \/ /\ LastExec(stream, Len(stream), processes'[key])
                     /\ draft.operation = "process_exec" => draft.process.process_key # key
                  \/ draft.operation = "process_exec" /\ draft.process = processes'[key]
    <2>1. CASE Tracked
      <3>1. processes' = [ k \in DOMAIN processes \cup { Head1.process_key } |->
                             IF k = Head1.process_key THEN Head1 ELSE processes[k] ]
        BY <2>1 DEF HandleExec
      <3>2. CASE key = Head1.process_key
        BY <1>1, <3>1, <3>2
      <3>3. CASE key # Head1.process_key
        BY <1>1, <1>4, <1>5, <3>1, <3>3
      <3> QED
        BY <3>2, <3>3
    <2>2. CASE ~Tracked
      <3>1. processes' = processes /\ Head1.process_key \notin DOMAIN processes
        BY <2>2 DEF HandleExec, Tracked, Attributable
      <3> QED
        BY <1>1, <1>4, <1>5, <3>1
    <2> QED
      BY <2>1, <2>2
  <1>6. ~OpensPath(draft, flags.artifact)
    BY <1>1 DEF OpensPath
  <1> QED
    BY <1>1, <1>2, <1>3, <1>4, <1>5, <1>6, WriteAttributes DEF ActivityOperations

\* Activity of a known process is written with the image main has for it; the
\* process of an open of the artifact becomes its producer.
LEMMA ActivityAttributes ==
    ASSUME ChainInv, AttributionInv, pc = "poll", Attributable, flags' = flags,
           processes' = processes, NEW draft, writeEvent(draft, "check"),
           draft.operation \in ActivityOperations, draft.process = Observed,
           \/ artifactProducer' = artifactProducer /\ ~OpensPath(draft, flags.artifact)
           \/ artifactProducer' = Observed /\ OpensPath(draft, flags.artifact)
    PROVE  AttributionInv'
  <1>1. IsSequence(stream) /\ pc \in Writing /\ "check" \in Monitoring \cup Ended
    BY DEF ChainInv, Writing, Monitoring
  <1>2. /\ \A key \in DOMAIN processes :
               processes[key].process_key = key /\ LastExec(stream, Len(stream), processes[key])
        /\ artifactProducer # Missing =>
               LastOpen(stream, Len(stream), flags.artifact, artifactProducer)
    BY <1>1 DEF AttributionInv
  <1>3. LastExec(stream, Len(stream), draft.process)
    BY <1>2 DEF Attributable, Observed
  <1>4. draft.operation \notin { "process_exec", "artifact_finalized" }
    BY DEF ActivityOperations
  <1> QED
    BY <1>1, <1>2, <1>3, <1>4, WriteAttributes

\* One case per action that writes, and the quiet ones together.
LEMMA AttributionNext == ChainInv /\ AttributionInv /\ [Next]_vars => AttributionInv'
  <1> SUFFICES ASSUME ChainInv, AttributionInv, [Next]_vars PROVE AttributionInv'
    OBVIOUS
  <1>0. IsSequence(stream)
    BY DEF ChainInv
  <1>1. CASE WriteStarted
    <2> DEFINE draft == Draft("sensor_started", boottimeNS, Missing,
                              [ target_cgroup_id |-> flags.build.cgroup_id ])
    <2>1. /\ pc = "started" /\ flags' = flags /\ writeEvent(draft, "check")
          /\ UNCHANGED << processes, artifactProducer >>
      BY <1>1 DEF WriteStarted, locals
    <2>2. draft.operation = "sensor_started"
      BY DEF Draft
    <2> HIDE DEF draft
    <2>3. pc \in Writing /\ "check" \in Monitoring \cup Ended
      BY <2>1 DEF Writing, Monitoring
    <2>4. DOMAIN processes' = {} /\ artifactProducer' = Missing
      BY <2>1 DEF AttributionInv, Early
    <2> QED
      BY <1>0, <2>1, <2>2, <2>3, <2>4, WriteAttributes DEF ActivityOperations
  <1>2. CASE HandleExec
    BY <1>2, ExecAttributes
  <1>3. ASSUME SkipRecord, pc = "poll", flags' = flags
        PROVE  AttributionInv'
    BY <1>3, QuietAttributes DEF SkipRecord, file, Writing, Monitoring, Early
  <1>4. CASE HandleOpen
    <2> DEFINE draft == Draft("file_open_output", ring[1].monotonic_ns, Observed,
                              [ path |-> ring[1].filename ])
    <2>1. pc = "poll" /\ flags' = flags
      BY <1>4 DEF HandleOpen, TakeRecord
    <2>2. CASE /\ Attributable
               /\ writeEvent(draft, "check")
               /\ artifactProducer' = NextProducer
               /\ processes' = processes
      <3>1. /\ draft.operation \in ActivityOperations
            /\ draft.process = Observed
            /\ OpensPath(draft, flags.artifact) <=> ring[1].filename = flags.artifact
        BY DEF Draft, ActivityOperations, OpensPath
      <3> HIDE DEF draft
      <3> QED
        BY <2>1, <2>2, <3>1, ActivityAttributes DEF NextProducer
    <2> QED
      BY <1>3, <1>4, <2>1, <2>2 DEF HandleOpen
  <1>5. CASE HandleSensitive
    <2> DEFINE draft == Draft("file_open_sensitive", ring[1].monotonic_ns, Observed,
                              [ category |-> flags.sensitive_category ])
    <2>1. pc = "poll" /\ flags' = flags
      BY <1>5 DEF HandleSensitive, TakeRecord
    <2>2. CASE Attributable /\ writeEvent(draft, "check") /\ UNCHANGED locals
      <3>1. /\ draft.operation \in ActivityOperations
            /\ draft.process = Observed
            /\ ~OpensPath(draft, flags.artifact)
        BY DEF Draft, ActivityOperations, OpensPath
      <3>2. UNCHANGED << processes, artifactProducer >>
        BY <2>2 DEF locals
      <3> HIDE DEF draft
      <3> QED
        BY <2>1, <2>2, <3>1, <3>2, ActivityAttributes
    <2> QED
      BY <1>3, <1>5, <2>1, <2>2 DEF HandleSensitive
  <1>6. CASE HandleConnect
    <2> DEFINE draft == Draft("network_connect", ring[1].monotonic_ns, Observed,
                              [ destination |-> ipv4Destination(ring[1]) ])
    <2>1. pc = "poll" /\ flags' = flags
      BY <1>6 DEF HandleConnect, TakeRecord
    <2>2. CASE Attributable /\ writeEvent(draft, "check") /\ UNCHANGED locals
      <3>1. /\ draft.operation \in ActivityOperations
            /\ draft.process = Observed
            /\ ~OpensPath(draft, flags.artifact)
        BY DEF Draft, ActivityOperations, OpensPath
      <3>2. UNCHANGED << processes, artifactProducer >>
        BY <2>2 DEF locals
      <3> HIDE DEF draft
      <3> QED
        BY <2>1, <2>2, <3>1, <3>2, ActivityAttributes
    <2> QED
      BY <1>3, <1>6, <2>1, <2>2 DEF HandleConnect
  <1>7. CASE FinalizeArtifact
    <2>1. /\ pc = "artifact" /\ flags' = flags
          /\ UNCHANGED << processes, artifactProducer >>
      BY <1>7 DEF FinalizeArtifact, locals
    <2>2. pc \in Writing /\ "loss" \in Monitoring \cup Ended
      BY <2>1 DEF Writing, Monitoring
    <2>3. ASSUME artifactProducer # Missing, NEW digest,
                 writeEvent(Draft("artifact_finalized", boottimeNS, artifactProducer,
                                  [ path |-> flags.artifact, sha256 |-> digest ]), "loss")
          PROVE  AttributionInv'
      <3> DEFINE draft == Draft("artifact_finalized", boottimeNS, artifactProducer,
                                [ path |-> flags.artifact, sha256 |-> digest ])
      <3>1. /\ draft.operation = "artifact_finalized"
            /\ draft.process = artifactProducer
            /\ draft.resource.path = flags.artifact
            /\ ~OpensPath(draft, flags.artifact)
        BY DEF Draft, OpensPath
      <3>2. writeEvent(draft, "loss")
        BY <2>3
      <3> HIDE DEF draft
      <3>3. /\ \A key \in DOMAIN processes :
                   processes[key].process_key = key /\ LastExec(stream, Len(stream), processes[key])
            /\ LastOpen(stream, Len(stream), flags.artifact, artifactProducer)
        BY <2>2, <2>3 DEF AttributionInv
      <3> QED
        BY <1>0, <2>1, <2>2, <3>1, <3>2, <3>3, WriteAttributes DEF ActivityOperations
    <2>4. CASE pc' = "fatal" /\ UNCHANGED << chain, file >>
      BY <2>1, <2>4, QuietAttributes DEF file, Writing, Monitoring, Early
    <2> QED
      BY <1>7, <2>3, <2>4 DEF FinalizeArtifact
  <1>8. CASE WriteFinalized
    <2> DEFINE draft == Draft("sensor_finalized", boottimeNS, Missing, FinalResource)
               next == IF counterReadError THEN "fatal" ELSE "done"
    <2>1. /\ pc = "final" /\ flags' = flags /\ writeEvent(draft, next)
          /\ UNCHANGED << processes, artifactProducer >>
      BY <1>8 DEF WriteFinalized, locals
    <2>2. draft.operation = "sensor_finalized" /\ ~OpensPath(draft, flags.artifact)
      BY DEF Draft, OpensPath
    <2>3. next \in Monitoring \cup Ended
      BY DEF Ended
    <2> HIDE DEF draft, next
    <2>4. pc \in Writing
      BY <2>1 DEF Writing, Monitoring
    <2>5. /\ \A key \in DOMAIN processes :
                 processes[key].process_key = key /\ LastExec(stream, Len(stream), processes[key])
          /\ artifactProducer # Missing =>
                 LastOpen(stream, Len(stream), flags.artifact, artifactProducer)
      BY <2>4 DEF AttributionInv
    <2> QED
      BY <1>0, <2>1, <2>2, <2>3, <2>4, <2>5, WriteAttributes DEF ActivityOperations
  <1>9. CASE Restart
    <2>1. stream' = stream /\ DOMAIN processes' = {} /\ artifactProducer' = Missing
      BY <1>9 DEF Restart, file, NoResource
    <2> QED
      BY <2>1, QuietAttributes
  <1>10. CASE ParseFlags \/ OpenSensor \/ CreateEvidence \/ CheckContext \/ PollDeadline
              \/ ReadError \/ ReadMalformed \/ AfterReadError \/ ReadCounter
    BY <1>10, QuietAttributes
       DEF ParseFlags, OpenSensor, CreateEvidence, CheckContext, PollDeadline, ReadError,
           ReadMalformed, AfterReadError, ReadCounter, file, locals, Writing, Monitoring, Early
  <1>11. CASE Signal \/ Crash \/ KernelReserve \/ KernelSubmit \/ KernelCauseDrop
              \/ KernelCorrelationDrop \/ Tick \/ Suspend \/ UNCHANGED vars
    BY <1>11, QuietAttributes
       DEF Signal, Crash, KernelReserve, KernelSubmit, KernelCauseDrop, KernelCorrelationDrop,
           Tick, Suspend, vars, file, locals, Writing, Monitoring, Early
  <1> QED
    BY <1>1, <1>2, <1>4, <1>5, <1>6, <1>7, <1>8, <1>9, <1>10, <1>11 DEF Next, CollectorStep, Environment

\* The file is empty and main knows nothing when it first starts.
LEMMA AttributionInit == Init => AttributionInv
  <1> SUFFICES ASSUME Init PROVE AttributionInv
    OBVIOUS
  <1>1. Len(stream) = 0 /\ DOMAIN processes = {} /\ artifactProducer = Missing
    BY DEF Init, NoResource
  <1> QED
    BY <1>1 DEF AttributionInv, ActivityFollowsExec, ArtifactFollowsOpen

-----------------------------------------------------------------------------
\* Whatever the order in which records of any processes arrive, are skipped or
\* cannot be tracked, HandleOpen, HandleSensitive and HandleConnect blame the image
\* that the stream itself shows last for that process.
THEOREM ActivityIsAttributed == Spec => []AttributionSound
  <1>1. AttributionInv => AttributionSound
    BY PropertiesAsFacts DEF AttributionInv
  <1> QED
    BY <1>1, AttributionInit, AttributionNext, ChainInvInit, ChainInvNext, PTL DEF Spec

\* The producer in artifact_finalized is the process of the last write-open of the
\* artifact path that the stream shows.
THEOREM ProducerIsAttributed == Spec => []ProducerIsLastOpener
  <1>1. AttributionInv => ProducerIsLastOpener
    BY PropertiesAsFacts DEF AttributionInv
  <1> QED
    BY <1>1, AttributionInit, AttributionNext, ChainInvInit, ChainInvNext, PTL DEF Spec

-----------------------------------------------------------------------------
(* The order of times: CLOCK_MONOTONIC of the programs and CLOCK_BOOTTIME  *)
(* of main agree while the host is not suspended.                          *)

\* Not before sensor_started and not in the future.
InTime(t, now, events) ==
    t \in Nat /\ t <= now /\ (events # << >> => events[1].monotonic_ns <= t)

\* The inductive invariant: when the build is released after sensor_started a program's
\* time is taken while main monitors, so that it lies between sensor_started and now, in the ring and in the stream.
TimeInv ==
    /\ clock \in Nat /\ suspended \in Nat
    /\ ~EarlyBuild /\ pc \in { "create", "started" } => ring = << >>
    /\ pc \in { "started", "check", "poll", "error", "artifact" } =>
           \A i \in 1..Len(stream) : Operation(i) \notin { "artifact_finalized", "sensor_finalized" }
    /\ \A i \in 1..Len(stream) : Operation(i) = "sensor_started" => i = 1
    /\ suspended = 0 /\ ~EarlyBuild =>
           /\ \A i \in 1..Len(ring) :
                 ring[i].kind = "busy" \/ InTime(ring[i].monotonic_ns, clock, stream)
           /\ \A i \in 1..Len(stream) : InTime(stream[i].monotonic_ns, clock, stream)
    /\ OnlyKernelRecordsRace

\* Where main takes the time of an event from.
Stamped(e) ==
    \/ /\ pc = "started" /\ e.operation = "sensor_started" /\ e.monotonic_ns = clock
       /\ ring' = ring
    \/ /\ pc = "artifact" /\ e.operation = "artifact_finalized" /\ e.monotonic_ns = clock
       /\ pc' \in { "loss", "fatal" } /\ ring' = ring
    \/ /\ pc = "final" /\ e.operation = "sensor_finalized" /\ e.monotonic_ns = clock
       /\ pc' \in { "done", "fatal" } /\ ring' = ring
    \/ /\ pc = "poll" /\ e.operation \notin LifecycleOperations
       /\ ring # << >> /\ ring[1].kind # "busy" /\ e.monotonic_ns = ring[1].monotonic_ns
       /\ ring' = Tail(ring)

\* A sealed event has the time of its draft.
LEMMA SealedTime ==
    ASSUME NEW draft, NEW next, writeEvent(draft, next)
    PROVE  /\ Seal(draft).operation = draft.operation
           /\ Seal(draft).monotonic_ns = draft.monotonic_ns
           /\ stream' = stream \/ stream' = Append(stream, Seal(draft))
           /\ pc' \in { next, "fatal" }
  BY DEF writeEvent, Seal, ChainEvent, WithHash

\* What a step appends to the stream.
StreamStep ==
    \/ stream' = stream
    \/ \E e : stream' = Append(stream, e) /\ Stamped(e) /\ UNCHANGED << clock, suspended >>

LEMMA StreamSteps == [Next]_vars => StreamStep
  <1> SUFFICES ASSUME [Next]_vars, stream' # stream PROVE StreamStep
    BY DEF StreamStep
  <1> USE DEF time, LifecycleOperations
  <1>1. ASSUME NEW draft, NEW next, writeEvent(draft, next)
        PROVE  /\ stream' = Append(stream, Seal(draft)) /\ pc' \in { next, "fatal" }
               /\ Seal(draft).operation = draft.operation
               /\ Seal(draft).monotonic_ns = draft.monotonic_ns
    BY <1>1, SealedTime
  <1>2. CASE WriteStarted
    <2>1. PICK draft : /\ writeEvent(draft, "check") /\ draft.operation = "sensor_started"
                       /\ draft.monotonic_ns = clock
      BY <1>2 DEF WriteStarted, Draft, boottimeNS
    <2>2. pc = "started" /\ ring' = ring /\ UNCHANGED << clock, suspended >>
      BY <1>2 DEF WriteStarted, kernel
    <2>3. Stamped(Seal(draft))
      BY <1>1, <2>1, <2>2 DEF Stamped
    <2> QED
      BY <1>1, <2>1, <2>2, <2>3 DEF StreamStep
  <1>3. CASE FinalizeArtifact
    <2>1. PICK draft : /\ writeEvent(draft, "loss") /\ draft.operation = "artifact_finalized"
                       /\ draft.monotonic_ns = clock
      <3>1. PICK digest \in ArtifactDigests :
              writeEvent(Draft("artifact_finalized", boottimeNS, artifactProducer,
                               [ path |-> flags.artifact, sha256 |-> digest ]), "loss")
        BY <1>3 DEF FinalizeArtifact, file
      <3> DEFINE draft == Draft("artifact_finalized", boottimeNS, artifactProducer,
                                [ path |-> flags.artifact, sha256 |-> digest ])
      <3>2. draft.operation = "artifact_finalized" /\ draft.monotonic_ns = clock
        BY DEF Draft, boottimeNS
      <3> HIDE DEF draft
      <3> QED
        BY <3>1, <3>2 DEF draft
    <2>2. pc = "artifact" /\ ring' = ring /\ UNCHANGED << clock, suspended >>
      BY <1>3 DEF FinalizeArtifact, kernel
    <2>3. Stamped(Seal(draft))
      BY <1>1, <2>1, <2>2 DEF Stamped
    <2> QED
      BY <1>1, <2>1, <2>2, <2>3 DEF StreamStep
  <1>4. CASE WriteFinalized
    <2>1. PICK draft, next :
             /\ writeEvent(draft, next) /\ draft.operation = "sensor_finalized"
             /\ draft.monotonic_ns = clock /\ next \in { "done", "fatal" }
      BY <1>4 DEF WriteFinalized, Draft, boottimeNS
    <2>2. pc = "final" /\ ring' = ring /\ UNCHANGED << clock, suspended >>
      BY <1>4 DEF WriteFinalized, kernel
    <2>3. Stamped(Seal(draft))
      BY <1>1, <2>1, <2>2 DEF Stamped
    <2> QED
      BY <1>1, <2>1, <2>2, <2>3 DEF StreamStep
  <1>5. CASE HandleExec \/ HandleOpen \/ HandleSensitive \/ HandleConnect
    <2>1. PICK draft : /\ writeEvent(draft, "check") /\ draft.operation \notin LifecycleOperations
                       /\ draft.monotonic_ns = ring[1].monotonic_ns
      BY <1>5 DEF HandleExec, HandleOpen, HandleSensitive, HandleConnect, SkipRecord, Draft, file
    <2>2. /\ pc = "poll" /\ ring # << >> /\ ring[1].kind # "busy" /\ ring' = Tail(ring)
          /\ UNCHANGED << clock, suspended >>
      BY <1>5 DEF HandleExec, HandleOpen, HandleSensitive, HandleConnect, TakeRecord,
                  Source!Consume, Source!HeadReady
    <2>3. Stamped(Seal(draft))
      BY <1>1, <2>1, <2>2 DEF Stamped
    <2> QED
      BY <1>1, <2>1, <2>2, <2>3 DEF StreamStep
  <1>6. ParseFlags \/ OpenSensor \/ CreateEvidence \/ CheckContext \/ PollDeadline \/ ReadError
           \/ ReadMalformed \/ AfterReadError \/ ReadCounter => stream' = stream
    BY DEF ParseFlags, OpenSensor, CreateEvidence, CheckContext, PollDeadline, ReadError,
           ReadMalformed, AfterReadError, ReadCounter, file
  <1>7. Environment \/ UNCHANGED vars => stream' = stream
    BY DEF Environment, Signal, Crash, Restart, KernelReserve, KernelSubmit, KernelCauseDrop,
           KernelCorrelationDrop, Tick, Suspend, vars, file
  <1> QED
    BY <1>2, <1>3, <1>4, <1>5, <1>6, <1>7 DEF Next, CollectorStep

\* What a step does to the ring and to the clocks; programs run while main monitors,
\* or the build was not held back.
RingStep ==
    \/ /\ ring' = ring /\ (pc' = "create" => pc = "create")
       /\ pc' = "started" => pc \in { "create", "started" }
    \/ ring' = << >>
    \/ ring # << >> /\ ring' = Tail(ring) /\ pc' \notin { "create", "started" }
    \/ \E pid : ring' = Append(ring, Source!Busy(pid)) /\ (EarlyBuild \/ pc' \notin { "create", "started" })
    \/ \E i \in 1..Len(ring), record \in KernelRecords :
          /\ ring' = [ ring EXCEPT ![i] = [ record EXCEPT !.monotonic_ns = clock - suspended ] ]
          /\ EarlyBuild \/ pc' \notin { "create", "started" }
          /\ UNCHANGED << clock, suspended, stream >>

LEMMA RingSteps == [Next]_vars => RingStep
  <1> SUFFICES ASSUME [Next]_vars PROVE RingStep
    OBVIOUS
  <1> USE DEF Writing, Monitoring, Ended, kernel, time, file
  <1>1. ASSUME NEW draft, NEW next, writeEvent(draft, next), next \notin { "create", "started" }
        PROVE  pc' \notin { "create", "started" }
    BY <1>1 DEF writeEvent
  <1>2. CASE WriteStarted \/ FinalizeArtifact \/ WriteFinalized
    <2>1. ring' = ring
      BY <1>2 DEF WriteStarted, FinalizeArtifact, WriteFinalized
    <2>2. pc' \notin { "create", "started" }
      <3>1. CASE WriteStarted
        BY <1>1, <3>1 DEF WriteStarted
      <3>2. CASE FinalizeArtifact
        <4>1. pc' = "fatal" \/ \E draft : writeEvent(draft, "loss")
          BY <3>2 DEF FinalizeArtifact
        <4> QED
          BY <1>1, <4>1
      <3>3. CASE WriteFinalized
        <4>1. \E draft, next : writeEvent(draft, next) /\ next \in { "fatal", "done" }
          BY <3>3 DEF WriteFinalized
        <4> QED
          BY <1>1, <4>1
      <3> QED
        BY <1>2, <3>1, <3>2, <3>3
    <2> QED
      BY <2>1, <2>2 DEF RingStep
  <1>3. CASE HandleExec \/ HandleOpen \/ HandleSensitive \/ HandleConnect \/ ReadMalformed
    <2>1. ring # << >> /\ ring' = Tail(ring)
      BY <1>3 DEF HandleExec, HandleOpen, HandleSensitive, HandleConnect, ReadMalformed, TakeRecord,
                  Source!Consume, Source!HeadReady
    <2>2. pc' \notin { "create", "started" }
      BY <1>1, <1>3 DEF HandleExec, HandleOpen, HandleSensitive, HandleConnect, ReadMalformed,
                        SkipRecord
    <2> QED
      BY <2>1, <2>2 DEF RingStep
  <1>4. CASE OpenSensor
    BY <1>4 DEF OpenSensor, Source!Reset, RingStep
  <1>5. CASE ParseFlags \/ CreateEvidence \/ CheckContext \/ PollDeadline \/ ReadError
             \/ AfterReadError \/ ReadCounter
    BY <1>5 DEF ParseFlags, CreateEvidence, CheckContext, PollDeadline, ReadError, AfterReadError,
                ReadCounter, RingStep
  <1>6. CASE Signal \/ Crash \/ Restart \/ Tick \/ Suspend \/ UNCHANGED vars
    BY <1>6 DEF Signal, Crash, Restart, Tick, Suspend, vars, RingStep
  <1>7. CASE KernelReserve \/ KernelCauseDrop \/ KernelCorrelationDrop
    BY <1>7 DEF KernelReserve, KernelCauseDrop, KernelCorrelationDrop, Source!Reserve,
                Source!DropFull, Source!CauseDrop, Source!CorrelationDrop, KernelActive,
                RingStep
  <1>8. CASE KernelSubmit
    BY <1>8 DEF KernelSubmit, Source!Submit, ktime, KernelActive, RingStep
  <1> QED
    BY <1>2, <1>3, <1>4, <1>5, <1>6, <1>7, <1>8 DEF Next, CollectorStep, Environment

\* Neither clock goes back.
LEMMA ClockSteps ==
    ASSUME [Next]_vars, clock \in Nat, suspended \in Nat
    PROVE  clock' \in Nat /\ suspended' \in Nat /\ clock <= clock' /\ suspended <= suspended'
  <1>1. \/ UNCHANGED << clock, suspended >> \/ (clock' = clock + 1 /\ suspended' = suspended)
        \/ (clock' = clock + 1 /\ suspended' = suspended + 1)
    BY DEF Next, CollectorStep, Environment, vars, ParseFlags, OpenSensor, CreateEvidence, WriteStarted,
            CheckContext, PollDeadline, ReadError, ReadMalformed, AfterReadError, HandleExec, HandleOpen,
            HandleSensitive, HandleConnect, TakeRecord, FinalizeArtifact, ReadCounter, WriteFinalized, Signal, Crash,
            Restart, KernelReserve, KernelSubmit, KernelCauseDrop, KernelCorrelationDrop, Tick,
            Suspend, kernel, time
  <1> QED
    BY <1>1

\* A slot is filled with a record that has the time of its filling.
LEMMA FilledSlot ==
    ASSUME IsSequence(ring), NEW i \in 1..Len(ring), NEW record \in KernelRecords, NEW t,
           ring' = [ ring EXCEPT ![i] = [ record EXCEPT !.monotonic_ns = t ] ]
    PROVE  /\ Len(ring') = Len(ring)
           /\ ring'[i].monotonic_ns = t
           /\ \A j \in 1..Len(ring) : j # i => ring'[j] = ring[j]
  <1> DEFINE filled == [ record EXCEPT !.monotonic_ns = t ]
  <1>1. filled.monotonic_ns = t
    BY RecordsAssumption, Zenon
  <1> HIDE DEF filled
  <1>2. ring' = [ ring EXCEPT ![i] = filled ]
    BY DEF filled
  <1> QED
    BY <1>1, <1>2, RingFacts

\* Times in the ring stay in range while the stream and the ring grow.
LEMMA RingTimeNext ==
    ASSUME ChainInv, LifeInv, TypeInv, TimeInv, [Next]_vars, suspended' = 0, ~EarlyBuild
    PROVE  \A i \in 1..Len(ring') : ring'[i].kind = "busy" \/ InTime(ring'[i].monotonic_ns, clock', stream')
  <1>1. /\ IsSequence(ring) /\ IsSequence(stream) /\ clock \in Nat /\ suspended \in Nat
    BY DEF ChainInv, TypeInv, TimeInv
  <1>2. clock' \in Nat /\ clock <= clock' /\ suspended = 0
    BY <1>1, ClockSteps
  <1>3. \A i \in 1..Len(ring) : ring[i].kind = "busy" \/ InTime(ring[i].monotonic_ns, clock, stream)
    BY <1>2 DEF TimeInv
  <1>4. ASSUME NEW e, stream' = Append(stream, e), stream = << >>
        PROVE  ring' = << >>
    <2>1. stream' # stream
      BY <1>1, <1>4, AppendFacts
    <2>2. PICK f : stream' = Append(stream, f) /\ Stamped(f)
      BY <2>1, StreamSteps DEF StreamStep
    <2>3. pc = "started" /\ ring' = ring
      BY <1>4, <2>2 DEF Stamped, LifeInv
    <2> QED
      BY <2>3 DEF TimeInv
  <1>5. ASSUME NEW t, InTime(t, clock, stream), ring' # << >>
        PROVE  InTime(t, clock', stream')
    <2>1. t \in Nat /\ t <= clock'
      BY <1>1, <1>2, <1>5 DEF InTime
    <2>2. CASE stream' = stream
      BY <1>5, <2>1, <2>2 DEF InTime
    <2>3. CASE \E e : stream' = Append(stream, e)
      <3>1. stream # << >>
        BY <1>4, <1>5, <2>3
      <3>2. stream'[1] = stream[1]
        BY <1>1, <2>3, <3>1, AppendFacts, ZeroLength
      <3> QED
        BY <1>5, <2>1, <3>1, <3>2 DEF InTime
    <2> QED
      BY <2>2, <2>3, StreamSteps DEF StreamStep
  <1>6. CASE ring' = ring
    <2> SUFFICES ASSUME NEW i \in 1..Len(ring)
                 PROVE  ring[i].kind = "busy" \/ InTime(ring[i].monotonic_ns, clock', stream')
      BY <1>6
    <2>1. ring' # << >>
      BY <1>1, <1>6, ZeroLength
    <2> QED
      BY <1>3, <1>5, <2>1
  <1>7. CASE ring' = << >>
    BY <1>7
  <1>8. CASE ring # << >> /\ ring' = Tail(ring)
    <2> SUFFICES ASSUME NEW i \in 1..Len(ring')
                 PROVE  ring'[i].kind = "busy" \/ InTime(ring'[i].monotonic_ns, clock', stream')
      OBVIOUS
    <2>1. PICK S : ring \in Seq(S)
      BY <1>1 DEF IsSequence
    <2>2. ring' # << >> /\ ring'[i] = ring[i + 1] /\ i + 1 \in 1..Len(ring)
      <3>1. Len(ring) \in Nat /\ ring' \in Seq(S) /\ Len(ring') = Len(ring) - 1
        BY <1>8, <2>1
      <3>2. i \in Nat /\ i >= 1 /\ i <= Len(ring) - 1
        BY <3>1
      <3>3. ring' # << >>
        BY <3>1, <3>2
      <3>4. ring'[i] = ring[i + 1]
        BY <1>8, <2>1, <3>1, <3>2
      <3> QED
        BY <3>1, <3>2, <3>3, <3>4
    <2>3. ring[i + 1].kind = "busy" \/ InTime(ring[i + 1].monotonic_ns, clock, stream)
      BY <1>3, <2>2
    <2> QED
      BY <1>5, <2>2, <2>3
  <1>9. CASE \E pid : ring' = Append(ring, Source!Busy(pid))
    <2>1. PICK pid : ring' = Append(ring, Source!Busy(pid))
      BY <1>9
    <2>2. /\ ring' # << >> /\ Len(ring) \in Nat /\ Len(ring') = Len(ring) + 1
          /\ \A i \in 1..Len(ring) : ring'[i] = ring[i]
          /\ ring'[Len(ring) + 1].kind = "busy"
      BY <1>1, <2>1, AppendFacts DEF Source!Busy
    <2> SUFFICES ASSUME NEW i \in 1..Len(ring')
                 PROVE  ring'[i].kind = "busy" \/ InTime(ring'[i].monotonic_ns, clock', stream')
      OBVIOUS
    <2>3. CASE i = Len(ring) + 1
      BY <2>2, <2>3
    <2>4. CASE i \in 1..Len(ring)
      BY <1>3, <1>5, <2>2, <2>4
    <2> QED
      BY <2>2, <2>3, <2>4
  <1>10. CASE \E i \in 1..Len(ring), record \in KernelRecords :
               /\ ring' = [ ring EXCEPT ![i] = [ record EXCEPT !.monotonic_ns = clock - suspended ] ]
               /\ UNCHANGED << clock, suspended, stream >>
    <2>1. PICK k \in 1..Len(ring), record \in KernelRecords :
             /\ ring' = [ ring EXCEPT ![k] = [ record EXCEPT !.monotonic_ns = clock - suspended ] ]
             /\ UNCHANGED << clock, suspended, stream >>
      BY <1>10
    <2>2. /\ Len(ring') = Len(ring) /\ ring'[k].monotonic_ns = clock - suspended
          /\ \A j \in 1..Len(ring) : j # k => ring'[j] = ring[j]
      BY <1>1, <2>1, FilledSlot
    <2>3. ring'[k].monotonic_ns = clock
      BY <1>1, <1>2, <2>2
    <2>4. InTime(clock, clock, stream)
      <3>1. stream # << >> => 1 \in 1..Len(stream)
        BY <1>1, ZeroLength
      <3>2. \A i \in 1..Len(stream) : InTime(stream[i].monotonic_ns, clock, stream)
        BY <1>2 DEF TimeInv
      <3> QED
        BY <1>1, <3>1, <3>2 DEF InTime
    <2>5. ring' # << >>
      BY <1>1, <2>2, ZeroLength
    <2> SUFFICES ASSUME NEW i \in 1..Len(ring)
                 PROVE  ring'[i].kind = "busy" \/ InTime(ring'[i].monotonic_ns, clock', stream')
      BY <2>2
    <2>6. CASE i = k
      BY <1>5, <2>3, <2>4, <2>5, <2>6
    <2>7. CASE i # k
      BY <1>3, <1>5, <2>2, <2>5, <2>7
    <2> QED
      BY <2>6, <2>7
  <1> QED
    BY <1>6, <1>7, <1>8, <1>9, <1>10, RingSteps DEF RingStep

\* An event is stamped in range: with the clock, or with the time of the oldest record.
LEMMA StreamTimeNext ==
    ASSUME ChainInv, LifeInv, TypeInv, TimeInv, [Next]_vars, suspended' = 0, ~EarlyBuild
    PROVE  \A i \in 1..Len(stream') : InTime(stream'[i].monotonic_ns, clock', stream')
  <1>1. IsSequence(ring) /\ IsSequence(stream) /\ clock \in Nat /\ suspended \in Nat
    BY DEF ChainInv, TypeInv, TimeInv
  <1>2. clock' \in Nat /\ clock <= clock' /\ suspended = 0
    BY <1>1, ClockSteps
  <1>3. \A i \in 1..Len(stream) : InTime(stream[i].monotonic_ns, clock, stream)
    BY <1>2 DEF TimeInv
  <1>4. CASE stream' = stream
    BY <1>1, <1>2, <1>3, <1>4 DEF InTime
  <1>5. CASE \E e : stream' = Append(stream, e) /\ Stamped(e) /\ UNCHANGED << clock, suspended >>
    <2>1. PICK e : stream' = Append(stream, e) /\ Stamped(e) /\ clock' = clock
      BY <1>5
    <2>2. /\ Len(stream) \in Nat /\ Len(stream') = Len(stream) + 1
          /\ \A i \in 1..Len(stream) : stream'[i] = stream[i]
          /\ stream'[Len(stream) + 1] = e /\ stream' # << >>
      BY <1>1, <2>1, AppendFacts
    <2>3. CASE stream = << >>
      <3>1. pc = "started" /\ e.monotonic_ns = clock
        BY <2>1, <2>3 DEF Stamped, LifeInv
      <3>2. Len(stream) = 0
        BY <2>3
      <3>3. \A i \in 1..Len(stream') : stream'[i] = e
        BY <2>2, <3>2
      <3>4. stream'[1] = e
        BY <2>2, <3>2
      <3> QED
        BY <1>1, <2>1, <3>1, <3>3, <3>4 DEF InTime
    <2>4. CASE stream # << >>
      <3>1. 1 \in 1..Len(stream) /\ stream'[1] = stream[1]
        BY <1>1, <2>2, <2>4, ZeroLength
      <3>2. InTime(e.monotonic_ns, clock, stream)
        <4>1. CASE e.monotonic_ns = clock
          BY <1>1, <1>3, <3>1, <4>1 DEF InTime
        <4>2. CASE ring # << >> /\ ring[1].kind # "busy" /\ e.monotonic_ns = ring[1].monotonic_ns
          <5>1. 1 \in 1..Len(ring)
            BY <1>1, <4>2, ZeroLength
          <5> QED
            BY <1>2, <4>2, <5>1 DEF TimeInv
        <4> QED
          BY <2>1, <4>1, <4>2 DEF Stamped
      <3>3. ASSUME NEW i \in 1..Len(stream') PROVE InTime(stream'[i].monotonic_ns, clock, stream)
        <4>1. CASE i = Len(stream) + 1
          BY <2>2, <3>2, <4>1
        <4>2. CASE i \in 1..Len(stream)
          BY <1>3, <2>2, <4>2
        <4> QED
          BY <2>2, <4>1, <4>2
      <3>4. \A t : InTime(t, clock, stream) => InTime(t, clock', stream')
        BY <2>1, <2>4, <3>1 DEF InTime
      <3> QED
        BY <3>3, <3>4
    <2> QED
      BY <2>3, <2>4
  <1> QED
    BY <1>4, <1>5, StreamSteps DEF StreamStep

\* Of two events out of order neither is one of main's own.
LEMMA RaceNext ==
    ASSUME ChainInv, LifeInv, TypeInv, TimeInv, [Next]_vars
    PROVE  OnlyKernelRecordsRace'
  <1> SUFFICES ASSUME suspended' = 0, ~EarlyBuild, NEW i \in 1..Len(stream'), NEW j \in 1..Len(stream'),
                      i < j, stream'[j].monotonic_ns < stream'[i].monotonic_ns
               PROVE  { stream'[i].operation, stream'[j].operation } \cap LifecycleOperations = {}
    BY DEF OnlyKernelRecordsRace, Operation
  <1>1. IsSequence(ring) /\ IsSequence(stream) /\ clock \in Nat /\ suspended \in Nat
    BY DEF ChainInv, TypeInv, TimeInv
  <1>2. suspended = 0
    BY <1>1, ClockSteps
  <1>3. /\ \A k \in 1..Len(stream) : InTime(stream[k].monotonic_ns, clock, stream)
        /\ \A k \in 1..Len(ring) :
              ring[k].kind = "busy" \/ InTime(ring[k].monotonic_ns, clock, stream)
    BY <1>2 DEF TimeInv
  <1>4. ASSUME i \in 1..Len(stream), j \in 1..Len(stream), stream'[i] = stream[i],
               stream'[j] = stream[j]
        PROVE  { stream'[i].operation, stream'[j].operation } \cap LifecycleOperations = {}
    BY <1>2, <1>4 DEF TimeInv, OnlyKernelRecordsRace, Operation
  <1>5. CASE stream' = stream
    BY <1>4, <1>5
  <1>6. CASE \E e : stream' = Append(stream, e) /\ Stamped(e)
    <2>1. PICK e : stream' = Append(stream, e) /\ Stamped(e)
      BY <1>6
    <2>2. /\ Len(stream) \in Nat /\ Len(stream') = Len(stream) + 1
          /\ \A k \in 1..Len(stream) : stream'[k] = stream[k]
          /\ stream'[Len(stream) + 1] = e
      BY <1>1, <2>1, AppendFacts
    <2>3. CASE j \in 1..Len(stream)
      BY <1>4, <2>2, <2>3
    <2>4. CASE j = Len(stream) + 1
      <3>1. i \in 1..Len(stream) /\ stream'[i] = stream[i] /\ stream'[j] = e
        BY <2>2, <2>4
      <3>2. /\ stream[i].monotonic_ns \in Nat /\ stream[i].monotonic_ns <= clock
            /\ e.monotonic_ns < stream[i].monotonic_ns
            /\ stream # << >> /\ 1 \in 1..Len(stream)
        BY <1>1, <1>3, <3>1 DEF InTime
      <3>3. e.monotonic_ns # clock
        BY <1>1, <3>2
      <3>4. /\ pc = "poll" /\ e.operation \notin LifecycleOperations
            /\ ring # << >> /\ ring[1].kind # "busy" /\ e.monotonic_ns = ring[1].monotonic_ns
        BY <2>1, <3>3 DEF Stamped
      <3>5. InTime(e.monotonic_ns, clock, stream)
        BY <1>1, <1>3, <3>4, ZeroLength
      <3>6. i # 1
        <4>1. stream[1].monotonic_ns <= e.monotonic_ns /\ e.monotonic_ns \in Nat
          BY <3>2, <3>5 DEF InTime
        <4>2. stream[1].monotonic_ns \in Nat
          BY <1>3, <3>2 DEF InTime
        <4> QED
          BY <3>2, <4>1, <4>2
      <3>7. stream[i].operation \notin LifecycleOperations
        BY <3>1, <3>4, <3>6 DEF TimeInv, Operation, LifecycleOperations
      <3> QED
        BY <3>1, <3>4, <3>7
    <2> QED
      BY <2>2, <2>3, <2>4
  <1> QED
    BY <1>5, <1>6, StreamSteps DEF StreamStep

\* Lifecycle events are where they belong.
LEMMA PlaceNext ==
    ASSUME ChainInv, ChainInv', LifeInv, TimeInv, [Next]_vars
    PROVE  /\ pc' \in { "started", "check", "poll", "error", "artifact" } =>
                  \A i \in 1..Len(stream') :
                      stream'[i].operation \notin { "artifact_finalized", "sensor_finalized" }
           /\ \A i \in 1..Len(stream') : stream'[i].operation = "sensor_started" => i = 1
  <1> DEFINE early == { "started", "check", "poll", "error", "artifact" }
             final == { "artifact_finalized", "sensor_finalized" }
  <1>1. /\ IsSequence(stream)
        /\ pc \in early => \A i \in 1..Len(stream) : stream[i].operation \notin final
        /\ \A i \in 1..Len(stream) : stream[i].operation = "sensor_started" => i = 1
    BY DEF ChainInv, TimeInv, Operation
  <1>2. CASE stream' = stream
    <2>1. ASSUME pc' \in early PROVE pc \in early \/ stream' = << >>
      <3>1. pc' = "started" => stream' = << >>
        BY DEF ChainInv
      <3>2. CASE UNCHANGED file
        BY <2>1, <3>1, <3>2, FileSteps DEF FileStep, Writing, Monitoring, CreateEvidence, writeEvent, Lifecycle
      <3>3. CASE CreateEvidence
        BY <2>1, <3>1, <3>3 DEF CreateEvidence
      <3>4. CASE \E draft, next : writeEvent(draft, next) /\ Lifecycle(draft.operation, next)
        BY <2>1, <3>4 DEF writeEvent, Lifecycle
      <3> QED
        BY <3>2, <3>3, <3>4, FileSteps DEF FileStep
    <2> QED
      BY <1>1, <1>2, <2>1
  <1>3. CASE \E e : stream' = Append(stream, e) /\ Stamped(e)
    <2>1. PICK e : stream' = Append(stream, e) /\ Stamped(e)
      BY <1>3
    <2>2. /\ Len(stream) \in Nat /\ Len(stream') = Len(stream) + 1
          /\ \A k \in 1..Len(stream) : stream'[k] = stream[k]
          /\ stream'[Len(stream) + 1] = e
      BY <1>1, <2>1, AppendFacts
    <2>3. e.operation = "sensor_started" => Len(stream) = 0
      BY <2>1 DEF Stamped, ChainInv, LifecycleOperations
    <2>4. pc' \in early => pc \in early /\ e.operation \notin final
      BY <2>1 DEF Stamped, LifecycleOperations
    <2>5. 1..Len(stream') = 1..Len(stream) \cup { Len(stream) + 1 }
      BY <2>2
    <2> HIDE DEF early, final
    <2>6. pc' \in early => \A i \in 1..Len(stream') : stream'[i].operation \notin final
      BY <1>1, <2>2, <2>4, <2>5
    <2>7. \A i \in 1..Len(stream') : stream'[i].operation = "sensor_started" => i = 1
      BY <1>1, <2>2, <2>3, <2>5
    <2> QED
      BY <2>6, <2>7 DEF early, final
  <1> QED
    BY <1>2, <1>3, StreamSteps DEF StreamStep

\* Every step preserves the inductive invariant.
LEMMA TimeInvNext ==
    ASSUME ChainInv, ChainInv', LifeInv, TypeInv, TimeInv, [Next]_vars
    PROVE  TimeInv'
  <1>1. clock' \in Nat /\ suspended' \in Nat
    BY ClockSteps DEF TimeInv
  <1>2. ~EarlyBuild /\ pc' \in { "create", "started" } => ring' = << >>
    BY RingSteps DEF RingStep, TimeInv
  <1> QED
    BY <1>1, <1>2, PlaceNext, RingTimeNext, StreamTimeNext, RaceNext DEF TimeInv, Operation

\* For every set of records: while the host has not been suspended main writes no event
\* stamped before its sensor_started, and none behind artifact_finalized that is stamped
\* before it; only the events of two kernel records can be out of order.
THEOREM OnlyRecordsRace == Spec => []OnlyKernelRecordsRace
  <1>1. Init => TimeInv
    BY DEF Init, Source!Fresh, TimeInv, OnlyKernelRecordsRace
  <1>2. ChainInv /\ ChainInv' /\ LifeInv /\ TypeInv /\ TimeInv /\ [Next]_vars => TimeInv'
    BY TimeInvNext
  <1>3. TimeInv => OnlyKernelRecordsRace
    BY DEF TimeInv
  <1>4. ChainInv /\ LifeInv /\ [Next]_vars => LifeInv'
    BY StepImplements
  <1>5. Init => LifeInv
    BY InitImplements
  <1> QED
    BY <1>1, <1>2, <1>3, <1>4, <1>5, TypeInvInit, TypeInvNext, ChainInvInit, ChainInvNext, PTL
       DEF Spec
=============================================================================
