------------------------------ MODULE Collector ------------------------------
(***************************************************************************)
(* rpf-sensor, the collector process (cmd/rpf-sensor/main_linux.go with    *)
(* Read, decodeEvent and Loss of internal/sensor/sensor_linux.go).         *)
(*                                                                         *)
(* It checks its flags, attaches the BPF programs, creates the evidence    *)
(* file exclusively, and then turns ring-buffer records into chained       *)
(* events until a signal cancels its context; at the end it hashes the     *)
(* artifact, reads the five kernel loss counters one map after the other   *)
(* and writes the final record.  Every event is appended and synced before *)
(* the next step.  The process can fail at any write, crash at any step    *)
(* and be started again on the same output path.                           *)
(*                                                                         *)
(* The kernel is the environment, as RecordSource describes it: programs   *)
(* on other CPUs reserve a ring slot, fill and submit it later, and bump   *)
(* the loss counters meanwhile.  They take the time from CLOCK_MONOTONIC,  *)
(* the collector takes it from CLOCK_BOOTTIME, which a suspend advances.   *)
(***************************************************************************)
EXTENDS Evidence

CONSTANTS
    FlagSets,             \* the command lines the collector may be started with
    KernelRecords,        \* the records the BPF programs may submit
    ArtifactDigests,      \* what digestFile may compute
    maxTrackedProcesses,  \* main_linux.go:26
    RingSlots,            \* records that fit the ring buffer
    MaxRecords,           \* bound: records reserved in a behaviour
    MaxDrops,             \* bound: losses the kernel counts in a behaviour
    MaxClock,             \* bound: the boot clock
    MaxSuspend,           \* bound: the time the host is suspended
    MaxRestarts,          \* bound: further starts on the same output path
    EarlyBuild            \* the build may run before sensor_started is written

ASSUME BoundsAssumption ==
    /\ maxTrackedProcesses \in Nat
    /\ RingSlots \in Nat

\* A collection ends long before a counter of 64 bits wraps around.
ASSUME CountersAssumption ==
    /\ MaxRecords \in Nat
    /\ MaxDrops \in Nat
    /\ MaxRecords + MaxDrops < Wrap

\* The driver scripts start the build a second after the collector; that the
\* collector is ready by then ("Monitor attached before build release",
\* docs/event-schema.md) is an assumption, and FALSE stands for it.
ASSUME ReleaseAssumption == EarlyBuild \in BOOLEAN

\* struct event: every record has the time fill_process took.
ASSUME RecordsAssumption == \A record \in KernelRecords : "monotonic_ns" \in DOMAIN record

VARIABLES
    pc,                \* where the collector's main stands
    flags,             \* its parsed command line
    stop,              \* the signal context is cancelled
    processes,         \* process key -> process of the last observed exec
    artifactProducer,  \* process of the last write-open of the artifact
    decodeLoss,        \* userspace loss counter
    chain,             \* the EventChain
    snapshot,          \* loss counters read so far by Loss()
    counterReadError,  \* Loss() failed
    exists,            \* the output path exists
    stream,            \* its complete lines
    torn,              \* a cut line follows them
    ring,              \* ring-buffer slots in reservation order
    drops,             \* the kernel loss counters, summed over CPUs
    clock,             \* boot time
    suspended,         \* how much of it the host was suspended
    restarts,          \* how often the collector was started again
    taken,             \* history: decoded records
    rejected,          \* history: records decodeEvent refused
    owed,              \* history: records submitted before the signal
    missed             \* history: kernel losses counted, and errors of the reader looked
                       \* at, before the signal

locals == << processes, artifactProducer, decodeLoss >>
file == << exists, stream, torn >>
loss == << snapshot, counterReadError >>
time == << clock, suspended >>
kernel == << ring, drops, time >>
history == << taken, rejected, owed, missed >>
vars == << pc, flags, stop, locals, chain, loss, file, kernel, restarts, history >>

-----------------------------------------------------------------------------
(* Data                                                                    *)

\* The maps Loss() reads, in its order.
LossMaps == << "ringbuf_drops", "correlation_drops", "path_read_drops",
               "map_update_drops", "cgroup_mismatch_drops" >>

Threads == { record.pid : record \in KernelRecords }

Source == INSTANCE RecordSource WITH Records <- KernelRecords

KernelKinds == { "exec", "open", "sensitive", "connect4" }

NoLoss == [ i \in 1..Len(LossMaps) |-> 0 ]

ipv4Destination(record) == << record.destination_ipv4, record.destination_port >>

\* The flag checks of main; the registered path hash must be the path's own.
FlagsAccepted(f) ==
    /\ BuildComplete(f.build)
    /\ SourceComplete(f.build.source)
    /\ f.artifact # Missing
    /\ (f.sensitive_path = Missing) = (f.sensitive_category = Missing)
    /\ f.build.cgroup_path_hash = Digest(f.cgroup_path)

digestSensorConfiguration(f) ==
    << f.build.cgroup_id, f.cgroup_path, f.build.source,
       f.sensitive_path, f.sensitive_category >>

processFromKernel(record, bootID) ==
    [ process_key     |-> ProcessKey(bootID, record.pid_namespace, record.tgid,
                                     record.start_time),
      parent_key      |-> ProcessKey(bootID, record.parent_pid_namespace, record.ppid,
                                     record.parent_start_time),
      mount_namespace |-> IF record.mount_namespace = 0 THEN Missing
                          ELSE record.mount_namespace,
      executable      |-> record.filename ]

Draft(operation, monotonic_ns, process, resource) ==
    [ operation |-> operation, monotonic_ns |-> monotonic_ns,
      process |-> process, resource |-> resource ]

NoResource == [ k \in {} |-> Missing ]

-----------------------------------------------------------------------------
(* Where the collector stands                                              *)

Ended == { "done", "fatal", "crashed" }

\* The loop and the finalization: the signal handler is installed.
Monitoring == { "check", "poll", "error", "artifact", "loss", "final" }

\* This process created the evidence file and may write to it.
Writing == Monitoring \cup { "started" }

Running == Writing \cup { "flags", "open", "create" }

TypeOK ==
    /\ pc \in Running \cup Ended
    /\ flags \in FlagSets
    /\ stop \in BOOLEAN /\ counterReadError \in BOOLEAN
    /\ exists \in BOOLEAN /\ torn \in BOOLEAN
    /\ decodeLoss \in 0 .. (Wrap - 1)
    /\ chain.sequence \in Nat
    /\ Len(ring) <= RingSlots
    /\ Len(snapshot) <= Len(LossMaps)
    /\ DOMAIN drops = Source!Counters
    /\ Cardinality(DOMAIN processes) <= maxTrackedProcesses

-----------------------------------------------------------------------------
Init ==
    /\ pc = "flags"
    /\ flags \in FlagSets
    /\ stop = FALSE
    /\ processes = NoResource /\ artifactProducer = Missing /\ decodeLoss = 0
    /\ chain = NewEventChain
    /\ snapshot = << >> /\ counterReadError = FALSE
    /\ exists = FALSE /\ stream = << >> /\ torn = FALSE
    /\ Source!Fresh
    /\ clock = 1 /\ suspended = 0
    /\ restarts = 0
    /\ taken = 0 /\ rejected = 0 /\ owed = 0 /\ missed = 0

-----------------------------------------------------------------------------
(* Start-up                                                                *)

ParseFlags ==
    /\ pc = "flags"
    /\ pc' = IF /\ FlagsAccepted(flags)
                /\ NewEventChainAccepts(flags.build, digestSensorConfiguration(flags))
             THEN "open" ELSE "fatal"
    /\ chain' = NewEventChain
    /\ UNCHANGED << flags, stop, locals, loss, file, kernel, restarts, history >>

\* sensor.Open loads a fresh collection: empty ring, counters at zero.
OpenSensor ==
    /\ pc = "open"
    /\ pc' \in { "create", "fatal" }
    /\ Source!Reset
    /\ UNCHANGED << flags, stop, locals, chain, loss, file, time, restarts, history >>

\* Mutant: O_CREATE alone, an existing file is appended to.
CreateEvidenceResuming ==
    /\ pc = "create"
    /\ exists' = TRUE /\ pc' = "started"
    /\ UNCHANGED << flags, stop, locals, chain, loss, stream, torn, kernel, restarts, history >>

\* Mutant: O_TRUNC, an existing file is emptied.
CreateEvidenceTruncating ==
    /\ pc = "create"
    /\ exists' = TRUE /\ stream' = << >> /\ torn' = FALSE /\ pc' = "started"
    /\ UNCHANGED << flags, stop, locals, chain, loss, kernel, restarts, history >>

\* O_CREATE|O_EXCL: an existing path is an error.
CreateEvidence ==
    /\ pc = "create"
    /\ \/ ~exists /\ exists' = TRUE /\ pc' = "started"
       \/ exists' = exists /\ pc' = "fatal"
    /\ UNCHANGED << flags, stop, locals, chain, loss, stream, torn, kernel, restarts, history >>

-----------------------------------------------------------------------------
(* writeEvent                                                              *)

Seal(draft) == ChainEvent(chain, flags.build, digestSensorConfiguration(flags), draft)

\* Mutant: the error of Write is not looked at.
writeEventUnchecked(draft, next) ==
    LET event == Seal(draft)
    IN  /\ chain' = ChainAppend(chain, event)
        /\ exists' = exists
        /\ stream' \in { stream, Append(stream, event) } /\ torn' = torn
        /\ pc' = next

\* Append, Write and Sync.  A failed write leaves none or a part of the line;
\* a failed sync, or a lost newline alone, leaves a whole line.
writeEvent(draft, next) ==
    LET event == Seal(draft)
    IN  /\ chain' = ChainAppend(chain, event)
        /\ exists' = exists
        /\ \/ /\ validateEvent(event)
              /\ stream' = Append(stream, event) /\ torn' = torn
              /\ pc' \in { next, "fatal" }
           \/ /\ validateEvent(event)
              /\ stream' = stream /\ torn' \in BOOLEAN
              /\ pc' = "fatal"
           \/ /\ ~validateEvent(event)
              /\ stream' = stream /\ torn' = torn
              /\ pc' = "fatal"

\* Mutant: the time of the first event is kept and used again.
boottimeNSCached == IF stream = << >> THEN clock ELSE stream[1].monotonic_ns

boottimeNS == clock

WriteStarted ==
    /\ pc = "started"
    /\ writeEvent(Draft("sensor_started", boottimeNS, Missing,
                        [ target_cgroup_id |-> flags.build.cgroup_id ]), "check")
    /\ UNCHANGED << flags, stop, locals, loss, kernel, restarts, history >>

-----------------------------------------------------------------------------
(* The read loop                                                           *)

\* Mutant: the context is not looked at before a poll.
CheckContextNever ==
    /\ pc = "check"
    /\ pc' = "poll"
    /\ UNCHANGED << flags, stop, locals, chain, loss, file, kernel, restarts, history >>

\* Sensor.Read looks at the context before every poll of the ring.
CheckContext ==
    /\ pc = "check"
    /\ pc' = IF stop THEN "error" ELSE "poll"
    /\ UNCHANGED << flags, stop, locals, chain, loss, file, kernel, restarts, history >>

PollDeadline ==
    /\ pc = "poll" /\ ~Source!HeadReady
    /\ pc' = "check"
    /\ UNCHANGED << flags, stop, locals, chain, loss, file, kernel, restarts, history >>

ReadError ==
    /\ pc = "poll"
    /\ pc' = "error"
    /\ UNCHANGED << flags, stop, locals, chain, loss, file, kernel, restarts, history >>

\* decodeEvent refuses the record, which has left the ring.
ReadMalformed ==
    /\ pc = "poll" /\ Source!Consume
    /\ ring[1].kind \notin KernelKinds
    /\ rejected' = rejected + 1
    /\ pc' = "error"
    /\ UNCHANGED << flags, stop, locals, chain, loss, file, time, restarts, taken, owed, missed >>

\* Mutant: any error of the reader ends the loop.
AfterReadErrorFinalizes ==
    /\ pc = "error"
    /\ pc' = "artifact"
    /\ missed' = IF stop THEN missed ELSE missed + 1
    /\ UNCHANGED << flags, stop, locals, chain, loss, file, kernel, restarts, taken, rejected, owed >>

\* main looks at the context after Read has failed, for whatever reason: a signal
\* that came in between makes any error the end of the loop.
AfterReadError ==
    /\ pc = "error"
    /\ pc' = IF stop THEN "artifact" ELSE "fatal"
    /\ missed' = IF stop THEN missed ELSE missed + 1
    /\ UNCHANGED << flags, stop, locals, chain, loss, file, kernel, restarts, taken, rejected, owed >>

\* What every branch of the switch shares: the record leaves the ring.
TakeRecord(kind) ==
    /\ pc = "poll" /\ Source!Consume
    /\ ring[1].kind = kind
    /\ taken' = taken + 1
    /\ UNCHANGED << flags, stop, loss, time, restarts, rejected, owed, missed >>

Head1 == processFromKernel(ring[1], flags.build.boot_id)
Attributable == Head1.process_key \in DOMAIN processes
ObservedFromRecord == Head1   \* Mutant: the record's own, exec-less process
Observed == processes[Head1.process_key]
TrackedWithoutLimit == TRUE   \* Mutant: the process map is not bounded
Tracked == Attributable \/ Cardinality(DOMAIN processes) < maxTrackedProcesses

CountNothing == decodeLoss' = decodeLoss   \* Mutant: a skipped record is not counted
CountDecodeLoss == decodeLoss' = (decodeLoss + 1) % Wrap

HandleExec ==
    /\ TakeRecord("exec")
    /\ \/ /\ Tracked
          /\ processes' = [ k \in DOMAIN processes \cup { Head1.process_key } |->
                              IF k = Head1.process_key THEN Head1 ELSE processes[k] ]
          /\ decodeLoss' = decodeLoss
       \/ ~Tracked /\ processes' = processes /\ CountDecodeLoss
    /\ writeEvent(Draft("process_exec", ring[1].monotonic_ns, Head1, NoResource), "check")
    /\ UNCHANGED artifactProducer

\* A record of a process without an observed exec is counted, not written.
SkipRecord ==
    /\ CountDecodeLoss
    /\ pc' = "check"
    /\ UNCHANGED << processes, artifactProducer, chain, file >>

\* Mutant: the first opener stays the producer.
FirstProducer ==
    IF ring[1].filename = flags.artifact /\ artifactProducer = Missing
    THEN Observed ELSE artifactProducer

NextProducer ==
    IF ring[1].filename = flags.artifact THEN Observed ELSE artifactProducer

HandleOpen ==
    /\ TakeRecord("open")
    /\ \/ ~Attributable /\ SkipRecord
       \/ /\ Attributable
          /\ writeEvent(Draft("file_open_output", ring[1].monotonic_ns, Observed,
                              [ path |-> ring[1].filename ]), "check")
          /\ artifactProducer' = NextProducer
          /\ UNCHANGED << processes, decodeLoss >>

HandleSensitive ==
    /\ TakeRecord("sensitive")
    /\ \/ ~Attributable /\ SkipRecord
       \/ /\ Attributable
          /\ writeEvent(Draft("file_open_sensitive", ring[1].monotonic_ns, Observed,
                              [ category |-> flags.sensitive_category ]), "check")
          /\ UNCHANGED locals

HandleConnect ==
    /\ TakeRecord("connect4")
    /\ \/ (~Attributable \/ ring[1].destination_port > 65535) /\ SkipRecord
       \/ /\ Attributable /\ ring[1].destination_port <= 65535
          /\ writeEvent(Draft("network_connect", ring[1].monotonic_ns, Observed,
                              [ destination |-> ipv4Destination(ring[1]) ]), "check")
          /\ UNCHANGED locals

-----------------------------------------------------------------------------
(* Finalization                                                            *)

\* Mutant: without a producer the evidence is finalized all the same.
FinalizeArtifactOptional ==
    /\ pc = "artifact"
    /\ \/ /\ artifactProducer # Missing
          /\ \E digest \in ArtifactDigests :
                writeEvent(Draft("artifact_finalized", boottimeNS, artifactProducer,
                                 [ path |-> flags.artifact, sha256 |-> digest ]), "loss")
       \/ pc' = "loss" /\ UNCHANGED << chain, file >>
    /\ UNCHANGED << flags, stop, locals, loss, kernel, restarts, history >>

FinalizeArtifact ==
    /\ pc = "artifact"
    /\ \/ /\ artifactProducer # Missing
          /\ \E digest \in ArtifactDigests :
                writeEvent(Draft("artifact_finalized", boottimeNS, artifactProducer,
                                 [ path |-> flags.artifact, sha256 |-> digest ]), "loss")
       \/ pc' = "fatal" /\ UNCHANGED << chain, file >>   \* no producer, or digestFile failed
    /\ UNCHANGED << flags, stop, locals, loss, kernel, restarts, history >>

\* Loss() reads one map after the other; any failure discards all of them.
ReadCounter ==
    /\ pc = "loss"
    /\ \/ /\ snapshot' = Append(snapshot, drops[LossMaps[Len(snapshot) + 1]])
          /\ counterReadError' = FALSE
       \/ snapshot' = NoLoss /\ counterReadError' = TRUE
    /\ pc' = IF Len(snapshot') = Len(LossMaps) THEN "final" ELSE "loss"
    /\ UNCHANGED << flags, stop, locals, chain, file, kernel, restarts, history >>

FinalResource ==
    [ kernel_reserve         |-> snapshot[1],
      kernel_correlation     |-> snapshot[2],
      kernel_path_read       |-> snapshot[3],
      kernel_map_update      |-> snapshot[4],
      kernel_cgroup_mismatch |-> snapshot[5],
      decode                 |-> decodeLoss,
      queue                  |-> 0,
      persistence            |-> 0,
      counter_read_error     |-> counterReadError ]

WriteFinalized ==
    /\ pc = "final"
    /\ writeEvent(Draft("sensor_finalized", boottimeNS, Missing, FinalResource),
                  IF counterReadError THEN "fatal" ELSE "done")
    /\ UNCHANGED << flags, stop, locals, loss, kernel, restarts, history >>

-----------------------------------------------------------------------------
(* The world around the collector                                          *)

\* SIGINT or SIGTERM: fatal by default until NotifyContext is installed.
Signal ==
    /\ pc \in Running
    /\ \/ /\ pc \in Monitoring
          /\ stop' = TRUE /\ pc' = pc
          /\ missed' = IF stop THEN missed
                      ELSE missed + drops["ringbuf_drops"] + drops["correlation_drops"]
       \/ /\ pc \notin Monitoring
          /\ stop' = stop /\ pc' = "crashed" /\ missed' = missed
    /\ UNCHANGED << flags, locals, chain, loss, file, kernel, restarts, taken, rejected, owed >>

Crash ==
    /\ pc \in Running
    /\ pc' = "crashed"
    /\ UNCHANGED << flags, stop, locals, chain, loss, file, kernel, restarts, history >>

\* Another start on the same output path, perhaps for another build.
Restart ==
    /\ pc \in Ended /\ restarts < MaxRestarts
    /\ restarts' = restarts + 1
    /\ pc' = "flags"
    /\ flags' \in FlagSets
    /\ stop' = FALSE
    /\ processes' = NoResource /\ artifactProducer' = Missing /\ decodeLoss' = 0
    /\ snapshot' = << >> /\ counterReadError' = FALSE
    /\ UNCHANGED << chain, file, kernel, history >>

LossesBounded == Source!CausesCounted + drops["ringbuf_drops"] < MaxDrops

\* The programs are attached from Open on, and the build may outlive the signal.
KernelActive == pc \in Monitoring \/ (EarlyBuild /\ pc \in { "create", "started" })

KernelReserve ==
    /\ KernelActive
    /\ taken + rejected + Len(ring) < MaxRecords
    /\ \/ \E pid \in Threads : Source!Reserve(pid)
       \/ LossesBounded /\ Source!DropFull
    /\ UNCHANGED << pc, flags, stop, locals, chain, loss, file, time, restarts, history >>

\* bpf_ktime_get_ns, which stands still while the host is suspended.
ktime == clock - suspended

\* fill_process takes the time after the slot was reserved.
KernelSubmit ==
    /\ KernelActive
    /\ \E i \in 1..Len(ring), record \in KernelRecords :
          Source!Submit(i, [ record EXCEPT !.monotonic_ns = ktime ])
    /\ owed' = IF stop THEN owed ELSE owed + 1
    /\ UNCHANGED << pc, flags, stop, locals, chain, loss, file, time, restarts, taken, rejected, missed >>

KernelCauseDrop ==
    /\ KernelActive /\ LossesBounded
    /\ \E cause \in Source!Causes : Source!CauseDrop(cause)
    /\ UNCHANGED << pc, flags, stop, locals, chain, loss, file, time, restarts, history >>

\* Mutant: the aggregate is counted before its cause.
KernelCorrelationDropEarly ==
    /\ KernelActive
    /\ drops["correlation_drops"] < MaxDrops
    /\ drops' = [ drops EXCEPT !["correlation_drops"] = @ + 1 ]
    /\ UNCHANGED << pc, flags, stop, locals, chain, loss, file, ring, time, restarts, history >>

KernelCorrelationDrop ==
    /\ KernelActive
    /\ Source!CorrelationDrop
    /\ UNCHANGED << pc, flags, stop, locals, chain, loss, file, time, restarts, history >>

Tick ==
    /\ pc \in Running /\ clock < MaxClock
    /\ clock' = clock + 1
    /\ UNCHANGED << pc, flags, stop, locals, chain, loss, file, ring, drops, suspended, restarts, history >>

\* The host sleeps: boot time goes on, the monotonic clock does not.
Suspend ==
    /\ pc \in Running /\ clock < MaxClock /\ suspended < MaxSuspend
    /\ clock' = clock + 1 /\ suspended' = suspended + 1
    /\ UNCHANGED << pc, flags, stop, locals, chain, loss, file, ring, drops, restarts, history >>

-----------------------------------------------------------------------------
CollectorStep ==
    \/ ParseFlags \/ OpenSensor \/ CreateEvidence \/ WriteStarted
    \/ CheckContext \/ PollDeadline \/ ReadError \/ ReadMalformed \/ AfterReadError
    \/ HandleExec \/ HandleOpen \/ HandleSensitive \/ HandleConnect
    \/ FinalizeArtifact \/ ReadCounter \/ WriteFinalized

Environment ==
    \/ Signal \/ Crash \/ Restart
    \/ KernelReserve \/ KernelSubmit \/ KernelCauseDrop \/ KernelCorrelationDrop
    \/ Tick \/ Suspend

Next == CollectorStep \/ Environment

Spec == Init /\ [][Next]_vars

\* The process is scheduled while it runs; nothing is assumed of the world.
FairSpec == Spec /\ WF_vars(CollectorStep)

-----------------------------------------------------------------------------
(* Properties                                                              *)

\* Every line writeEvent persisted is a valid event, numbered from one, of one
\* build and one sensor, and linked to its predecessor: whatever was written,
\* crashed or started again, the strict parser can object to nothing but a cut
\* line, a reversed time or the size of the stream.
StreamChained == Chained(stream)

\* The process that holds the evidence file is the only one that ever wrote to
\* it: its chain continues exactly where the file ends, and no cut line is
\* followed by another event ("existing evidence is never resumed").
WriterOwnsStream ==
    pc \in Writing =>
        /\ ~torn
        /\ chain.sequence = Len(stream)
        /\ chain.previous = IF stream = << >> THEN zeroHash
                            ELSE stream[Len(stream)].event_hash

Operation(i) == stream[i].operation

\* Events that name a process whose exec must have been seen before.
ActivityOperations == { "file_open_output", "file_open_sensitive", "network_connect" }

\* An open or a connect is attributed to the image its process last executed
\* according to the stream itself, never to an image of an earlier exec and
\* never to a process whose exec was not recorded.
AttributionSound ==
    \A i \in 1..Len(stream) :
        Operation(i) \in ActivityOperations =>
            \E j \in 1..(i-1) :
                /\ Operation(j) = "process_exec"
                /\ stream[j].process = stream[i].process
                /\ \A k \in (j+1)..(i-1) :
                      Operation(k) = "process_exec" =>
                          stream[k].process.process_key # stream[i].process.process_key

\* The producer named by artifact_finalized is the process of the last recorded
\* write-open of the artifact path.
ProducerIsLastOpener ==
    \A i \in 1..Len(stream) :
        Operation(i) = "artifact_finalized" =>
            LET Opens == { j \in 1..(i-1) : /\ Operation(j) = "file_open_output"
                                            /\ stream[j].resource.path = stream[i].resource.path }
            IN  \E j \in Opens : /\ stream[j].process = stream[i].process
                                 /\ \A k \in Opens : k <= j

KernelEvents == Cardinality({ i \in 1..Len(stream) :
                                Operation(i) \in ActivityOperations \cup { "process_exec" } })

EvidenceComplete == stream # << >> /\ ~torn /\ StreamCompleteness(stream) = "complete"

\* Evidence that calls itself complete holds an event for every record the
\* collector decoded; when the collector was stopped no kernel loss had been counted
\* and no error of the reader noticed.  Of the records it took off the ring at most
\* one is not in the evidence: refused by decodeEvent, with the signal arriving
\* before main looked at the error.
CompleteEvidenceIsLossless ==
    EvidenceComplete => taken = KernelEvents /\ rejected <= 1 /\ missed = 0

\* Every correlation loss the final event reports has a reported cause: programs
\* count the cause before the aggregate and Loss() reads the aggregate first, so
\* no drop in between two reads can hide a cause.
CausesCoverCorrelation ==
    \A i \in 1..Len(stream) :
        Operation(i) = "sensor_finalized" =>
            LET final == stream[i].resource
            IN  final.kernel_correlation <=
                    final.kernel_path_read + final.kernel_map_update + final.kernel_cgroup_mismatch

\* No step changes, drops or reorders what is in the evidence file, and nothing
\* is written behind a cut line, whichever process runs.
EvidenceAppendOnly ==
    [][ /\ Len(stream') >= Len(stream)
        /\ SubSeq(stream', 1, Len(stream)) = stream
        /\ torn => torn' /\ stream' = stream ]_vars

\* The evidence file as its readers may think of it.
Log == INSTANCE Ledger WITH
           status  <- IF ~exists THEN "absent"
                      ELSE IF pc \in Writing THEN "open" ELSE "closed",
           entries <- stream,
           damaged <- torn

\* Crashes, failed writes, failed syncs and further starts on the same path are
\* invisible but for the end of the log: the file is created once, has one writer,
\* and every line continues the chain and the lifecycle of the lines before it.
ImplementsLedger == Log!LedgerSpec

\* Of a stream that a collector finished the strict parser can object to its
\* length and to the order of its times, and to nothing else.
FinalizedStreamParses ==
    pc = "done" => ( ParseEventStreamAccepts(stream, torn)
                       <=> Len(stream) <= maxEvents /\ MonotonicOrder(stream) )

LifecycleOperations == { "sensor_started", "artifact_finalized", "sensor_finalized" }

\* While the host is not suspended the collector's own times agree with those of
\* the kernel, so that only two kernel records can be out of order: if the build is
\* released after sensor_started, nothing is stamped before that event or after
\* artifact_finalized.
OnlyKernelRecordsRace ==
    suspended = 0 /\ ~EarlyBuild =>
        \A i, j \in 1..Len(stream) :
            i < j /\ stream[j].monotonic_ns < stream[i].monotonic_ns =>
                { Operation(i), Operation(j) } \cap LifecycleOperations = {}

\* A signalled collector ends, whatever the build and the kernel still do: the
\* context is looked at before every poll of the ring.
SignalEndsCollector == stop ~> pc \in Ended

-----------------------------------------------------------------------------
(* What the documents say and the code does not                            *)

\* README.md, Key Invariants: "Any non-zero or unknown event loss prevents an
\* ALLOW decision": every record submitted before the signal was read and decoded.
NoRecordLeftOut == EvidenceComplete => taken >= owed

\* The stream a collector finalizes is in the order the strict parser demands.
FinalizedStreamInOrder == pc = "done" => MonotonicOrder(stream)

\* docs/event-schema.md: "monotonic_ns comes from kernel boot time for kernel
\* events", so none of them is stamped before the monitor began.
KernelEventsInBootTime ==
    \A i \in 1..Len(stream) : stream[i].monotonic_ns >= stream[1].monotonic_ns

\* A finalized stream projects to an execution graph.
FinalizedStreamHasGraph == pc = "done" => BuildGraphAccepts(stream)
=============================================================================
