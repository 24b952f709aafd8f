------------------------------ MODULE Evidence ------------------------------
(***************************************************************************)
(* The canonical event stream of the runtime provenance firewall: what an  *)
(* event is, how EventChain.Append seals it, what the strict parser        *)
(* accepts, which execution graph the events project to and what the final *)
(* record says about loss (internal/rpf: model.go, chain.go, evidence.go   *)
(* and the loss helpers of verify.go).                                     *)
(*                                                                         *)
(* Abstractions.  A document is the sequence of its lines; a line is the   *)
(* event it encodes, because canonical() is injective and ParseEventStream *)
(* rejects every other encoding of the same event (evidence.go:37).        *)
(* SHA-256 is collision free: the digest of an event is the sequence of    *)
(* all event bodies up to and including it.  Fields no code branches on    *)
(* (observed_at, outcome, uid, gid, pid, comm) and event_id, which Append  *)
(* computes from the build and the sequence number, are left out.          *)
(***************************************************************************)
EXTENDS Integers, Sequences, FiniteSets

CONSTANTS
    Missing,     \* the empty string, the zero id and the nil pointer of Go
    Wrap,        \* 2^64, the modulus of uint64 addition
    maxEvents    \* events accepted in one stream, model.go

ASSUME WrapAssumption == Wrap \in Nat /\ Wrap > 1
ASSUME MaxEventsAssumption == maxEvents \in Nat

-----------------------------------------------------------------------------
(* Events                                                                  *)

allowedOperations ==
    { "sensor_started", "process_exec", "process_exit", "file_open_sensitive",
      "file_open_output", "file_rename_output", "network_connect",
      "privilege_change", "artifact_finalized", "sensor_finalized" }

\* SHA-256 of anything but an event, without collisions.
Digest(data) == << "sha256", data >>

zeroHash == << >>

BuildComplete(build) ==
    /\ build.build_id # Missing
    /\ build.run_id # Missing
    /\ build.boot_id # Missing
    /\ build.cgroup_id # Missing
    /\ build.cgroup_path_hash # Missing

SourceComplete(source) ==
    /\ source.repository # Missing
    /\ source.revision # Missing

\* TGID, start time and PID namespace are zero exactly when ProcessKey is "".
\* The identity kind is always "path_only", which needs no further identity.
ProcessComplete(process) ==
    /\ process.process_key # Missing
    /\ process.mount_namespace # Missing
    /\ process.executable # Missing

validateEvent(event) ==
    /\ BuildComplete(event.build)
    /\ SourceComplete(event.build.source)
    /\ event.sequence > 0
    /\ event.monotonic_ns > 0
    /\ event.operation \in allowedOperations
    /\ event.sensor # Missing
    /\ event.operation = "process_exec" => event.process # Missing
    /\ event.process # Missing => ProcessComplete(event.process)

Body(event) ==
    [ sequence     |-> event.sequence,
      monotonic_ns |-> event.monotonic_ns,
      build        |-> event.build,
      sensor       |-> event.sensor,
      process      |-> event.process,
      operation    |-> event.operation,
      resource     |-> event.resource ]

eventDigest(event) == Append(event.previous_event_hash, Body(event))

\* sha256 over boot ID, PID namespace, TGID and start time; "" when one is 0.
ProcessKey(bootID, pidNamespace, tgid, startTime) ==
    IF bootID = Missing \/ 0 \in {pidNamespace, tgid, startTime}
    THEN Missing
    ELSE << bootID, pidNamespace, tgid, startTime >>

-----------------------------------------------------------------------------
(* EventChain: the collector's side of the stream                          *)

NewEventChainAccepts(build, source) == BuildComplete(build) /\ source # Missing

NewEventChain == [ sequence |-> 0, previous |-> zeroHash ]

\* A draft carries what the caller of Append may supply; the chain adds the rest.
WithHash(chain, build, source, draft, hash) ==
    [ sequence            |-> chain.sequence + 1,
      monotonic_ns        |-> draft.monotonic_ns,
      build               |-> build,
      sensor              |-> source,
      process             |-> draft.process,
      operation           |-> draft.operation,
      resource            |-> draft.resource,
      previous_event_hash |-> chain.previous,
      event_hash          |-> hash ]

ChainEvent(chain, build, source, draft) ==
    WithHash(chain, build, source, draft,
             eventDigest(WithHash(chain, build, source, draft, Missing)))

\* Mutant: the hash of the sealed event is not remembered.
ChainAppendUnlinked(chain, event) ==
    IF validateEvent(event) THEN [ chain EXCEPT !.sequence = event.sequence ] ELSE chain

\* Append leaves the chain as it was when the sealed event does not validate.
ChainAppend(chain, event) ==
    IF validateEvent(event)
    THEN [ sequence |-> event.sequence, previous |-> event.event_hash ]
    ELSE chain

-----------------------------------------------------------------------------
(* The strict parser                                                       *)

SequenceContiguous(events) ==
    \A i \in 1..Len(events) : events[i].sequence = i

ScopeConstant(events) ==
    \A i \in 1..Len(events) :
        /\ events[i].build = events[1].build
        /\ events[i].sensor = events[1].sensor

MonotonicOrder(events) ==
    \A i \in 2..Len(events) : events[i-1].monotonic_ns <= events[i].monotonic_ns

HashLinked(events) ==
    \A i \in 1..Len(events) :
        /\ events[i].previous_event_hash =
               IF i = 1 THEN zeroHash ELSE events[i-1].event_hash
        /\ events[i].event_hash = eventDigest(events[i])

\* All that sealing an event settles; only the clock can still disagree.
Chained(events) ==
    /\ \A i \in 1..Len(events) : validateEvent(events[i])
    /\ SequenceContiguous(events)
    /\ ScopeConstant(events)
    /\ HashLinked(events)

verifyChain(events) ==
    /\ SequenceContiguous(events)
    /\ ScopeConstant(events)
    /\ MonotonicOrder(events)
    /\ HashLinked(events)

\* A document is its lines and whether a last, cut line follows them.
ParseEventStreamAccepts(lines, torn) ==
    /\ ~torn
    /\ Len(lines) \in 1..maxEvents
    /\ \A i \in 1..Len(lines) : validateEvent(lines[i])
    /\ verifyChain(lines)

-----------------------------------------------------------------------------
(* The execution graph                                                     *)

EventsWithProcess(events) ==
    { i \in 1..Len(events) : events[i].process # Missing }

NodeOf(process) ==
    [ process_key |-> process.process_key,
      parent_key  |-> process.parent_key,
      executable  |-> process.executable ]

GraphProcesses(events) ==
    { NodeOf(events[i].process) : i \in EventsWithProcess(events) }

\* "process key has conflicting identity", evidence.go:162.
BuildGraphAccepts(events) ==
    /\ Len(events) > 0
    /\ \A n \in GraphProcesses(events) : Missing \notin {n.process_key, n.executable}
    /\ \A m, n \in GraphProcesses(events) :
           m.process_key = n.process_key => m = n

ObservedKeys(events) ==
    { n.process_key : n \in GraphProcesses(events) }

resourceIdentity(event) ==
    CASE "category" \in DOMAIN event.resource -> << "category", event.resource.category >>
      [] "destination" \in DOMAIN event.resource -> << "network", event.resource.destination >>
      [] OTHER -> << "resource", event.resource >>

GraphNodes(events) ==
    { [ process |-> n,
        parent_observation |->
            CASE n.parent_key = Missing -> "none"
              [] n.parent_key # Missing /\ n.parent_key \in ObservedKeys(events) -> "observed"
              [] OTHER -> "unobserved" ] : n \in GraphProcesses(events) }

ResourceOperations ==
    { "file_open_sensitive", "file_open_output", "file_rename_output",
      "network_connect", "artifact_finalized" }

ExecEdges(events) ==
    { [ sequence |-> events[i].sequence,
        from     |-> events[i].process.parent_key,
        to       |-> events[i].process.process_key,
        kind     |-> IF events[i].process.parent_key \in ObservedKeys(events)
                     THEN "observed_exec_parent" ELSE "unobserved_exec_parent" ] :
      i \in { j \in EventsWithProcess(events) :
                 /\ events[j].operation = "process_exec"
                 /\ events[j].process.parent_key # Missing } }

ResourceEdges(events) ==
    { [ sequence |-> events[i].sequence,
        from     |-> events[i].process.process_key,
        to       |-> resourceIdentity(events[i]),
        kind     |-> events[i].operation,
        evidence |-> events[i].resource ] :
      i \in { j \in EventsWithProcess(events) : events[j].operation \in ResourceOperations } }

\* Nodes and edges are sorted before they are hashed, so the graph is a set.
BuildGraph(events) ==
    [ build_id   |-> events[1].build.build_id,
      nodes      |-> GraphNodes(events),
      exec_edges |-> ExecEdges(events),
      edges      |-> ResourceEdges(events) ]

-----------------------------------------------------------------------------
(* Loss and completeness                                                   *)

LossFields == { "kernel_reserve", "kernel_correlation", "decode", "queue", "persistence" }

\* A value that is not an integer of 0 .. 2^63-1 counts as one loss.
uintResource(resource, key) ==
    IF key \in DOMAIN resource /\ resource[key] \in 0 .. (Wrap \div 2 - 1)
    THEN resource[key]
    ELSE 1

boolResource(resource, key) ==
    IF key \in DOMAIN resource THEN resource[key] ELSE TRUE

lossFromFinalEvent(event) ==
    IF event.operation # "sensor_finalized"
    THEN [ counters |-> [ f \in LossFields |-> 0 ], counter_read_error |-> TRUE ]
    ELSE [ counters |-> [ f \in LossFields |-> uintResource(event.resource, f) ],
           counter_read_error |-> boolResource(event.resource, "counter_read_error") ]

LossSum(counters) ==
    ( counters["kernel_reserve"] + counters["kernel_correlation"] + counters["decode"]
      + counters["queue"] + counters["persistence"] ) % Wrap

\* Mutant: >= for >.
completenessOffByOne(started, finalized, loss) ==
    CASE ~started \/ ~finalized \/ loss.counter_read_error -> "unknown"
      [] started /\ finalized /\ ~loss.counter_read_error /\ LossSum(loss.counters) >= 0 -> "incomplete"
      [] OTHER -> "complete"

completeness(started, finalized, loss) ==
    CASE ~started \/ ~finalized \/ loss.counter_read_error -> "unknown"
      [] started /\ finalized /\ ~loss.counter_read_error /\ LossSum(loss.counters) > 0 -> "incomplete"
      [] OTHER -> "complete"

\* What Assemble commits as the completeness of a parsed stream.
StreamCompleteness(events) ==
    completeness(events[1].operation = "sensor_started",
                 events[Len(events)].operation = "sensor_finalized",
                 lossFromFinalEvent(events[Len(events)]))
=============================================================================
