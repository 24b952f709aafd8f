------------------------------ MODULE Pipeline ------------------------------
(***************************************************************************)
(* The whole path of a build: kernel records, the collector, its evidence  *)
(* file, the artifact the build keeps writing, and the commands of rpf run *)
(* on these files at any time: before the collector has ended, after it    *)
(* crashed, after the artifact was replaced.                               *)
(*                                                                         *)
(* The collector takes the steps of Collector.  The commands are one step  *)
(* each, on the files as they are (Firewall has their single reads and     *)
(* writes), and digestFile reads the artifact at once.                     *)
(***************************************************************************)
EXTENDS Collector, Verifier

CONSTANTS
    Bytes,     \* what the build writes to the artifact, ArtifactDigests their digests
    Policy     \* the release policy

VARIABLES
    built,       \* content of the artifact file, Missing before the first write
    provenance,  \* the statement create-local-provenance wrote, or Missing
    bundle,      \* the files assemble wrote last, or Missing
    verdict,     \* what verify-fixture decided last, and for which bytes
    hashed,      \* history: the bytes behind artifact_finalized
    forbidden    \* history: a record was decoded that the policy forbids

outputs == << provenance, bundle, verdict >>
pipeline == << vars, built, outputs, hashed, forbidden >>

Inputs ==
    [ artifact |-> built, name |-> "artifact", events |-> [ lines |-> stream, torn |-> torn ],
      provenance |-> provenance, policy |-> Policy ]

\* What the record says, whether or not its process is known.
ForbiddenRecord(record) ==
    CASE record.kind = "exec" -> record.filename \notin Policy.allowed_executables
      [] record.kind = "connect4" ->
             ipv4Destination(record) \notin Policy.allowed_network_destinations
      [] record.kind = "sensitive" ->
             flags.sensitive_category \in Policy.forbidden_sensitive_categories
      [] OTHER -> FALSE

PipelineInit ==
    /\ Init
    /\ built = Missing /\ provenance = Missing /\ bundle = Missing
    /\ verdict = Missing /\ hashed = Missing /\ forbidden = FALSE

-----------------------------------------------------------------------------
\* digestFile hashes what the file holds now, and fails without one.
DigestsBuilt ==
    \A i \in (Len(stream) + 1)..Len(stream') :
        stream'[i].operation = "artifact_finalized" =>
            stream'[i].resource.sha256 = Digest(built)

CollectorOrKernel ==
    /\ Next /\ DigestsBuilt
    /\ hashed' = IF pc = "artifact" /\ pc' = "loss" THEN built ELSE hashed
    /\ forbidden' = (forbidden \/ (taken' > taken /\ ForbiddenRecord(ring[1])))
    /\ UNCHANGED << built, outputs >>

\* The build rewrites its output at any time, also after the collector hashed it.
BuildWrites ==
    /\ built' \in Bytes \ {built}
    /\ UNCHANGED << vars, outputs, hashed, forbidden >>

RecordProvenance ==
    /\ provenance = Missing
    /\ ParseEventStreamAccepts(stream, torn)
    /\ CreateLocalFixtureProvenanceAccepts("artifact", built, stream, flags.build.source)
    /\ provenance' = CreateLocalFixtureProvenance("artifact", built, stream, flags.build.source)
    /\ UNCHANGED << vars, built, bundle, verdict, hashed, forbidden >>

AssembleBundle ==
    /\ Missing \notin { provenance, built }
    /\ AssembleAccepts(Inputs)
    /\ bundle' = Assemble(Inputs)
    /\ UNCHANGED << vars, built, provenance, verdict, hashed, forbidden >>

VerifyFixture ==
    /\ Missing \notin { provenance, bundle, built }
    /\ verdict' = [ decision |-> Verify(Inputs, bundle).decision, artifact |-> built ]
    /\ UNCHANGED << vars, built, provenance, bundle, hashed, forbidden >>

PipelineNext ==
    \/ CollectorOrKernel
    \/ BuildWrites \/ RecordProvenance \/ AssembleBundle \/ VerifyFixture

PipelineSpec == PipelineInit /\ [][PipelineNext]_pipeline

-----------------------------------------------------------------------------
(* Properties                                                              *)

Allowed == verdict # Missing /\ verdict.decision = "ALLOW"

\* An artifact is released only on evidence that its own collector finished: the
\* bytes are those that were hashed, every decoded record is in the evidence, and
\* no loss had been noticed when the collector was stopped; of the records read at
\* most one was refused, at the very signal, whenever the build wrote, the collector
\* died and the commands were run.
ReleaseIsWitnessed ==
    Allowed =>
        /\ verdict.artifact = hashed
        /\ ~torn /\ taken = KernelEvents /\ rejected <= 1 /\ missed = 0

\* A decoded record of a forbidden image, destination or category keeps the
\* artifact from being released, also when its process was never seen to execute
\* and no event could be written for it.
ForbiddenNeverAllowed == Allowed => ~forbidden
=============================================================================
