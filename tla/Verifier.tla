------------------------------ MODULE Verifier ------------------------------
(***************************************************************************)
(* Assemble and Verify of internal/rpf/verify.go as functions of their     *)
(* inputs, and CreateLocalFixtureProvenance of local_provenance.go.        *)
(*                                                                         *)
(* A document is what the strict decoder makes of it: decodes says whether *)
(* decodeStrict accepts it, and a JSON object with an optional member is a *)
(* record in which that member may be Missing.  Lists that the code only   *)
(* searches are sets.  An error of Assemble or Verify is the ERROR outcome *)
(* (exit status 4 of the command); its wording is left out.                *)
(***************************************************************************)
EXTENDS Evidence

CONSTANT maxValues   \* JSON values decodeStrict accepts in one document

ASSUME MaxValuesAssumption == maxValues \in Nat

(***************************************************************************)
(* inputs     = [ artifact, name, events, provenance, policy ]             *)
(* events     = [ lines, torn ]                                            *)
(* provenance = [ decodes, predicate_type, subject, identity, external,    *)
(*                resolved, build_type, run_details ]                      *)
(* policy     = the fields of model.go and decodes                         *)
(***************************************************************************)

-----------------------------------------------------------------------------
(* Decoding                                                                *)

SLSAPredicate == "https://slsa.dev/provenance/v1"

decodeStatement(statement) == statement.decodes /\ statement.subject # {}

decodePolicy(policy) ==
    /\ policy.decodes
    /\ policy.schema_version = "0.1"
    /\ policy.incomplete_decision \in { "REVIEW", "REJECT" }
    /\ policy.expected_provider # Missing
    /\ policy.allowed_builder_ids # {}
    /\ policy.allowed_artifact_producers # {}
    /\ policy.allowed_repositories # {}

\* resource[key].(string), with "" for an absent member.
Member(resource, key) == IF key \in DOMAIN resource THEN resource[key] ELSE Missing

resolvedSourceMatches(dependencies, source) ==
    \E d \in dependencies : d.uri = source.repository /\ d.git_commit = source.revision

\* The identity extension, and the standard SLSA members that must repeat it.
provenanceIdentity(statement) ==
    LET identity == statement.identity
        details  == statement.run_details
    IN  /\ identity # Missing
        /\ identity.build_id # Missing
        /\ identity.builder_id # Missing
        /\ identity.run_identity.run_id # Missing
        /\ identity.source.revision # Missing
        /\ statement.build_type # Missing
        /\ statement.external # Missing
        /\ statement.resolved # Missing
        /\ details # Missing
        /\ statement.external = identity.source
        /\ resolvedSourceMatches(statement.resolved, identity.source)
        /\ details.builder = identity.builder_id
        /\ details.invocation_id = identity.run_identity.run_id
        /\ Missing \notin { details.started_on, details.finished_on }

-----------------------------------------------------------------------------
(* Assemble                                                                *)

\* Positions of the events of one operation.
Of(events, operation) == { i \in 1..Len(events) : events[i].operation = operation }

Finalizations(events) == Of(events, "artifact_finalized")

\* Mutant: the hash is looked up and not compared.
verifyArtifactObservationAnyHash(events, artifactHash) ==
    \E i \in Finalizations(events) : events[i].process # Missing

\* Only the first finalization is compared with the artifact.
verifyArtifactObservation(events, artifactHash) ==
    \E i \in Finalizations(events) :
        /\ \A j \in Finalizations(events) : i <= j
        /\ Member(events[i].resource, "sha256") = artifactHash
        /\ events[i].process # Missing

subjectMatches(subject, name, digest) == \E s \in subject : s.name = name /\ s.sha256 = digest

\* Mutant: the source of the provenance is not compared with the events.
SameBuildAnySource(identity, build) ==
    /\ identity.build_id = build.build_id
    /\ identity.run_identity.run_id = build.run_id

SameBuild(identity, build) ==
    /\ identity.build_id = build.build_id
    /\ identity.run_identity.run_id = build.run_id
    /\ identity.source = build.source

Decoded(inputs) ==
    /\ ParseEventStreamAccepts(inputs.events.lines, inputs.events.torn)
    /\ decodePolicy(inputs.policy)
    /\ decodeStatement(inputs.provenance)
    /\ provenanceIdentity(inputs.provenance)

\* No early return of Assemble is taken.
AssembleAccepts(inputs) ==
    LET events == inputs.events.lines
    IN  /\ Decoded(inputs)
        /\ inputs.provenance.predicate_type = SLSAPredicate
        /\ SameBuild(inputs.provenance.identity, events[1].build)
        /\ subjectMatches(inputs.provenance.subject, inputs.name, Digest(inputs.artifact))
        /\ verifyArtifactObservation(events, Digest(inputs.artifact))
        /\ BuildGraphAccepts(events)

ManifestOf(inputs) ==
    LET events == inputs.events.lines
        last == events[Len(events)]
    IN  [ build_id     |-> inputs.provenance.identity.build_id,
          run_identity |-> inputs.provenance.identity.run_identity,
          source       |-> inputs.provenance.identity.source,
          event_stream |-> [ sha256 |-> Digest(inputs.events),
                             first_sequence |-> events[1].sequence,
                             last_sequence |-> last.sequence,
                             event_count |-> Len(events) ],
          loss         |-> lossFromFinalEvent(last),
          lifecycle    |-> [ started |-> events[1].operation = "sensor_started",
                             finalized |-> last.operation = "sensor_finalized" ],
          execution_graph_sha256 |-> Digest(BuildGraph(events)),
          artifact     |-> [ name |-> inputs.name, sha256 |-> Digest(inputs.artifact) ],
          policy_sha256 |-> Digest(inputs.policy),
          sensor_config_sha256 |-> events[1].sensor ]

ManifestCompleteness(manifest) ==
    completeness(manifest.lifecycle.started, manifest.lifecycle.finalized, manifest.loss)

RuntimeTraceOf(inputs, manifest) ==
    LET events == inputs.events.lines
    IN  [ subject     |-> { manifest.artifact },
          host        |-> events[1].build.boot_id,
          process     |-> BuildGraph(events).nodes,
          correlation |->
            [ build_id     |-> manifest.build_id,
              run_identity |-> manifest.run_identity,
              source       |-> manifest.source,
              evidence_manifest |-> Digest(manifest),
              execution_graph |-> manifest.execution_graph_sha256,
              slsa_provenance |-> Digest(inputs.provenance),
              policy       |-> manifest.policy_sha256,
              completeness |-> ManifestCompleteness(manifest) ] ]

Assemble(inputs) ==
    [ graph    |-> BuildGraph(inputs.events.lines),
      manifest |-> ManifestOf(inputs),
      trace    |-> RuntimeTraceOf(inputs, ManifestOf(inputs)) ]

-----------------------------------------------------------------------------
(* walkJSON on the three files of a bundle: one for every object, array    *)
(* and scalar.  A node has its four or five members, an edge four and the  *)
(* copy of the event's resource; the trace repeats the nodes of the graph. *)

NodeValues(nodes) ==
    4 * Cardinality(nodes) + Cardinality({ n \in nodes : n.process.parent_key # Missing })

EdgeValues(graph) ==
    LET evidenced == { e \in graph.edges : DOMAIN e.evidence # {} }
    IN  5 * Cardinality(graph.exec_edges) + 5 * Cardinality(graph.edges)
        + Cardinality(evidenced)
        + Cardinality(UNION { {e.sequence} \X DOMAIN e.evidence : e \in evidenced })

walkJSON(graph) ==
    [ graph    |-> 5 + NodeValues(graph.nodes) + EdgeValues(graph),
      manifest |-> 31,
      trace    |-> 32 + NodeValues(graph.nodes) ]

-----------------------------------------------------------------------------
(* Verify                                                                  *)

Reason(code, effect, sequence) == [ code |-> code, effect |-> effect, sequence |-> sequence ]

Rejects(code, condition) == IF condition THEN { Reason(code, "REJECT", 0) } ELSE {}

\* A reason for each of the events at fault.
Faults(events, at, code, effect) == { Reason(code, effect, events[i].sequence) : i \in at }

behaviorReasons(events, policy) ==
    LET Undeclared == { i \in Of(events, "process_exec") :
                        events[i].process.executable \notin policy.allowed_executables }
        Egress == { i \in Of(events, "network_connect") :
                    Member(events[i].resource, "destination")
                        \notin policy.allowed_network_destinations \ {Missing} }
        Sensitive == { i \in Of(events, "file_open_sensitive") :
                       Member(events[i].resource, "category")
                           \in policy.forbidden_sensitive_categories \cup {Missing} }
        Unauthorized == { i \in Of(events, "artifact_finalized") :
                          IF events[i].process = Missing THEN TRUE
                          ELSE events[i].process.executable
                                   \notin policy.allowed_artifact_producers }
    IN  UNION { Faults(events, Undeclared, "RPF-PROCESS-001", "REVIEW"),
                Faults(events, Egress, "RPF-EGRESS-001", "REJECT"),
                Faults(events, Sensitive, "RPF-SENSITIVE-001", "REJECT"),
                Faults(events, Unauthorized, "RPF-ARTIFACT-PRODUCER-001", "REJECT") }

\* Mutant: the runtime trace is not compared with the recomputed one.
integrityReasonsWithoutTrace(bundle, recomputed) ==
    Rejects("RPF-INTEGRITY-001", bundle.graph # recomputed.graph)
    \cup Rejects("RPF-INTEGRITY-002", bundle.manifest # recomputed.manifest)

integrityReasons(bundle, recomputed) ==
    Rejects("RPF-INTEGRITY-001", bundle.graph # recomputed.graph)
    \cup Rejects("RPF-INTEGRITY-002", bundle.manifest # recomputed.manifest)
    \cup Rejects("RPF-INTEGRITY-003", bundle.trace # recomputed.trace)

identityReasons(identity, manifest, policy) ==
    Rejects("RPF-IDENTITY-001", \/ identity.build_id # manifest.build_id
                                \/ identity.run_identity # manifest.run_identity)
    \cup Rejects("RPF-CI-001", identity.run_identity.provider # policy.expected_provider)
    \cup Rejects("RPF-BUILDER-001", identity.builder_id \notin policy.allowed_builder_ids)
    \cup Rejects("RPF-SOURCE-001", identity.source.repository \notin policy.allowed_repositories)

evidenceReasons(manifest, policy) ==
    IF ManifestCompleteness(manifest) # "complete"
    THEN { Reason("RPF-EVIDENCE-001", policy.incomplete_decision, 0) }
    ELSE {}

\* REJECT > REVIEW > ALLOW.
DecisionOf(reasons) ==
    LET effects == { r.effect : r \in reasons }
    IN  CASE "REJECT" \in effects -> "REJECT"
          [] "REJECT" \notin effects /\ "REVIEW" \in effects -> "REVIEW"
          [] OTHER -> "ALLOW"

Outcome(decision, state, reasons) ==
    [ decision |-> decision, completeness |-> state, reasons |-> reasons ]

VerifyError == Outcome("ERROR", Missing, {})

\* Decoding, then the artifact digest, then Assemble, then the comparisons.
Verify(inputs, bundle) ==
    LET substituted == bundle.manifest.artifact.sha256 # Digest(inputs.artifact)
        state       == ManifestCompleteness(bundle.manifest)
        reasons     ==
            UNION { integrityReasons(bundle, Assemble(inputs)),
                    identityReasons(inputs.provenance.identity, bundle.manifest, inputs.policy),
                    evidenceReasons(bundle.manifest, inputs.policy),
                    behaviorReasons(inputs.events.lines, inputs.policy) }
    IN  CASE ~Decoded(inputs) -> VerifyError
          [] Decoded(inputs) /\ substituted ->
                 Outcome("REJECT", state, { Reason("RPF-ARTIFACT-001", "REJECT", 0) })
          [] Decoded(inputs) /\ ~substituted /\ ~AssembleAccepts(inputs) -> VerifyError
          [] OTHER -> Outcome(DecisionOf(reasons), state, reasons)

-----------------------------------------------------------------------------
(* The unsigned local provenance profile                                   *)

LocalBuilderID == "builders/local-fixture/v0.1"

CreateLocalFixtureProvenanceAccepts(name, artifact, events, source) ==
    /\ Missing \notin { name, artifact, source.repository, source.revision }
    /\ events # << >>
    /\ verifyArtifactObservation(events, Digest(artifact))
    /\ events[1].build.source = source

CreateLocalFixtureProvenance(name, artifact, events, source) ==
    [ decodes        |-> TRUE,
      predicate_type |-> SLSAPredicate,
      subject        |-> { [ name |-> name, sha256 |-> Digest(artifact) ] },
      identity       |-> [ build_id |-> events[1].build.build_id,
                           builder_id |-> LocalBuilderID,
                           run_identity |-> [ provider |-> "local",
                                              run_id |-> events[1].build.run_id ],
                           source |-> source ],
      external       |-> source,
      resolved       |-> { [ uri |-> source.repository, git_commit |-> source.revision ] },
      build_type     |-> "local-fixture",
      run_details    |-> [ builder |-> LocalBuilderID,
                           invocation_id |-> events[1].build.run_id,
                           started_on |-> "start", finished_on |-> "finish" ] ]

-----------------------------------------------------------------------------
(* What an ALLOW has to mean, read off the key invariants of README.md and *)
(* stated on the raw inputs, without the manifest, trace or reasons.       *)

LossReport(events) == events[Len(events)].resource

Lossless(events) ==
    /\ events[1].operation = "sensor_started"
    /\ events[Len(events)].operation = "sensor_finalized"
    /\ LossFields \cup { "counter_read_error" } \subseteq DOMAIN LossReport(events)
    /\ \A f \in LossFields : LossReport(events)[f] = 0
    /\ ~LossReport(events).counter_read_error

BehaviourPermitted(events, policy) ==
    LET images       == { events[i].process.executable : i \in Of(events, "process_exec") }
        destinations == { Member(events[i].resource, "destination") :
                          i \in Of(events, "network_connect") }
        categories   == { Member(events[i].resource, "category") :
                          i \in Of(events, "file_open_sensitive") }
        producers    == { events[i].process : i \in Of(events, "artifact_finalized") }
    IN  /\ images \subseteq policy.allowed_executables
        /\ destinations \subseteq policy.allowed_network_destinations \ {Missing}
        /\ categories \cap (policy.forbidden_sensitive_categories \cup {Missing}) = {}
        /\ Missing \notin producers
        /\ { p.executable : p \in producers } \subseteq policy.allowed_artifact_producers

\* The first finalized artifact, the subject of the provenance and the file are
\* the same bytes.
ArtifactCommitted(inputs) ==
    /\ \E i \in 1..Len(inputs.events.lines) :
          /\ inputs.events.lines[i].operation = "artifact_finalized"
          /\ \A j \in 1..(i-1) : inputs.events.lines[j].operation # "artifact_finalized"
          /\ Member(inputs.events.lines[i].resource, "sha256") = Digest(inputs.artifact)
    /\ \E s \in inputs.provenance.subject :
          s.name = inputs.name /\ s.sha256 = Digest(inputs.artifact)

\* Events, build identity and the standard members of the provenance name one
\* build, run and source, which the policy trusts.
OneTrustedIdentity(inputs) ==
    LET identity == inputs.provenance.identity
    IN  /\ \A i \in 1..Len(inputs.events.lines) :
              /\ inputs.events.lines[i].build.build_id = identity.build_id
              /\ inputs.events.lines[i].build.run_id = identity.run_identity.run_id
              /\ inputs.events.lines[i].build.source = identity.source
        /\ inputs.provenance.external = identity.source
        /\ inputs.provenance.run_details.builder = identity.builder_id
        /\ inputs.provenance.run_details.invocation_id = identity.run_identity.run_id
        /\ identity.builder_id \in inputs.policy.allowed_builder_ids
        /\ identity.run_identity.provider = inputs.policy.expected_provider
        /\ identity.source.repository \in inputs.policy.allowed_repositories

Admissible(inputs) ==
    /\ Decoded(inputs)
    /\ inputs.provenance.predicate_type = SLSAPredicate
    /\ Lossless(inputs.events.lines)
    /\ BuildGraphAccepts(inputs.events.lines)
    /\ ArtifactCommitted(inputs)
    /\ OneTrustedIdentity(inputs)
    /\ BehaviourPermitted(inputs.events.lines, inputs.policy)
=============================================================================
