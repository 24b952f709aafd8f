--------------------------- MODULE VerifierProofs ---------------------------
(***************************************************************************)
(* What the decision of Verify means, for all inputs and all bundles:      *)
(* ALLOW is given exactly to admissible inputs, and the bundle that was    *)
(* read is the one Assemble makes of them.                                 *)
(***************************************************************************)
EXTENDS Verifier, TLAPS

-----------------------------------------------------------------------------
(* Reasons                                                                 *)

\* A decision is ALLOW when no reason asks for a review or a rejection.
Harmless(reasons) == \A r \in reasons : r.effect \notin { "REJECT", "REVIEW" }

\* REJECT and REVIEW win over ALLOW.
LEMMA AllowIsHarmless ==
    ASSUME NEW reasons
    PROVE  DecisionOf(reasons) = "ALLOW" <=> Harmless(reasons)
  BY DEF DecisionOf, Harmless

\* Reasons are harmless together when they are one by one.
LEMMA HarmlessUnion ==
    ASSUME NEW R, NEW S
    PROVE  Harmless(R \cup S) <=> Harmless(R) /\ Harmless(S)
  BY DEF Harmless

\* Every file of the bundle is compared with the recomputed one.
LEMMA IntegrityFacts ==
    ASSUME NEW bundle, NEW recomputed
    PROVE  Harmless(integrityReasons(bundle, recomputed))
             <=> /\ bundle.graph = recomputed.graph
                 /\ bundle.manifest = recomputed.manifest
                 /\ bundle.trace = recomputed.trace
  <1> DEFINE graph == Rejects("RPF-INTEGRITY-001", bundle.graph # recomputed.graph)
             manifest == Rejects("RPF-INTEGRITY-002", bundle.manifest # recomputed.manifest)
             trace == Rejects("RPF-INTEGRITY-003", bundle.trace # recomputed.trace)
  <1>1. Harmless(graph) <=> bundle.graph = recomputed.graph
    BY DEF Harmless, Rejects, Reason
  <1>2. Harmless(manifest) <=> bundle.manifest = recomputed.manifest
    BY DEF Harmless, Rejects, Reason
  <1>3. Harmless(trace) <=> bundle.trace = recomputed.trace
    BY DEF Harmless, Rejects, Reason
  <1>4. integrityReasons(bundle, recomputed) = (graph \cup manifest) \cup trace
    BY DEF integrityReasons
  <1> HIDE DEF graph, manifest, trace
  <1> QED
    BY <1>1, <1>2, <1>3, <1>4, HarmlessUnion

\* What the policy asks of the identity, and the manifest has to repeat.
LEMMA IdentityFacts ==
    ASSUME NEW identity, NEW manifest, NEW policy
    PROVE  Harmless(identityReasons(identity, manifest, policy))
             <=> /\ identity.build_id = manifest.build_id
                 /\ identity.run_identity = manifest.run_identity
                 /\ identity.run_identity.provider = policy.expected_provider
                 /\ identity.builder_id \in policy.allowed_builder_ids
                 /\ identity.source.repository \in policy.allowed_repositories
  <1> DEFINE build == Rejects("RPF-IDENTITY-001", \/ identity.build_id # manifest.build_id
                                                  \/ identity.run_identity # manifest.run_identity)
             ci == Rejects("RPF-CI-001", identity.run_identity.provider # policy.expected_provider)
             builder == Rejects("RPF-BUILDER-001",
                                identity.builder_id \notin policy.allowed_builder_ids)
             source == Rejects("RPF-SOURCE-001",
                               identity.source.repository \notin policy.allowed_repositories)
  <1>1. Harmless(build) <=> /\ identity.build_id = manifest.build_id
                            /\ identity.run_identity = manifest.run_identity
    BY DEF Harmless, Rejects, Reason
  <1>2. Harmless(ci) <=> identity.run_identity.provider = policy.expected_provider
    BY DEF Harmless, Rejects, Reason
  <1>3. Harmless(builder) <=> identity.builder_id \in policy.allowed_builder_ids
    BY DEF Harmless, Rejects, Reason
  <1>4. Harmless(source) <=> identity.source.repository \in policy.allowed_repositories
    BY DEF Harmless, Rejects, Reason
  <1>5. identityReasons(identity, manifest, policy) = ((build \cup ci) \cup builder) \cup source
    BY DEF identityReasons
  <1> HIDE DEF build, ci, builder, source
  <1>6. Harmless(((build \cup ci) \cup builder) \cup source)
          <=> Harmless(build) /\ Harmless(ci) /\ Harmless(builder) /\ Harmless(source)
    BY DEF Harmless
  <1> QED
    BY <1>1, <1>2, <1>3, <1>4, <1>5, <1>6

\* Evidence that is not complete has a reason that no policy can make harmless.
LEMMA EvidenceFacts ==
    ASSUME NEW manifest, NEW policy, decodePolicy(policy)
    PROVE  Harmless(evidenceReasons(manifest, policy))
             <=> ManifestCompleteness(manifest) = "complete"
  BY DEF Harmless, evidenceReasons, Reason, decodePolicy

\* One reason for every event at fault.
LEMMA FaultFacts ==
    ASSUME NEW J, NEW events, NEW code, NEW effect \in { "REJECT", "REVIEW" }
    PROVE  Harmless(Faults(events, J, code, effect)) <=> J = {}
  <1>1. ASSUME NEW i \in J PROVE ~Harmless({ Reason(code, effect, events[j].sequence) : j \in J })
    <2> DEFINE r == Reason(code, effect, events[i].sequence)
    <2>1. r \in { Reason(code, effect, events[j].sequence) : j \in J }
      OBVIOUS
    <2>2. r.effect = effect
      BY DEF Reason
    <2> QED
      BY <2>1, <2>2 DEF Harmless
  <1> QED
    BY <1>1 DEF Harmless, Faults

\* The behaviour of the build is harmless when the policy permits it.
LEMMA BehaviourFacts ==
    ASSUME NEW events, NEW policy
    PROVE  Harmless(behaviorReasons(events, policy)) <=> BehaviourPermitted(events, policy)
  <1> DEFINE
        undeclared == { i \in Of(events, "process_exec") :
                        events[i].process.executable \notin policy.allowed_executables }
        egress == { i \in Of(events, "network_connect") :
                    Member(events[i].resource, "destination")
                        \notin policy.allowed_network_destinations \ {Missing} }
        sensitive == { i \in Of(events, "file_open_sensitive") :
                       Member(events[i].resource, "category")
                           \in policy.forbidden_sensitive_categories \cup {Missing} }
        unauthorized == { i \in Of(events, "artifact_finalized") :
                          IF events[i].process = Missing THEN TRUE
                          ELSE events[i].process.executable
                                   \notin policy.allowed_artifact_producers }
        exec    == Faults(events, undeclared, "RPF-PROCESS-001", "REVIEW")
        connect == Faults(events, egress, "RPF-EGRESS-001", "REJECT")
        read    == Faults(events, sensitive, "RPF-SENSITIVE-001", "REJECT")
        product == Faults(events, unauthorized, "RPF-ARTIFACT-PRODUCER-001", "REJECT")
  <1>1. Harmless(behaviorReasons(events, policy))
          <=> undeclared = {} /\ egress = {} /\ sensitive = {} /\ unauthorized = {}
    <2>1. behaviorReasons(events, policy) = UNION { exec, connect, read, product }
      BY DEF behaviorReasons
    <2> HIDE DEF undeclared, egress, sensitive, unauthorized
    <2>2. Harmless(exec) <=> undeclared = {}
      BY FaultFacts
    <2>3. Harmless(connect) <=> egress = {}
      BY FaultFacts
    <2>4. Harmless(read) <=> sensitive = {}
      BY FaultFacts
    <2>5. Harmless(product) <=> unauthorized = {}
      BY FaultFacts
    <2> HIDE DEF exec, connect, read, product
    <2>6. Harmless(UNION { exec, connect, read, product })
            <=> Harmless(exec) /\ Harmless(connect) /\ Harmless(read) /\ Harmless(product)
      BY DEF Harmless
    <2> QED
      BY <2>1, <2>2, <2>3, <2>4, <2>5, <2>6
  <1>2. undeclared = {} <=>
          { events[i].process.executable : i \in Of(events, "process_exec") }
              \subseteq policy.allowed_executables
    OBVIOUS
  <1>3. egress = {} <=>
          { Member(events[i].resource, "destination") : i \in Of(events, "network_connect") }
              \subseteq policy.allowed_network_destinations \ {Missing}
    OBVIOUS
  <1>4. sensitive = {} <=>
          { Member(events[i].resource, "category") : i \in Of(events, "file_open_sensitive") }
              \cap (policy.forbidden_sensitive_categories \cup {Missing}) = {}
    OBVIOUS
  <1>5. unauthorized = {} <=>
          LET producers == { events[i].process : i \in Of(events, "artifact_finalized") }
          IN  /\ Missing \notin producers
              /\ { p.executable : p \in producers } \subseteq policy.allowed_artifact_producers
    OBVIOUS
  <1> QED
    BY <1>1, <1>2, <1>3, <1>4, <1>5 DEF BehaviourPermitted

-----------------------------------------------------------------------------
(* Loss                                                                    *)

\* The counters of the report as Assemble reads them, added without a modulus.
ReportedLoss(events) ==
    LET counters == lossFromFinalEvent(events[Len(events)]).counters
    IN  counters["kernel_reserve"] + counters["kernel_correlation"] + counters["decode"]
        + counters["queue"] + counters["persistence"]

\* The sum of verify.go does not wrap around.
ReportFits(events) == ReportedLoss(events) < Wrap

\* A counter that reads as zero is there and is zero.
LEMMA UintFacts ==
    ASSUME NEW resource, NEW key
    PROVE  /\ uintResource(resource, key) \in Nat
           /\ uintResource(resource, key) = 0 <=> key \in DOMAIN resource /\ resource[key] = 0
  <1>1. Wrap \div 2 \in Nat /\ Wrap \div 2 > 0
    BY WrapAssumption
  <1> QED
    BY <1>1 DEF uintResource

\* What the sum of five counters says, when it does not wrap and when they are zero.
LEMMA SumFacts ==
    ASSUME NEW a \in Nat, NEW b \in Nat, NEW c \in Nat, NEW d \in Nat, NEW e \in Nat
    PROVE  /\ a + b + c + d + e < Wrap /\ ~((a + b + c + d + e) % Wrap > 0)
                => a = 0 /\ b = 0 /\ c = 0 /\ d = 0 /\ e = 0
           /\ a = 0 /\ b = 0 /\ c = 0 /\ d = 0 /\ e = 0
                => ~((a + b + c + d + e) % Wrap > 0)
  <1>1. \A n \in Nat : n < Wrap => n % Wrap = n
    BY WrapAssumption
  <1>2. 0 < Wrap
    BY WrapAssumption
  <1>3. a + b + c + d + e \in Nat
    OBVIOUS
  <1> QED
    BY <1>1, <1>2, <1>3

\* A complete stream is a lossless one, unless its counters add up to 2^64.
LEMMA CompleteFacts ==
    ASSUME NEW events
    PROVE  /\ StreamCompleteness(events) = "complete" /\ ReportFits(events) => Lossless(events)
           /\ Lossless(events) => StreamCompleteness(events) = "complete"
  <1> DEFINE last == events[Len(events)]
             loss == lossFromFinalEvent(last)
             started == events[1].operation = "sensor_started"
             finalized == last.operation = "sensor_finalized"
  <1>1. StreamCompleteness(events) = "complete"
          <=> started /\ finalized /\ ~loss.counter_read_error /\ ~(LossSum(loss.counters) > 0)
    <2>1. StreamCompleteness(events) = completeness(started, finalized, loss)
      BY DEF StreamCompleteness
    <2> HIDE DEF started, finalized, loss
    <2> QED
      BY <2>1 DEF completeness
  <1>2. ASSUME finalized
        PROVE  /\ ~loss.counter_read_error
                     <=> /\ "counter_read_error" \in DOMAIN LossReport(events)
                         /\ ~LossReport(events).counter_read_error
               /\ \A f \in LossFields :
                     /\ loss.counters[f] \in Nat
                     /\ loss.counters[f] = 0
                          <=> f \in DOMAIN LossReport(events) /\ LossReport(events)[f] = 0
    <2>1. /\ loss.counters = [ f \in LossFields |-> uintResource(last.resource, f) ]
          /\ loss.counter_read_error = boolResource(last.resource, "counter_read_error")
      BY <1>2 DEF lossFromFinalEvent
    <2>2. ~loss.counter_read_error
             <=> /\ "counter_read_error" \in DOMAIN LossReport(events)
                 /\ ~LossReport(events).counter_read_error
      BY <2>1 DEF boolResource, LossReport
    <2>3. ASSUME NEW f \in LossFields
          PROVE  /\ loss.counters[f] \in Nat
                 /\ loss.counters[f] = 0
                      <=> f \in DOMAIN LossReport(events) /\ LossReport(events)[f] = 0
      <3>1. loss.counters[f] = uintResource(last.resource, f)
        BY <2>1
      <3> QED
        BY <3>1, UintFacts DEF LossReport
    <2> QED
      BY <2>2, <2>3
  <1>3. Lossless(events)
          <=> /\ started /\ finalized
              /\ "counter_read_error" \in DOMAIN LossReport(events)
              /\ ~LossReport(events).counter_read_error
              /\ \A f \in LossFields : f \in DOMAIN LossReport(events) /\ LossReport(events)[f] = 0
    BY DEF Lossless
  <1>4. ASSUME finalized
        PROVE  /\ ReportFits(events) /\ ~(LossSum(loss.counters) > 0)
                     => \A f \in LossFields : loss.counters[f] = 0
               /\ (\A f \in LossFields : loss.counters[f] = 0) => ~(LossSum(loss.counters) > 0)
    <2> DEFINE n(f) == loss.counters[f]
    <2>1. /\ n("kernel_reserve") \in Nat /\ n("kernel_correlation") \in Nat /\ n("decode") \in Nat
          /\ n("queue") \in Nat /\ n("persistence") \in Nat
      BY <1>2, <1>4 DEF LossFields
    <2>2. LossSum(loss.counters)
            = (n("kernel_reserve") + n("kernel_correlation") + n("decode") + n("queue")
               + n("persistence")) % Wrap
      BY DEF LossSum
    <2>3. ReportFits(events) <=> n("kernel_reserve") + n("kernel_correlation") + n("decode")
                                  + n("queue") + n("persistence") < Wrap
      BY DEF ReportFits, ReportedLoss
    <2> HIDE DEF n
    <2>4. (\A f \in LossFields : n(f) = 0)
            <=> /\ n("kernel_reserve") = 0 /\ n("kernel_correlation") = 0 /\ n("decode") = 0
                /\ n("queue") = 0 /\ n("persistence") = 0
      BY DEF LossFields
    <2>5. (\A f \in LossFields : n(f) = 0) <=> \A f \in LossFields : loss.counters[f] = 0
      BY DEF n
    <2> HIDE DEF loss
    <2> QED
      BY <2>1, <2>2, <2>3, <2>4, <2>5, SumFacts
  <1> HIDE DEF started, finalized, loss
  <1> QED
    BY <1>1, <1>2, <1>3, <1>4

-----------------------------------------------------------------------------
(* The decision                                                            *)

\* The manifest commits the completeness of the stream.
LEMMA ManifestFacts ==
    ASSUME NEW inputs
    PROVE  /\ ManifestCompleteness(ManifestOf(inputs)) = StreamCompleteness(inputs.events.lines)
           /\ ManifestOf(inputs).build_id = inputs.provenance.identity.build_id
           /\ ManifestOf(inputs).run_identity = inputs.provenance.identity.run_identity
           /\ ManifestOf(inputs).artifact.sha256 = Digest(inputs.artifact)
           /\ Assemble(inputs).manifest = ManifestOf(inputs)
  BY DEF ManifestCompleteness, ManifestOf, StreamCompleteness, Assemble

\* ALLOW is given when every check of Verify passes.
LEMMA VerifyFacts ==
    ASSUME NEW inputs, NEW bundle
    PROVE  Verify(inputs, bundle).decision = "ALLOW"
             <=> /\ Decoded(inputs)
                 /\ bundle.manifest.artifact.sha256 = Digest(inputs.artifact)
                 /\ AssembleAccepts(inputs)
                 /\ Harmless(integrityReasons(bundle, Assemble(inputs)))
                 /\ Harmless(identityReasons(inputs.provenance.identity, bundle.manifest,
                                             inputs.policy))
                 /\ Harmless(evidenceReasons(bundle.manifest, inputs.policy))
                 /\ Harmless(behaviorReasons(inputs.events.lines, inputs.policy))
  <1> DEFINE
        substituted == bundle.manifest.artifact.sha256 # Digest(inputs.artifact)
        state       == ManifestCompleteness(bundle.manifest)
        integrity   == integrityReasons(bundle, Assemble(inputs))
        identity    == identityReasons(inputs.provenance.identity, bundle.manifest, inputs.policy)
        evidence    == evidenceReasons(bundle.manifest, inputs.policy)
        behaviour   == behaviorReasons(inputs.events.lines, inputs.policy)
        reasons     == UNION { integrity, identity, evidence, behaviour }
  <1>1. Verify(inputs, bundle) =
          CASE ~Decoded(inputs) -> VerifyError
            [] Decoded(inputs) /\ substituted ->
                   Outcome("REJECT", state, { Reason("RPF-ARTIFACT-001", "REJECT", 0) })
            [] Decoded(inputs) /\ ~substituted /\ ~AssembleAccepts(inputs) -> VerifyError
            [] OTHER -> Outcome(DecisionOf(reasons), state, reasons)
    BY DEF Verify
  <1>2. Harmless(reasons) <=> /\ Harmless(integrity) /\ Harmless(identity)
                              /\ Harmless(evidence) /\ Harmless(behaviour)
    <2> HIDE DEF integrity, identity, evidence, behaviour
    <2> QED
      BY DEF Harmless
  <1> HIDE DEF reasons, state, substituted
  <1>3. Verify(inputs, bundle).decision = "ALLOW"
          <=> /\ Decoded(inputs) /\ ~substituted /\ AssembleAccepts(inputs)
              /\ DecisionOf(reasons) = "ALLOW"
    BY <1>1 DEF VerifyError, Outcome
  <1> QED
    BY <1>2, <1>3, AllowIsHarmless DEF substituted

\* Verify never answers ALLOW to inputs that break a key invariant: the stream is
\* a strict one, nothing was lost, the artifact is the one that was observed, one
\* identity that the policy trusts made it, and the policy permits all that the
\* build did.  It holds of every bundle, the one of another build included, and of
\* every report whose counters do not add up to 2^64 or more.
THEOREM AllowedInputsAreAdmissible ==
    ASSUME NEW inputs, NEW bundle,
           Verify(inputs, bundle).decision = "ALLOW",
           ReportFits(inputs.events.lines)
    PROVE  Admissible(inputs)
  <1> DEFINE events == inputs.events.lines
             identity == inputs.provenance.identity
  <1>1. /\ Decoded(inputs)
        /\ AssembleAccepts(inputs)
        /\ Harmless(integrityReasons(bundle, Assemble(inputs)))
        /\ Harmless(identityReasons(identity, bundle.manifest, inputs.policy))
        /\ Harmless(evidenceReasons(bundle.manifest, inputs.policy))
        /\ Harmless(behaviorReasons(events, inputs.policy))
    BY VerifyFacts
  <1>2. bundle.manifest = ManifestOf(inputs)
    BY <1>1, IntegrityFacts, ManifestFacts
  <1>3. Lossless(events)
    <2>1. decodePolicy(inputs.policy)
      BY <1>1 DEF Decoded
    <2>2. ManifestCompleteness(bundle.manifest) = "complete"
      BY <1>1, <2>1, EvidenceFacts
    <2> QED
      BY <1>2, <2>2, ManifestFacts, CompleteFacts
  <1>4. /\ inputs.provenance.predicate_type = SLSAPredicate
        /\ SameBuild(identity, events[1].build)
        /\ subjectMatches(inputs.provenance.subject, inputs.name, Digest(inputs.artifact))
        /\ verifyArtifactObservation(events, Digest(inputs.artifact))
        /\ BuildGraphAccepts(events)
    BY <1>1 DEF AssembleAccepts
  <1>5. BehaviourPermitted(events, inputs.policy)
    BY <1>1, BehaviourFacts
  <1>6. ArtifactCommitted(inputs)
    <2>1. PICK i \in Finalizations(events) :
             /\ \A j \in Finalizations(events) : i <= j
             /\ Member(events[i].resource, "sha256") = Digest(inputs.artifact)
      BY <1>4 DEF verifyArtifactObservation
    <2>2. i \in 1..Len(events) /\ events[i].operation = "artifact_finalized"
      BY <2>1 DEF Finalizations, Of
    <2>3. Len(events) \in Nat
      BY <1>1 DEF Decoded, ParseEventStreamAccepts
    <2>4. ASSUME NEW j \in 1..(i-1) PROVE events[j].operation # "artifact_finalized"
      <3>1. j \in 1..Len(events) /\ ~(i <= j)
        BY <2>2, <2>3
      <3> QED
        BY <2>1, <3>1 DEF Finalizations, Of
    <2> QED
      BY <1>4, <2>1, <2>2, <2>4 DEF ArtifactCommitted, subjectMatches
  <1>7. OneTrustedIdentity(inputs)
    <2>1. ScopeConstant(events)
      BY <1>1 DEF Decoded, ParseEventStreamAccepts, verifyChain
    <2>2. \A i \in 1..Len(events) :
             /\ events[i].build.build_id = identity.build_id
             /\ events[i].build.run_id = identity.run_identity.run_id
             /\ events[i].build.source = identity.source
      BY <1>4, <2>1 DEF ScopeConstant, SameBuild
    <2>3. /\ inputs.provenance.external = identity.source
          /\ inputs.provenance.run_details.builder = identity.builder_id
          /\ inputs.provenance.run_details.invocation_id = identity.run_identity.run_id
      BY <1>1 DEF Decoded, provenanceIdentity
    <2>4. /\ identity.run_identity.provider = inputs.policy.expected_provider
          /\ identity.builder_id \in inputs.policy.allowed_builder_ids
          /\ identity.source.repository \in inputs.policy.allowed_repositories
      BY <1>1, IdentityFacts
    <2> QED
      BY <2>2, <2>3, <2>4 DEF OneTrustedIdentity
  <1> QED
    BY <1>1, <1>3, <1>4, <1>5, <1>6, <1>7 DEF Admissible

\* No false alarm: with the bundle Assemble makes of them, Verify answers ALLOW
\* to all admissible inputs.
THEOREM AdmissibleInputsAreAllowed ==
    ASSUME NEW inputs, Admissible(inputs)
    PROVE  Verify(inputs, Assemble(inputs)).decision = "ALLOW"
  <1> DEFINE events == inputs.events.lines
             identity == inputs.provenance.identity
             bundle == Assemble(inputs)
  <1>1. /\ Decoded(inputs)
        /\ inputs.provenance.predicate_type = SLSAPredicate
        /\ Lossless(events)
        /\ BuildGraphAccepts(events)
        /\ ArtifactCommitted(inputs)
        /\ OneTrustedIdentity(inputs)
        /\ BehaviourPermitted(events, inputs.policy)
    BY DEF Admissible
  <1>2. Len(events) \in Nat /\ Len(events) >= 1
    BY <1>1, MaxEventsAssumption DEF Decoded, ParseEventStreamAccepts
  <1>3. AssembleAccepts(inputs)
    <2>1. SameBuild(identity, events[1].build)
      <3>1. 1 \in 1..Len(events)
        BY <1>2
      <3> QED
        BY <1>1, <3>1 DEF OneTrustedIdentity, SameBuild
    <2>2. subjectMatches(inputs.provenance.subject, inputs.name, Digest(inputs.artifact))
      BY <1>1 DEF ArtifactCommitted, subjectMatches
    <2>3. verifyArtifactObservation(events, Digest(inputs.artifact))
      <3>1. PICK i \in 1..Len(events) :
               /\ events[i].operation = "artifact_finalized"
               /\ \A j \in 1..(i-1) : events[j].operation # "artifact_finalized"
               /\ Member(events[i].resource, "sha256") = Digest(inputs.artifact)
        BY <1>1 DEF ArtifactCommitted
      <3>2. i \in Finalizations(events)
        BY <3>1 DEF Finalizations, Of
      <3>3. ASSUME NEW j \in Finalizations(events) PROVE i <= j
        <4>1. j \in 1..Len(events) /\ events[j].operation = "artifact_finalized"
          BY DEF Finalizations, Of
        <4> QED
          BY <1>2, <3>1, <4>1
      <3>4. events[i].process # Missing
        BY <1>1, <3>2 DEF BehaviourPermitted, Finalizations
      <3> QED
        BY <3>1, <3>2, <3>3, <3>4 DEF verifyArtifactObservation
    <2> QED
      BY <1>1, <2>1, <2>2, <2>3 DEF AssembleAccepts
  <1>4. bundle.manifest = ManifestOf(inputs)
    BY ManifestFacts
  <1>5. bundle.manifest.artifact.sha256 = Digest(inputs.artifact)
    BY <1>4, ManifestFacts
  <1>6. Harmless(integrityReasons(bundle, Assemble(inputs)))
    BY IntegrityFacts
  <1>7. Harmless(identityReasons(identity, bundle.manifest, inputs.policy))
    <2>1. /\ identity.run_identity.provider = inputs.policy.expected_provider
          /\ identity.builder_id \in inputs.policy.allowed_builder_ids
          /\ identity.source.repository \in inputs.policy.allowed_repositories
      BY <1>1 DEF OneTrustedIdentity
    <2>2. /\ identity.build_id = bundle.manifest.build_id
          /\ identity.run_identity = bundle.manifest.run_identity
      BY <1>4, ManifestFacts
    <2> QED
      BY <2>1, <2>2, IdentityFacts
  <1>8. Harmless(evidenceReasons(bundle.manifest, inputs.policy))
    <2>1. ManifestCompleteness(bundle.manifest) = "complete"
      BY <1>1, <1>4, ManifestFacts, CompleteFacts
    <2>2. decodePolicy(inputs.policy)
      BY <1>1 DEF Decoded
    <2> QED
      BY <2>1, <2>2, EvidenceFacts
  <1>9. Harmless(behaviorReasons(events, inputs.policy))
    BY <1>1, BehaviourFacts
  <1> QED
    BY <1>1, <1>3, <1>5, <1>6, <1>7, <1>8, <1>9, VerifyFacts

\* The runtime trace names every input: two inputs with the same trace are the same.
LEMMA TraceNamesInputs ==
    ASSUME NEW inputs, NEW other, Assemble(inputs).trace = Assemble(other).trace
    PROVE  /\ inputs.artifact = other.artifact
           /\ inputs.name = other.name
           /\ inputs.events = other.events
           /\ inputs.provenance = other.provenance
           /\ inputs.policy = other.policy
  <1> DEFINE Trace(i) == RuntimeTraceOf(i, ManifestOf(i))
  <1>1. Trace(inputs) = Trace(other)
    BY DEF Assemble
  <1>2. ASSUME NEW i
        PROVE  /\ Trace(i).correlation.evidence_manifest = Digest(ManifestOf(i))
               /\ Trace(i).correlation.slsa_provenance = Digest(i.provenance)
    BY DEF RuntimeTraceOf
  <1>3. ASSUME NEW i
        PROVE  /\ ManifestOf(i).event_stream.sha256 = Digest(i.events)
               /\ ManifestOf(i).artifact.sha256 = Digest(i.artifact)
               /\ ManifestOf(i).artifact.name = i.name
               /\ ManifestOf(i).policy_sha256 = Digest(i.policy)
    BY DEF ManifestOf
  <1>4. ASSUME NEW x, NEW y, Digest(x) = Digest(y) PROVE x = y
    BY <1>4 DEF Digest
  <1> HIDE DEF Trace
  <1>5. /\ Digest(ManifestOf(inputs)) = Digest(ManifestOf(other))
        /\ Digest(inputs.provenance) = Digest(other.provenance)
    BY <1>1, <1>2
  <1>6. ManifestOf(inputs) = ManifestOf(other) /\ inputs.provenance = other.provenance
    BY <1>4, <1>5
  <1>7. /\ Digest(inputs.events) = Digest(other.events)
        /\ Digest(inputs.artifact) = Digest(other.artifact)
        /\ inputs.name = other.name
        /\ Digest(inputs.policy) = Digest(other.policy)
    BY <1>3, <1>6
  <1> QED
    BY <1>4, <1>6, <1>7

\* A bundle vouches for one build: when Verify answers ALLOW, the trace it read was
\* assembled from exactly these inputs.
THEOREM AllowedInputsWereAssembled ==
    ASSUME NEW inputs, NEW other, NEW bundle,
           Verify(inputs, bundle).decision = "ALLOW",
           bundle.trace = Assemble(other).trace
    PROVE  /\ inputs.artifact = other.artifact
           /\ inputs.name = other.name
           /\ inputs.events = other.events
           /\ inputs.provenance = other.provenance
           /\ inputs.policy = other.policy
  <1>1. bundle.trace = Assemble(inputs).trace
    BY VerifyFacts, IntegrityFacts
  <1> QED
    BY <1>1, TraceNamesInputs
=============================================================================
