----------------------------- MODULE MCFirewall -----------------------------
(***************************************************************************)
(* Firewall for TLC.  The base inputs are the fixture of verify_test.go:   *)
(* a shell, a compiler that finalizes the artifact, a lossless report.     *)
(* Every other version of an input file deviates from it in one respect.   *)
(***************************************************************************)
EXTENDS Firewall, TLC

MCSource == [ repository |-> "repo", revision |-> "rev" ]

Build == [ build_id |-> "b1", run_id |-> "r1", boot_id |-> "boot", cgroup_id |-> 7,
           cgroup_path_hash |-> Digest("/lab"), source |-> MCSource ]

Proc(key, parent, path) ==
    [ process_key |-> key, parent_key |-> parent, mount_namespace |-> 1, executable |-> path ]

Shell == Proc("sh", Missing, "/bin/sh")
Compiler == Proc("cc", "sh", "/usr/bin/cc")

Ev(operation, process, resource) ==
    [ operation |-> operation, process |-> process, resource |-> resource ]

None == [ k \in {} |-> Missing ]

Report == [ kernel_reserve |-> 0, kernel_correlation |-> 0, decode |-> 0, queue |-> 0,
            persistence |-> 0, counter_read_error |-> FALSE ]

Without(resource, key) == [ k \in DOMAIN resource \ {key} |-> resource[k] ]

\* Seals a sequence of drafts, one clock tick each.
Stream(build, drafts) ==
    LET body(i) == [ sequence |-> i, monotonic_ns |-> i, build |-> build, sensor |-> "config",
                     process |-> drafts[i].process, operation |-> drafts[i].operation,
                     resource |-> drafts[i].resource ]
        hash(i) == [ j \in 1..i |-> body(j) ]
    IN  [ torn  |-> FALSE,
          lines |-> [ i \in 1..Len(drafts) |->
                        [ sequence |-> i, monotonic_ns |-> i, build |-> build,
                          sensor |-> "config", process |-> drafts[i].process,
                          operation |-> drafts[i].operation, resource |-> drafts[i].resource,
                          previous_event_hash |-> hash(i - 1), event_hash |-> hash(i) ] ] ]

Started == Ev("sensor_started", Missing, None)
Execs == << Ev("process_exec", Shell, None), Ev("process_exec", Compiler, None) >>
Artifact(process, bytes) ==
    Ev("artifact_finalized", process, [ category |-> "artifact", sha256 |-> Digest(bytes) ])
Final(report) == Ev("sensor_finalized", Missing, report)

\* The base drafts with more events before the artifact, and another end.
Drafts(extra, tail) == << Started >> \o Execs \o extra \o tail

BaseTail == << Artifact(Compiler, "bytes"), Final(Report) >>
With(extra) == Stream(Build, Drafts(extra, BaseTail))
Ending(tail) == Stream(Build, Drafts(<< >>, tail))
Reporting(report) == Ending(<< Artifact(Compiler, "bytes"), Final(report) >>)
Connect(resource) == With(<< Ev("network_connect", Compiler, resource) >>)
Sensitive(resource) == With(<< Ev("file_open_sensitive", Compiler, resource) >>)
Base == With(<< >>)

MCEventDocs ==
    [ base |-> Base,
      lossy |-> Reporting([ Report EXCEPT !.decode = 1 ]),
      readError |-> Reporting([ Report EXCEPT !.counter_read_error = TRUE ]),
      noCounter |-> Reporting(Without(Report, "kernel_correlation")),
      noErrorFlag |-> Reporting(Without(Report, "counter_read_error")),
      unfinalized |-> Ending(<< Artifact(Compiler, "bytes") >>),
      unstarted |-> Stream(Build, Execs \o BaseTail),
      connectAllowed |-> Connect([ destination |-> "lab:80" ]),
      connectDenied |-> Connect([ destination |-> "net:80" ]),
      connectUnnamed |-> Connect(None),
      harmlessRead |-> Sensitive([ category |-> "public" ]),
      sensitiveRead |-> Sensitive([ category |-> "credential" ]),
      unnamedRead |-> Sensitive(None),
      undeclaredExec |-> With(<< Ev("process_exec", Proc("x", "cc", "/tmp/x"), None) >>),
      secondImage |-> With(<< Ev("process_exec", Proc("cc", "sh", "/bin/sh"), None) >>),
      noArtifact |-> Ending(<< Final(Report) >>),
      otherArtifact |-> Ending(<< Artifact(Compiler, "other"), Final(Report) >>),
      noProducer |-> Ending(<< Artifact(Missing, "bytes"), Final(Report) >>),
      shellProducer |-> Ending(<< Artifact(Shell, "bytes"), Final(Report) >>),
      twoArtifacts |-> Ending(<< Artifact(Compiler, "bytes"), Artifact(Shell, "other"), Final(Report) >>),
      otherSource |-> Stream([ Build EXCEPT !.source.revision = "other" ], Drafts(<< >>, BaseTail)),
      otherBuild |-> Stream([ Build EXCEPT !.build_id = "b2" ], Drafts(<< >>, BaseTail)),
      otherRun |-> Stream([ Build EXCEPT !.run_id = "r2" ], Drafts(<< >>, BaseTail)),
      cut |-> [ Base EXCEPT !.torn = TRUE ],
      edited |-> [ Base EXCEPT !.lines[2].process.executable = "/usr/bin/cc" ],
      reordered |-> [ Base EXCEPT !.lines[3].monotonic_ns = 1 ] ]

MCArtifacts ==
    [ base |-> [ name |-> "app", bytes |-> "bytes" ],
      substituted |-> [ name |-> "app", bytes |-> "other" ],
      renamed |-> [ name |-> "tool", bytes |-> "bytes" ] ]

BaseStatement == CreateLocalFixtureProvenance("app", "bytes", Base.lines, MCSource)

Statements ==
    [ base |-> BaseStatement,
      undecodable |-> [ BaseStatement EXCEPT !.decodes = FALSE ],
      otherType |-> [ BaseStatement EXCEPT !.predicate_type = "other" ],
      noSubject |-> [ BaseStatement EXCEPT !.subject = {} ],
      otherSubject |-> [ BaseStatement EXCEPT !.subject = { [ name |-> "app", sha256 |-> Digest("other") ] } ],
      noIdentity |-> [ BaseStatement EXCEPT !.identity = Missing ],
      noBuildID |-> [ BaseStatement EXCEPT !.identity.build_id = Missing ],
      noRunDetails |-> [ BaseStatement EXCEPT !.run_details = Missing ],
      otherExternal |-> [ BaseStatement EXCEPT !.external.revision = "other" ],
      otherResolved |-> [ BaseStatement EXCEPT !.resolved = { [ uri |-> "repo", git_commit |-> "other" ] } ],
      otherBuilder |-> [ BaseStatement EXCEPT !.identity.builder_id = "x", !.run_details.builder = "x" ],
      otherDetails |-> [ BaseStatement EXCEPT !.run_details.builder = "x" ],
      otherRun |-> [ BaseStatement EXCEPT !.run_details.invocation_id = "r2",
                                          !.identity.run_identity.run_id = "r2" ],
      otherProvider |-> [ BaseStatement EXCEPT !.identity.run_identity.provider = "ci" ],
      undated |-> [ BaseStatement EXCEPT !.run_details.finished_on = Missing ],
      redated |-> [ BaseStatement EXCEPT !.run_details.finished_on = "later" ] ]

BasePolicy ==
    [ decodes |-> TRUE, schema_version |-> "0.1",
      allowed_builder_ids |-> { LocalBuilderID },
      allowed_artifact_producers |-> { "/usr/bin/cc" },
      allowed_repositories |-> { "repo" },
      allowed_executables |-> { "/bin/sh", "/usr/bin/cc" },
      allowed_network_destinations |-> { "lab:80" },
      forbidden_sensitive_categories |-> { "credential" },
      expected_provider |-> "local", incomplete_decision |-> "REJECT" ]

MCPolicies ==
    [ base |-> BasePolicy,
      review |-> [ BasePolicy EXCEPT !.incomplete_decision = "REVIEW" ],
      allowIncomplete |-> [ BasePolicy EXCEPT !.incomplete_decision = "ALLOW" ],
      otherVersion |-> [ BasePolicy EXCEPT !.schema_version = "0.2" ],
      noBuilders |-> [ BasePolicy EXCEPT !.allowed_builder_ids = {} ],
      otherProvider |-> [ BasePolicy EXCEPT !.expected_provider = "ci" ],
      otherRepository |-> [ BasePolicy EXCEPT !.allowed_repositories = { "fork" } ],
      anyProducer |-> [ BasePolicy EXCEPT !.allowed_artifact_producers = { "/bin/sh", "/usr/bin/cc" } ],
      undecodable |-> [ BasePolicy EXCEPT !.decodes = FALSE ] ]

\* Provenance versions are tuples, like those of create-local-provenance.
MCProvenances == [ v \in { << n >> : n \in DOMAIN Statements } |-> Statements[v[1]] ]

BaseDisk == [ artifact |-> "base", events |-> "base", provenance |-> << "base" >>,
              policy |-> "base", graph |-> NoFile ]

\* Input files of which at most two deviate from the base.
Deviations ==
    { d \in [ artifact : DOMAIN Artifacts, events : DOMAIN EventDocs,
              provenance : DOMAIN Provenances, policy : DOMAIN Policies, graph : {NoFile} ] :
      Cardinality({ file \in DOMAIN d : d[file] # BaseDisk[file] }) <= 2 }

Unchanging == [ file \in {} |-> {} ]

\* inputs: one build after the other, every pair of deviations.  race: two
\* assemblers and a verifier while a statement is replaced.  statements,
\* graphs: the commands that create a new file, while their inputs and, for
\* statements, the new file itself are replaced or removed.
MCScenarios ==
    [ inputs |-> [ assemblers |-> 1, others |-> {"v1"}, disks |-> Deviations,
                   replacements |-> 0, alternatives |-> Unchanging ],
      race |-> [ assemblers |-> 2, others |-> {"v1"}, disks |-> {BaseDisk}, replacements |-> 1,
                 alternatives |-> [ provenance |-> { << "base" >>, << "redated" >> } ] ],
      statements |-> [ assemblers |-> 0, others |-> { "v1", "r1", "r2" },
                       disks |-> { [ BaseDisk EXCEPT !.provenance = NoFile ] }, replacements |-> 2,
                       alternatives |-> [ events |-> {"connectAllowed"}, provenance |-> { << "base" >>, NoFile } ] ],
      graphs |-> [ assemblers |-> 0, others |-> { "g1", "g2", "c1" }, disks |-> {BaseDisk}, replacements |-> 2,
                   alternatives |-> [ events |-> { "connectAllowed", "secondImage", "cut" } ] ] ]

MCCommand == [ v1 |-> "verify-fixture", r1 |-> "create-local-provenance",
               r2 |-> "create-local-provenance", g1 |-> "graph-events", g2 |-> "graph-events",
               c1 |-> "validate-events" ]

\* A build of three more processes, and a small document limit.
MCLargeDocs ==
    [ base |-> With([ i \in 1..3 |->
                        Ev("process_exec", Proc(<< "p1", "p2", "p3" >>[i], "sh", "/usr/bin/cc"), None) ]) ]
MCOneBuild ==
    [ build |-> [ assemblers |-> 1, others |-> {"v1"}, disks |-> {BaseDisk},
                  replacements |-> 0, alternatives |-> Unchanging ] ]

\* Nothing tells two assemblers apart.
MCSymmetry == Permutations(Assemblers)
=============================================================================
