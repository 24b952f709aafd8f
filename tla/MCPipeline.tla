----------------------------- MODULE MCPipeline -----------------------------
(***************************************************************************)
(* Pipeline for TLC: one declared compiler, a second process of another    *)
(* image that connects, whether its exec was seen, found the map full or   *)
(* was not seen, a record decodeEvent refuses, two versions of the         *)
(* artifact.                                                               *)
(***************************************************************************)
EXTENDS Pipeline, TLC

MCSource == [ repository |-> "repo", revision |-> "rev" ]

MCFlagSets ==
    { [ build |-> [ build_id |-> "b1", run_id |-> "run", boot_id |-> "boot", cgroup_id |-> 7,
                    cgroup_path_hash |-> Digest("/lab"), source |-> MCSource ],
        cgroup_path |-> "/lab", artifact |-> "artifact",
        sensitive_path |-> "secret", sensitive_category |-> "token" ] }

Record(kind, tgid, filename) ==
    [ kind |-> kind, pid |-> tgid, monotonic_ns |-> 0,
      pid_namespace |-> 1, tgid |-> tgid, start_time |-> tgid,
      parent_pid_namespace |-> 1, ppid |-> 0, parent_start_time |-> 1,
      mount_namespace |-> 1, filename |-> filename,
      destination_ipv4 |-> "address", destination_port |-> 80 ]

MCRecords ==
    { Record("exec", 1, "cc"), Record("open", 1, "artifact"),
      Record("exec", 2, "ld"), Record("connect4", 2, Missing), Record("malformed", 1, Missing) }

MCDigests == { Digest(b) : b \in Bytes }

\* No code looks at the bytes but to hash and to compare them.
MCSymmetry == Permutations(Bytes)

MCPolicy ==
    [ decodes |-> TRUE, schema_version |-> "0.1", incomplete_decision |-> "REVIEW",
      expected_provider |-> "local", allowed_builder_ids |-> { LocalBuilderID },
      allowed_artifact_producers |-> { "cc" }, allowed_repositories |-> { "repo" },
      allowed_executables |-> { "cc" }, allowed_network_destinations |-> {},
      forbidden_sensitive_categories |-> { "token" } ]
=============================================================================
