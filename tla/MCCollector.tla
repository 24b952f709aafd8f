----------------------------- MODULE MCCollector -----------------------------
(***************************************************************************)
(* Collector instantiated for TLC: two builds that share an output path,   *)
(* two processes, two images, one artifact.                                *)
(***************************************************************************)
EXTENDS Collector

Build(id) ==
    [ build_id |-> id, run_id |-> "run", boot_id |-> "boot", cgroup_id |-> 7,
      cgroup_path_hash |-> Digest("/lab"),
      source |-> [ repository |-> "repo", revision |-> "rev" ] ]

Flags(build) ==
    [ build |-> build, cgroup_path |-> "/lab", artifact |-> "artifact",
      sensitive_path |-> "secret", sensitive_category |-> "token" ]

\* Only main looks at the source identity before the chain seals an event.
MCFlagSets ==
    { Flags(Build("b1")), Flags(Build("b2")),
      Flags([ Build("b1") EXCEPT !.source.repository = Missing ]) }

MCOneFlagSet == { Flags(Build("b1")) }

Record(kind, tgid, filename) ==
    [ kind |-> kind, pid |-> tgid, monotonic_ns |-> 0,
      pid_namespace |-> 1, tgid |-> tgid, start_time |-> tgid,
      parent_pid_namespace |-> 1, ppid |-> 0, parent_start_time |-> 1,
      mount_namespace |-> 1, filename |-> filename,
      destination_ipv4 |-> "address", destination_port |-> 80 ]

MCRecords ==
    { Record("exec", 1, "cc"), Record("exec", 1, "ld"), Record("exec", 2, "cc"),
      Record("open", 1, "artifact"), Record("open", 2, "artifact") }

\* Every branch of the switch, with two images of the process that opens.
MCActivity ==
    { Record("exec", 1, "cc"), Record("exec", 1, "ld"), Record("open", 1, "artifact"),
      Record("open", 2, "artifact"), Record("exec", 2, "cc"),
      Record("sensitive", 1, "secret"), Record("connect4", 1, Missing) }

\* Records that are written, not attributable, refused by decodeEvent, and refused
\* by the chain.
MCLossKinds ==
    { Record("exec", 1, "cc"), Record("open", 1, "artifact"), Record("exec", 2, "cc"),
      Record("malformed", 1, Missing), [ Record("exec", 1, "cc") EXCEPT !.mount_namespace = 0 ] }

MCDigests == { "digest" }
=============================================================================
