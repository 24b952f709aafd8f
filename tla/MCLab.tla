-------------------------------- MODULE MCLab --------------------------------
(***************************************************************************)
(* Lab for TLC: both scripts, twice in a row.  The mock servers of the two *)
(* scripts share a port here, as those of two runs of one script do.       *)
(***************************************************************************)
EXTENDS Lab

MCPrograms == { "mock", "callback", "target", "proof", "package", "build" }
MCServers == ServerPrograms \X Rounds
MCClients == { "callback", "proof" } \X Rounds
MCJobs == ((MCPrograms \ {"mock"}) \X Rounds) \cup { << "build", 0 >> }
MCPort == [ p \in MCServers \cup MCClients |->
              IF p[1] \in { "mock", "callback" } THEN 18080 ELSE 18081 ]

MCScripts == { << "mock", "package", "build", "callback" >>,
               << "mock", "callback", "target", "proof" >> }

\* The command line of the scripts, and one that is refused for each check.
Good == [ usage |-> TRUE, euid |-> 0, resolves |-> TRUE, absolute |-> TRUE,
          cgroup |-> [ dir |-> "/sys/fs/cgroup", base |-> "rpf-" ] ]
MCCommands == { Good, [ Good EXCEPT !.cgroup.base = "user" ] }
=============================================================================
