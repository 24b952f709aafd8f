--------------------------------- MODULE Lab ---------------------------------
(***************************************************************************)
(* The disposable lab: the driver scripts tools/test-sensor.sh and         *)
(* tools/test-adversarial-case.sh with the launcher, the loopback peers    *)
(* and the two build fixtures they start.                                  *)
(*                                                                         *)
(* A script starts a server in the background, polls for its readiness     *)
(* marker, runs the other programs one after the other and waits for the   *)
(* server.  It may be killed without its cleanup and started again, while  *)
(* programs of the earlier round still run.                                *)
(*                                                                         *)
(* Left out are the sensor that both scripts start, sleep for and wait for *)
(* (it is in Collector and Pipeline), the three launches of a shell in the *)
(* cgroup (test-adversarial-case.sh:100-108), which use no peer and no     *)
(* fixture, and the greps over what was recorded.                          *)
(***************************************************************************)
EXTENDS Launcher, Rendezvous, FiniteSets

CONSTANTS
    Scripts,      \* the programs each driver script starts, in order
    MaxRounds,    \* bound: scripts run one after the other
    MaxAttempts   \* polls of the readiness marker

VARIABLES
    round,      \* scripts started so far
    driver,     \* where the script stands
    todo,       \* programs it has still to start
    used,       \* the programs of this round
    attempts,   \* polls of the current marker
    background, \* the server it has not waited for yet
    authMode,   \* auth_mode of this round
    artifact,   \* inode at the artifact path, 0 when there is none
    bytes,      \* inode -> what the file holds
    fixture,    \* job -> the call a fixture stands before
    fd          \* job -> the inode rpf-build-fixture opened

script == << round, driver, todo, used, attempts, background, authMode >>
files == << artifact, bytes >>
fixtures == << fixture, fd >>
vars == << launcher, rendezvous, script, files, fixtures >>

-----------------------------------------------------------------------------
(* A job is << program, round >>; round 0 is a fixture started by hand.    *)

Rounds == 1..MaxRounds
ServerPrograms == { "mock", "target" }
FixtureJobs == { j \in Jobs : j[1] \in { "build", "package" } }
Current(program) == << program, round >>

\* Every program of a script runs once in a round, all but rpf-mock-server through
\* the launcher; the scripts are the two of tools/.
ASSUME LabAssumption ==
    /\ MaxRounds \in Nat /\ RuntimeThreads # {}
    /\ Servers = ServerPrograms \X Rounds
    /\ Clients = { "callback", "proof" } \X Rounds
    /\ Jobs = ({ "callback", "target", "proof", "package", "build" } \X Rounds)
                  \cup { << "build", 0 >> }
    /\ Nobody \notin Peers \cup Jobs
    /\ Scripts \subseteq { << "mock", "package", "build", "callback" >>,
                           << "mock", "callback", "target", "proof" >> }

ExpectFor(m) == IF m = "intentionally-vulnerable" THEN "grant" ELSE "deny"

JobOk(j) == IF j \in FixtureJobs THEN fixture[j] = "ok" ELSE place[j] = "ok"
JobEnded(j) ==
    \/ j \in Jobs /\ stage[j] = "failed"
    \/ IF j \in FixtureJobs THEN fixture[j] \in PeerEnded ELSE place[j] \in PeerEnded

ScriptEnded == { "passed", "failed", "killed" }

Init ==
    /\ LauncherInit /\ RendezvousInit
    /\ round = 0 /\ driver = "passed" /\ todo = << >> /\ used = {} /\ attempts = 0
    /\ background = Nobody /\ authMode = "patched"
    /\ artifact = 0 /\ bytes = [ i \in Rounds |-> "empty" ]
    /\ fixture = [ j \in FixtureJobs |-> "idle" ] /\ fd = [ j \in FixtureJobs |-> 0 ]

-----------------------------------------------------------------------------
(* The driver script                                                       *)

\* A script is started, again after one that ended or was killed.
StartScript ==
    /\ driver \in ScriptEnded /\ round < MaxRounds
    /\ round' = round + 1
    /\ driver' = "remove" /\ attempts' = 0 /\ background' = Nobody
    /\ \E s \in Scripts : todo' = s /\ used' = { s[i] : i \in 1..Len(s) }
    /\ authMode' \in IF "target" \in used' THEN { "intentionally-vulnerable", "patched" } ELSE {"patched"}
    /\ \A j \in FixtureJobs : j[2] = 0 => fixture[j] = "failed"
    /\ UNCHANGED << launcher, rendezvous, files, fixtures >>

RemoveArtifact ==
    /\ driver = "remove"
    /\ driver' = "create" /\ artifact' = 0
    /\ UNCHANGED << launcher, rendezvous, round, todo, used, attempts, background, authMode, bytes, fixtures >>

\* The new, empty artifact; markers of earlier servers are removed.
CreateArtifact ==
    /\ driver = "create"
    /\ driver' = "next" /\ artifact' = round
    /\ ready' = [ q \in Ports |-> Nobody ]
    /\ UNCHANGED << launcher, place, mode, holder, backlog, serving, peer, sent, reply,
                    round, todo, used, attempts, background, authMode, bytes, fixtures >>

\* The next program of the list, of those the header names; everything but
\* rpf-mock-server is started through the launcher.
StartProgram ==
    /\ driver = "next" /\ todo # << >>
    /\ LET j == Current(Head(todo))
           server == j[1] \in ServerPrograms
       IN  /\ driver' = IF server THEN "poll" ELSE "wait"
           /\ background' = IF server THEN j ELSE background
           /\ IF j[1] = "mock"
              THEN Goes(j, "listen") /\ UNCHANGED << launcher, mode >>
              ELSE /\ \E c \in Commands : Launch(j, c)
                   /\ mode' = CASE j[1] = "target" -> [ mode EXCEPT ![j] = authMode ]
                                [] j[1] = "proof" -> [ mode EXCEPT ![j] = ExpectFor(authMode) ]
                                [] OTHER -> mode
                   /\ UNCHANGED place
    /\ attempts' = 0
    /\ UNCHANGED << sockets, round, todo, used, authMode, files, fixtures >>

Advance(to) == driver' = to /\ todo' = IF to = "next" THEN Tail(todo) ELSE todo

\* The EXIT trap: kill the server that was not waited for, remove the markers.
Cleanup(status) ==
    /\ driver' = status
    /\ ready' = [ q \in Ports |-> Nobody ]
    /\ IF background # Nobody
       THEN /\ stage' = IF background \in DOMAIN helper
                        THEN [ stage EXCEPT ![background] = "failed" ] ELSE stage
            /\ helper' = Gone(background)
            /\ IF place[background] \notin PeerEnded \cup {"idle"}
               THEN ServerEnds(background, "failed") ELSE UNCHANGED << place, holder >>
       ELSE UNCHANGED << stage, helper, place, holder >>
    /\ UNCHANGED << image, mode, backlog, serving, peer,
                    sent, reply, round, todo, used, attempts, background, authMode, files, fixtures >>

Continue(to) ==
    /\ Advance(to)
    /\ UNCHANGED << launcher, rendezvous, round, used, attempts, background, authMode, files, fixtures >>

Poll ==
    /\ driver = "poll"
    /\ LET marker == ready[Port[background]] # Nobody
       IN  \/ marker /\ Continue("next")
           \/ /\ ~marker /\ attempts < MaxAttempts
              /\ attempts' = attempts + 1
              /\ UNCHANGED << launcher, rendezvous, round, driver, todo, used, background, authMode, files, fixtures >>
           \/ ~marker /\ attempts = MaxAttempts /\ Cleanup("failed")

\* rpf-authz-proof runs in a pipe: only what it printed is looked at later.
WaitProgram ==
    /\ driver = "wait"
    /\ LET j == Current(Head(todo))
       IN  /\ JobEnded(j)
           /\ \/ (JobOk(j) \/ j[1] = "proof")
                 /\ Continue(IF j \in Clients THEN "collect" ELSE "next")
              \/ ~JobOk(j) /\ j[1] # "proof" /\ Cleanup("failed")

WaitServer ==
    /\ driver = "collect" /\ JobEnded(background)
    /\ \/ /\ JobOk(background)
          /\ Advance("next") /\ background' = Nobody
          /\ UNCHANGED << launcher, rendezvous, round, used, attempts, authMode, files, fixtures >>
       \/ ~JobOk(background) /\ Cleanup("failed")

\* The result of the proof is checked last.
FinishScript ==
    /\ driver = "next" /\ todo = << >>
    /\ Cleanup(IF "proof" \notin used \/ JobOk(Current("proof")) THEN "passed" ELSE "failed")

\* The script dies without its trap.
KillScript ==
    /\ driver \notin ScriptEnded /\ round < MaxRounds
    /\ driver' = "killed"
    /\ UNCHANGED << launcher, rendezvous, round, todo, used, attempts, background, authMode, files, fixtures >>

DriverStep ==
    \/ RemoveArtifact \/ CreateArtifact \/ StartProgram \/ Poll \/ WaitProgram \/ WaitServer
    \/ FinishScript

-----------------------------------------------------------------------------
(* The programs                                                            *)

\* The launcher has become the program.
Become(j) ==
    /\ Exec(j)
    /\ IF j \in FixtureJobs
       THEN fixture' = [ fixture EXCEPT ![j] = "check" ] /\ UNCHANGED place
       ELSE Goes(j, IF j \in Servers THEN "listen" ELSE "dial") /\ UNCHANGED fixture
    /\ UNCHANGED << mode, sockets, script, files, fd >>

\* A fixture is started outside the lab, without its environment.
StartByHand(j) ==
    /\ j[2] = 0 /\ fixture[j] = "idle"
    /\ fixture' = [ fixture EXCEPT ![j] = "check" ]
    /\ UNCHANGED << launcher, rendezvous, script, files, fd >>

FixtureGoes(j, from, to) ==
    /\ fixture[j] = from
    /\ fixture' = [ fixture EXCEPT ![j] = to ]

Environment(j) == IF j \in DOMAIN image THEN image[j].environment ELSE "inherited"

\* Both fixtures take a fixed path and refuse to run without RPF_DISPOSABLE_LAB.
CheckFixture(j) ==
    /\ FixtureGoes(j, "check", IF j[1] = "build" THEN "open" ELSE "read")
    /\ Environment(j) = "RPF_DISPOSABLE_LAB=1"
    /\ UNCHANGED << launcher, rendezvous, script, files, fd >>

\* rpf-package-fixture reads its manifest, valid JSON.
ReadManifest(j) ==
    /\ FixtureGoes(j, "read", "ok")
    /\ UNCHANGED << launcher, rendezvous, script, files, fd >>

\* No O_CREAT: the artifact has to be there, a regular file and not a link.
OpenArtifact(j) ==
    /\ FixtureGoes(j, "open", "truncate") /\ artifact # 0
    /\ fd' = [ fd EXCEPT ![j] = artifact ]
    /\ UNCHANGED << launcher, rendezvous, script, files >>

TruncateArtifact(j) ==
    /\ FixtureGoes(j, "truncate", "write")
    /\ bytes' = [ bytes EXCEPT ![fd[j]] = "empty" ]
    /\ UNCHANGED << launcher, rendezvous, script, artifact, fd >>

WriteArtifact(j) ==
    /\ FixtureGoes(j, "write", "sync")
    /\ bytes' = [ bytes EXCEPT ![fd[j]] = "whole" ]
    /\ UNCHANGED << launcher, rendezvous, script, artifact, fd >>

SyncArtifact(j) ==
    /\ FixtureGoes(j, "sync", "ok")
    /\ UNCHANGED << launcher, rendezvous, script, files, fd >>

\* A refusal or a failed call; a failed write may leave a part.
FixtureError(j) ==
    /\ fixture[j] \notin PeerEnded \cup {"idle"}
    /\ fixture' = [ fixture EXCEPT ![j] = "failed" ]
    /\ bytes' \in {bytes} \cup IF fixture[j] = "write" THEN { [ bytes EXCEPT ![fd[j]] = "part" ] } ELSE {}
    /\ UNCHANGED << launcher, rendezvous, script, artifact, fd >>

FixtureStep(j) ==
    \/ CheckFixture(j) \/ ReadManifest(j) \/ OpenArtifact(j) \/ TruncateArtifact(j)
    \/ WriteArtifact(j) \/ SyncArtifact(j) \/ FixtureError(j)

Others == << script, files, fixtures >>

HelperStep(j) == (LaunchStep(j) /\ UNCHANGED << rendezvous, Others >>) \/ Become(j)

PeerStep(p) ==
    /\ (p \in Servers /\ ServerStep(p)) \/ (p \in Clients /\ ClientStep(p))
    /\ UNCHANGED << launcher, Others >>

Next ==
    \/ StartScript \/ DriverStep \/ KillScript
    \/ \E j \in DOMAIN helper : HelperStep(j) \/ (Reschedule(j) /\ UNCHANGED << rendezvous, Others >>)
    \/ \E p \in Peers : PeerStep(p)
    \/ \E j \in FixtureJobs : StartByHand(j) \/ FixtureStep(j)

\* What the processes of the lab do by themselves, their deadlines included.
Progress ==
    \/ DriverStep
    \/ \E j \in DOMAIN helper : HelperStep(j)
    \/ \E p \in Peers : PeerStep(p)
    \/ \E j \in FixtureJobs : FixtureStep(j)

Spec == Init /\ [][Next]_vars

\* The host does not leave all of its runnable processes waiting for ever.
FairSpec == Spec /\ WF_vars(Progress)

-----------------------------------------------------------------------------
(* Properties                                                              *)

\* Every program that gets past its own checks runs inside the lab cgroup, as
\* UID and GID 65534, without groups and with no_new_privs, wherever the Go
\* scheduler put the goroutine of the launcher before it was locked; a fixture
\* started by hand gets nowhere.
LabProgramsConfined ==
    \A j \in Jobs :
        IF j \in FixtureJobs
        THEN fixture[j] \notin { "idle", "check", "failed" } => j \in DOMAIN image /\ image[j] = LabImage
        ELSE place[j] # "idle" => image[j] = LabImage

\* A readiness marker belongs to a server that accepts connections or has ended:
\* a script that saw it is never refused by a server that is still coming up.
ReadyMeansListening ==
    \A q \in Ports :
        ready[q] # Nobody /\ place[ready[q]] \notin PeerEnded => holder[q] = ready[q]

\* A script that passes did what it was written for, although peers of an earlier,
\* killed round may have taken part: its own server got a message, and its artifact
\* is whole unless a fixture of an earlier round has opened it too.
PassedScriptDidItsWork ==
    driver = "passed" /\ round > 0 =>
        /\ \A program \in used : JobOk(Current(program))
        /\ \A program \in used \cap ServerPrograms :
              LET s == Current(program)
              IN  serving[s] # Nobody /\ sent[serving[s]] # Nobody
        /\ "build" \in used /\ (\A j \in FixtureJobs \ {Current("build")} : fd[j] # artifact)
              => bytes[artifact] = "whole"

\* A proof that exits 0 shows the mode of the target that answered it, also when
\* that is a target of an earlier round.
ProofShowsMode ==
    \A c \in Clients :
        place[c] = "ok" /\ mode[c] # Nobody => ExpectFor(mode[peer[c]]) = mode[c]

AtRest == driver \in ScriptEnded /\ \A p \in Peers : place[p] \in PeerEnded \cup {"idle"}

\* Nobody waits for ever: script, servers and clients wait for each other, also
\* for those of a killed round, and every one of these waits is bounded.
EverythingEnds == []<>AtRest
=============================================================================
