------------------------------ MODULE LabProofs ------------------------------
(***************************************************************************)
(* The lab, for every number of rounds, of threads of the Go runtime and   *)
(* of polls, and every assignment of ports: its programs run confined, a   *)
(* marker means a listener, a proof shows the mode of the target that      *)
(* answered it, and a script that passes did its work.                     *)
(***************************************************************************)
EXTENDS Lab, TLAPS

Stages == { "idle", "lock", "check", "join", "no_new_privs", "groups", "gid", "uid", "exec",
            "running", "failed" }

\* Where the helper process of a job still runs.
HelperStages == Stages \ { "idle", "running", "failed" }

Credentials == [ uid : Int, gid : Int, groups : SUBSET Int, no_new_privs : BOOLEAN ]

Helpers == [ command : Commands, locked : BOOLEAN, on : RuntimeThreads,
             cred : [ RuntimeThreads -> Credentials ], cgroup : { "host", "lab" } ]

\* What run() has achieved before it takes a step, on the thread it is locked to.
Prepared(h, step) ==
    /\ h \in Helpers
    /\ step # "lock" => h.locked
    /\ step \in { "no_new_privs", "groups", "gid", "uid", "exec" } => h.cgroup = "lab"
    /\ step \in { "groups", "gid", "uid", "exec" } => h.cred[h.on].no_new_privs
    /\ step \in { "gid", "uid", "exec" } => h.cred[h.on].groups = {}
    /\ step \in { "uid", "exec" } => h.cred[h.on].gid = labUID
    /\ step = "exec" => h.cred[h.on].uid = labUID

FixturePlaces == { "idle", "check", "read", "open", "truncate", "write", "sync", "ok", "failed" }

PeerPlaces == { "idle", "listen", "ready", "accept", "read", "dial", "write", "receive",
                "ok", "failed" }

Programs == { "mock", "callback", "target", "proof", "package", "build" }

DriverPlaces == { "remove", "create", "next", "poll", "wait", "collect", "passed", "failed", "killed" }

ScriptTypes ==
    /\ round \in 0..MaxRounds /\ driver \in DriverPlaces /\ todo \in Seq(Programs)
    /\ driver \notin ScriptEnded => round \in Rounds
    /\ driver \in { "poll", "wait", "collect" } => todo # << >>
    /\ background \in Servers \cup {Nobody}

ProcessTypes ==
    /\ stage \in [ Jobs -> Stages ]
    /\ DOMAIN helper \subseteq Jobs /\ DOMAIN image \subseteq Jobs
    /\ fixture \in [ FixtureJobs -> FixturePlaces ]
    /\ place \in [ Peers -> PeerPlaces ]

LabTypes == ScriptTypes /\ ProcessTypes

\* The launcher: helpers are where their stage says, and programs run as LabImage.
LaunchInv ==
    /\ \A j \in Jobs : j \in DOMAIN helper <=> stage[j] \in HelperStages
    /\ \A j \in DOMAIN helper : Prepared(helper[j], stage[j])
    /\ \A j \in Jobs : stage[j] = "running" => j \in DOMAIN image
    /\ \A j \in DOMAIN image : image[j] = LabImage

\* Programs run after their launcher became them.
RunInv ==
    /\ \A j \in Jobs \ FixtureJobs : place[j] # "idle" => stage[j] = "running"
    /\ \A j \in FixtureJobs : j[2] # 0 /\ fixture[j] # "idle" => stage[j] = "running"
    /\ \A j \in FixtureJobs : fixture[j] \notin { "idle", "check", "failed" } => j \in DOMAIN image

ConfineInv == LabTypes /\ LaunchInv /\ RunInv

-----------------------------------------------------------------------------
\* Who is who in the lab.
LEMMA Names ==
    /\ FixtureJobs \subseteq Jobs
    /\ \A j \in FixtureJobs : j \notin Peers
    /\ \A j \in Jobs \ FixtureJobs : j \in Peers
    /\ \A j \in Jobs : j[1] # "mock"
    /\ \A s \in Servers : s \notin Clients
    /\ Servers \subseteq Peers /\ Clients \subseteq Peers
    /\ \A p \in Peers : p \in Servers \/ p \in Clients
    /\ Nobody \notin Servers /\ Nobody \notin Clients
  <1>1. /\ Servers = ServerPrograms \X Rounds
        /\ Clients = { "callback", "proof" } \X Rounds
        /\ Jobs = ({ "callback", "target", "proof", "package", "build" } \X Rounds)
                      \cup { << "build", 0 >> }
        /\ Nobody \notin Peers \cup Jobs
    BY LabAssumption
  <1>2. \A p \in Servers : p[1] \in { "mock", "target" }
    BY <1>1 DEF ServerPrograms
  <1>3. \A p \in Clients : p[1] \in { "callback", "proof" }
    BY <1>1
  <1>4. \A j \in Jobs : /\ j[1] \in { "callback", "target", "proof", "package", "build" }
                        /\ j[1] \notin { "package", "build" } => j \in Servers \/ j \in Clients
    BY <1>1 DEF ServerPrograms
  <1>5. \A j \in FixtureJobs : j \in Jobs /\ j[1] \in { "build", "package" }
    BY DEF FixtureJobs
  <1>6. \A j \in Jobs \ FixtureJobs : j[1] \notin { "package", "build" }
    BY DEF FixtureJobs
  <1> QED
    BY <1>1, <1>2, <1>3, <1>4, <1>5, <1>6 DEF Peers

\* Steps of run(), each on the state its predecessors left.
LEMMA HelperFacts ==
    ASSUME NEW h, NEW c \in Commands
    PROVE  /\ Prepared(NewHelper(c), "lock")
           /\ Prepared(h, "lock") => Prepared([ h EXCEPT !.locked = TRUE ], "check")
           /\ Prepared(h, "check") => Prepared(h, "join")
           /\ Prepared(h, "join") => Prepared([ h EXCEPT !.cgroup = "lab" ], "no_new_privs")
  <1>1. (CHOOSE t \in RuntimeThreads : TRUE) \in RuntimeThreads
    BY LabAssumption
  <1>2. Root \in Credentials
    BY DEF Root, Credentials
  <1>3. Prepared(NewHelper(c), "lock")
    <2>1. NewHelper(c) \in Helpers
      BY <1>1, <1>2 DEF NewHelper, Helpers
    <2> QED
      BY <2>1 DEF Prepared
  <1>4. Prepared(h, "lock") => Prepared([ h EXCEPT !.locked = TRUE ], "check")
    BY DEF Prepared, Helpers
  <1>5. Prepared(h, "check") => Prepared(h, "join")
    BY DEF Prepared
  <1>6. Prepared(h, "join") => Prepared([ h EXCEPT !.cgroup = "lab" ], "no_new_privs")
    BY DEF Prepared, Helpers
  <1> QED
    BY <1>3, <1>4, <1>5, <1>6

LEMMA ThreadFacts ==
    ASSUME NEW h
    PROVE  /\ Prepared(h, "no_new_privs") => Prepared(OneThread(h, "no_new_privs", TRUE), "groups")
           /\ Prepared(h, "groups") => Prepared(OneThread(h, "groups", {}), "gid")
           /\ Prepared(h, "gid") => Prepared(AllThreads(h, "gid", labUID), "uid")
           /\ Prepared(h, "uid") => Prepared(AllThreads(h, "uid", labUID), "exec")
  <1>1. Prepared(h, "no_new_privs") => Prepared(OneThread(h, "no_new_privs", TRUE), "groups")
    BY DEF Prepared, Helpers, OneThread, Credentials
  <1>2. Prepared(h, "groups") => Prepared(OneThread(h, "groups", {}), "gid")
    BY DEF Prepared, Helpers, OneThread, Credentials
  <1>3. Prepared(h, "gid") => Prepared(AllThreads(h, "gid", labUID), "uid")
    <2> SUFFICES ASSUME Prepared(h, "gid") PROVE Prepared(AllThreads(h, "gid", labUID), "uid")
      OBVIOUS
    <2> DEFINE k == AllThreads(h, "gid", labUID)
    <2>1. /\ h \in Helpers /\ h.locked /\ h.cgroup = "lab" /\ h.on \in RuntimeThreads
          /\ \A t \in RuntimeThreads : h.cred[t] \in Credentials
          /\ h.cred[h.on].no_new_privs /\ h.cred[h.on].groups = {}
      BY DEF Prepared, Helpers
    <2>2. k = [ h EXCEPT !.cred = [ t \in RuntimeThreads |-> [ h.cred[t] EXCEPT !["gid"] = labUID ] ] ]
      BY <2>1 DEF AllThreads, Helpers
    <2> HIDE DEF k
    <2>3. \A t \in RuntimeThreads : [ h.cred[t] EXCEPT !["gid"] = labUID ] \in Credentials
      BY <2>1 DEF Credentials, labUID
    <2>4. k \in Helpers
      BY <2>1, <2>2, <2>3 DEF Helpers
    <2>5. /\ k.locked /\ k.cgroup = "lab" /\ k.on = h.on
          /\ k.cred[h.on] = [ h.cred[h.on] EXCEPT !["gid"] = labUID ]
      BY <2>1, <2>2 DEF Helpers
    <2>6. /\ k.cred[h.on].no_new_privs /\ k.cred[h.on].groups = {}
          /\ k.cred[h.on].gid = labUID
      BY <2>1, <2>5 DEF Credentials
    <2> QED
      BY <2>4, <2>5, <2>6 DEF Prepared, k
  <1>4. Prepared(h, "uid") => Prepared(AllThreads(h, "uid", labUID), "exec")
    BY DEF Prepared, Helpers, AllThreads, Credentials, labUID
  <1> QED
    BY <1>1, <1>2, <1>3, <1>4

-----------------------------------------------------------------------------
(* Next, sorted by what happens to the processes                           *)

\* The script goes on, or is started or killed, and no process takes a step.
ScriptOnly ==
    /\ StartScript \/ RemoveArtifact \/ CreateArtifact \/ Poll \/ WaitProgram \/ WaitServer \/ KillScript
    /\ UNCHANGED << launcher, place, mode, fixture, fd, bytes, sent, reply, peer, serving, backlog, holder >>

\* rpf-mock-server is started without the launcher.
StartMock ==
    /\ StartProgram /\ Head(todo) = "mock"
    /\ Goes(Current("mock"), "listen") /\ background' = Current("mock")
    /\ UNCHANGED << launcher, mode, fixture >>

LaunchJob(j) ==
    /\ StartProgram /\ j \in Jobs /\ j = Current(Head(todo)) /\ \E c \in Commands : Launch(j, c)
    /\ background' \in { background, j } /\ (background' = j => j \in Servers \/ background = j)
    /\ UNCHANGED << place, fixture >>

\* The script ends through its trap.
Trap ==
    /\ Poll \/ WaitProgram \/ WaitServer \/ FinishScript
    /\ \E status \in { "passed", "failed" } : Cleanup(status)

LEMMA CurrentFacts ==
    ASSUME LabTypes, driver \notin ScriptEnded
    PROVE  /\ \A p \in ServerPrograms : Current(p) \in Servers
           /\ \A p \in Programs \ {"mock"} : Current(p) \in Jobs
           /\ \A p \in Programs : Current(p)[1] = p /\ Current(p)[2] = round
  BY LabAssumption DEF LabTypes, ScriptTypes, Current, Programs, ServerPrograms

\* Both scripts start four programs, each once, the mock server first.
LEMMA ScriptFacts ==
    ASSUME NEW s \in Scripts
    PROVE  /\ s \in Seq(Programs) /\ Len(s) = 4
           /\ s[1] = "mock" /\ s[2] # "mock" /\ s[3] # "mock" /\ s[4] # "mock"
           /\ s[2] # s[3] /\ s[2] # s[4] /\ s[3] # s[4]
  <1>1. CASE s = << "mock", "package", "build", "callback" >>
    BY <1>1 DEF Programs
  <1>2. CASE s = << "mock", "callback", "target", "proof" >>
    BY <1>2 DEF Programs
  <1> QED
    BY <1>1, <1>2, LabAssumption

LEMMA TodoFacts ==
    ASSUME LabTypes, todo # << >>
    PROVE  Head(todo) \in Programs /\ Tail(todo) \in Seq(Programs)
  BY DEF LabTypes, ScriptTypes

LEMMA DriverSteps ==
    ASSUME LabTypes, StartScript \/ DriverStep \/ KillScript
    PROVE  ScriptOnly \/ StartMock \/ (\E j \in Jobs : LaunchJob(j)) \/ Trap
  <1> USE DEF launcher, rendezvous, sockets, script, files, fixtures
  <1>1. CASE StartScript \/ RemoveArtifact \/ CreateArtifact \/ KillScript
    BY <1>1 DEF StartScript, RemoveArtifact, CreateArtifact, KillScript, ScriptOnly
  <1>2. CASE StartProgram
    <2>1. driver = "next" /\ todo # << >> /\ Head(todo) \in Programs /\ driver \notin ScriptEnded
      BY <1>2, TodoFacts DEF StartProgram, ScriptEnded
    <2>2. CASE Head(todo) = "mock"
      <3>1. Current("mock")[1] = "mock"
        BY DEF Current
      <3>2. Goes(Current("mock"), "listen") /\ UNCHANGED << launcher, mode, fixture >>
        BY <1>2, <2>2, <3>1 DEF StartProgram
      <3>3. background' = Current("mock")
        BY <1>2, <2>2, <3>1 DEF StartProgram, ServerPrograms
      <3> QED
        BY <1>2, <2>2, <3>2, <3>3 DEF StartMock
    <2>3. CASE Head(todo) # "mock"
      <3> DEFINE j == Current(Head(todo))
      <3>1. j \in Jobs /\ j[1] = Head(todo)
        BY <2>1, <2>3, CurrentFacts
      <3>2. (\E c \in Commands : Launch(j, c)) /\ UNCHANGED << place, fixture >>
        BY <1>2, <2>3, <3>1 DEF StartProgram
      <3>3. /\ background' \in { background, j }
            /\ j[1] \notin ServerPrograms => background' = background
        BY <1>2 DEF StartProgram
      <3>4. j[1] \in ServerPrograms => j \in Servers
        BY <2>1, <3>1, CurrentFacts
      <3> QED
        BY <1>2, <3>1, <3>2, <3>3, <3>4 DEF LaunchJob
    <2> QED
      BY <2>2, <2>3
  <1>3. CASE Poll
    BY <1>3 DEF Poll, Continue, Advance, ScriptOnly, Trap
  <1>4. CASE WaitProgram
    BY <1>4 DEF WaitProgram, Continue, Advance, ScriptOnly, Trap
  <1>5. CASE WaitServer
    BY <1>5 DEF WaitServer, Continue, Advance, ScriptOnly, Trap
  <1>6. CASE FinishScript
    BY <1>6 DEF FinishScript, Trap
  <1> QED
    BY <1>1, <1>2, <1>3, <1>4, <1>5, <1>6 DEF DriverStep

-----------------------------------------------------------------------------
(* Programs run confined                                                   *)

LEMMA LabStart == Init => ConfineInv
  <1> SUFFICES ASSUME Init PROVE ConfineInv
    OBVIOUS
  <1>1. ScriptTypes
    BY LabAssumption DEF Init, ScriptTypes, DriverPlaces, ScriptEnded
  <1>2. ProcessTypes
    BY DEF Init, LauncherInit, RendezvousInit, ProcessTypes, Stages, FixturePlaces, PeerPlaces
  <1>3. LaunchInv
    BY DEF Init, LauncherInit, LaunchInv, HelperStages
  <1>4. RunInv
    BY Names DEF Init, RendezvousInit, RunInv
  <1> QED
    BY <1>1, <1>2, <1>3, <1>4 DEF ConfineInv, LabTypes

LEMMA ScriptKeepsTypes ==
    ASSUME LabTypes, StartScript \/ DriverStep \/ KillScript
    PROVE  ScriptTypes'
  <1> USE DEF LabTypes, ScriptTypes, DriverPlaces, ScriptEnded
  <1>1. CASE StartScript
    <2>1. round' \in Rounds /\ round' \in 0..MaxRounds
      BY <1>1, LabAssumption DEF StartScript, Rounds
    <2>2. PICK s \in Scripts : todo' = s
      BY <1>1 DEF StartScript
    <2>3. s \in Seq(Programs)
      BY <2>2, ScriptFacts
    <2> QED
      BY <1>1, <2>1, <2>2, <2>3 DEF StartScript
  <1>2. CASE RemoveArtifact \/ CreateArtifact \/ KillScript
    BY <1>2 DEF RemoveArtifact, CreateArtifact, KillScript
  <1>3. CASE StartProgram
    <2>1. driver = "next" /\ Head(todo) \in Programs /\ driver' \in { "poll", "wait" }
      BY <1>3, TodoFacts DEF StartProgram
    <2>2. background' \in { background, Current(Head(todo)) }
      BY <1>3 DEF StartProgram
    <2>3. background' # background => Current(Head(todo)) \in Servers
      <3>1. background' # background => Current(Head(todo))[1] \in ServerPrograms
        BY <1>3 DEF StartProgram
      <3> QED
        BY <2>1, <3>1, CurrentFacts
    <2> QED
      BY <1>3, <2>1, <2>2, <2>3 DEF StartProgram
  <1>4. ASSUME NEW status \in { "passed", "failed" }, Cleanup(status) PROVE ScriptTypes'
    BY <1>4 DEF Cleanup
  <1>5. ASSUME NEW to \in { "next", "collect" }, Continue(to), driver \notin ScriptEnded,
               todo # << >>
        PROVE  ScriptTypes'
    <2>1. todo' \in Seq(Programs)
      BY <1>5, TodoFacts DEF Continue, Advance
    <2> QED
      BY <1>5, <2>1 DEF Continue, Advance
  <1>6. CASE Poll
    BY <1>4, <1>5, <1>6 DEF Poll
  <1>7. CASE WaitProgram
    BY <1>4, <1>5, <1>7 DEF WaitProgram
  <1>8. CASE WaitServer
    BY <1>4, <1>8, TodoFacts DEF WaitServer, Advance
  <1>9. CASE FinishScript
    BY <1>4, <1>9 DEF FinishScript
  <1> QED
    BY <1>1, <1>2, <1>3, <1>6, <1>7, <1>8, <1>9 DEF DriverStep

Confined == ProcessTypes /\ LaunchInv /\ RunInv

\* run() goes from one step to the next.
LEMMA StepKeeps ==
    ASSUME Confined, NEW j \in DOMAIN helper, NEW from, NEW to \in HelperStages, NEW h,
           Prepared(h, to), Step(j, from, to, h), UNCHANGED << place, fixture >>
    PROVE  Confined'
  <1>1. j \in Jobs /\ stage[j] \in HelperStages /\ stage \in [ Jobs -> Stages ]
    BY DEF Confined, ProcessTypes, LaunchInv
  <1>2. /\ stage' = [ stage EXCEPT ![j] = to ] /\ UNCHANGED image
        /\ helper' = [ helper EXCEPT ![j] = h ] /\ DOMAIN helper' = DOMAIN helper
    BY DEF Step
  <1>3. stage'[j] = to /\ \A k \in Jobs \ {j} : stage'[k] = stage[k]
    BY <1>1, <1>2
  <1>4. \A k \in DOMAIN helper : helper'[k] = IF k = j THEN h ELSE helper[k]
    BY <1>2
  <1>5. ProcessTypes'
    BY <1>1, <1>2 DEF Confined, ProcessTypes, HelperStages
  <1>6. LaunchInv'
    <2>1. \A k \in Jobs : k \in DOMAIN helper' <=> stage'[k] \in HelperStages
      BY <1>1, <1>2, <1>3 DEF Confined, LaunchInv
    <2>2. \A k \in DOMAIN helper' : Prepared(helper'[k], stage'[k])
      BY <1>2, <1>3, <1>4 DEF Confined, LaunchInv, ProcessTypes
    <2>3. \A k \in Jobs : stage'[k] = "running" => k \in DOMAIN image
      BY <1>3 DEF Confined, LaunchInv, HelperStages
    <2> QED
      BY <1>2, <2>1, <2>2, <2>3 DEF Confined, LaunchInv
  <1>7. RunInv'
    BY <1>1, <1>2, <1>3, Names DEF Confined, RunInv, HelperStages
  <1> QED
    BY <1>5, <1>6, <1>7 DEF Confined

\* The helper of j is gone, because it failed or became its program.
LEMMA GoneKeeps ==
    ASSUME Confined, NEW j \in DOMAIN helper, NEW to \in { "running", "failed" },
           stage' = [ stage EXCEPT ![j] = to ], helper' = Gone(j)
    PROVE  /\ stage' \in [ Jobs -> Stages ] /\ DOMAIN helper' \subseteq Jobs
           /\ \A k \in Jobs : k \in DOMAIN helper' <=> stage'[k] \in HelperStages
           /\ \A k \in DOMAIN helper' : Prepared(helper'[k], stage'[k])
           /\ stage'[j] = to /\ \A k \in Jobs \ {j} : stage'[k] = stage[k]
           /\ j \in Jobs /\ stage[j] \in HelperStages
  <1>1. j \in Jobs /\ stage[j] \in HelperStages /\ stage \in [ Jobs -> Stages ]
    BY DEF Confined, ProcessTypes, LaunchInv
  <1>2. stage'[j] = to /\ \A k \in Jobs \ {j} : stage'[k] = stage[k]
    BY <1>1
  <1>3. DOMAIN helper' = DOMAIN helper \ {j} /\ \A k \in DOMAIN helper \ {j} : helper'[k] = helper[k]
    BY DEF Gone
  <1>4. \A k \in Jobs : k \in DOMAIN helper' <=> stage'[k] \in HelperStages
    BY <1>1, <1>2, <1>3 DEF Confined, LaunchInv, HelperStages
  <1>5. \A k \in DOMAIN helper' : Prepared(helper'[k], stage'[k])
    BY <1>2, <1>3 DEF Confined, LaunchInv, ProcessTypes
  <1> QED
    BY <1>1, <1>2, <1>3, <1>4, <1>5 DEF Stages, Confined, ProcessTypes

LEMMA LaunchStepKeeps ==
    ASSUME Confined, NEW j \in DOMAIN helper, LaunchStep(j), UNCHANGED << place, fixture >>
    PROVE  Confined'
  <1> DEFINE h == helper[j]
  <1>1. Prepared(h, stage[j])
    BY DEF Confined, LaunchInv
  <1>c. PICK c \in Commands : TRUE
    BY <1>1 DEF Prepared, Helpers
  <1> HIDE DEF h
  <1>2. CASE LockOSThread(j)
    BY <1>1, <1>2, <1>c, HelperFacts, StepKeeps DEF LockOSThread, Step, HelperStages, Stages, h
  <1>3. CASE CheckArguments(j)
    BY <1>1, <1>3, <1>c, HelperFacts, StepKeeps DEF CheckArguments, Step, HelperStages, Stages, h
  <1>4. CASE EnterCgroup(j)
    BY <1>1, <1>4, <1>c, HelperFacts, StepKeeps DEF EnterCgroup, Step, HelperStages, Stages, h
  <1>5. CASE SetNoNewPrivs(j)
    BY <1>1, <1>5, ThreadFacts, StepKeeps DEF SetNoNewPrivs, Step, HelperStages, Stages, h
  <1>6. CASE Setgroups(j)
    BY <1>1, <1>6, ThreadFacts, StepKeeps DEF Setgroups, Step, HelperStages, Stages, h
  <1>7. CASE Setgid(j)
    BY <1>1, <1>7, ThreadFacts, StepKeeps DEF Setgid, Step, HelperStages, Stages, h
  <1>8. CASE Setuid(j)
    BY <1>1, <1>8, ThreadFacts, StepKeeps DEF Setuid, Step, HelperStages, Stages, h
  <1>9. CASE LaunchError(j)
    <2>1. stage' = [ stage EXCEPT ![j] = "failed" ] /\ helper' = Gone(j) /\ UNCHANGED image
      BY <1>9 DEF LaunchError
    <2>2. /\ ProcessTypes'
          /\ \A k \in Jobs : stage'[k] = "running" <=> stage[k] = "running"
      BY <2>1, GoneKeeps DEF Confined, ProcessTypes, HelperStages
    <2>3. LaunchInv'
      BY <2>1, <2>2, GoneKeeps DEF Confined, LaunchInv
    <2>4. RunInv'
      BY <2>1, <2>2, Names DEF Confined, RunInv
    <2> QED
      BY <2>2, <2>3, <2>4 DEF Confined
  <1> QED
    BY <1>2, <1>3, <1>4, <1>5, <1>6, <1>7, <1>8, <1>9 DEF LaunchStep

\* exec keeps what the locked thread was given.
LEMMA ExecImage ==
    ASSUME NEW h, Prepared(h, "exec")
    PROVE  [ cgroup |-> h.cgroup, environment |-> "RPF_DISPOSABLE_LAB=1",
             uid |-> h.cred[h.on].uid, gid |-> h.cred[h.on].gid, groups |-> h.cred[h.on].groups,
             no_new_privs |-> h.cred[h.on].no_new_privs ] = LabImage
  <1>1. /\ h.cgroup = "lab" /\ h.cred[h.on].uid = labUID /\ h.cred[h.on].gid = labUID
        /\ h.cred[h.on].groups = {} /\ h.cred[h.on].no_new_privs
    BY DEF Prepared
  <1>2. h.cred[h.on].no_new_privs \in BOOLEAN
    BY DEF Prepared, Helpers, Credentials
  <1>3. h.cred[h.on].no_new_privs = TRUE
    BY <1>1, <1>2
  <1> QED
    BY <1>1, <1>3 DEF LabImage

LEMMA BecomeKeeps ==
    ASSUME Confined, NEW j \in DOMAIN helper, Become(j)
    PROVE  /\ Confined'
           /\ stage[j] = "exec" /\ stage' = [ stage EXCEPT ![j] = "running" ] /\ j \in Jobs
  <1>1. stage[j] = "exec" /\ stage' = [ stage EXCEPT ![j] = "running" ] /\ helper' = Gone(j)
    BY DEF Become, Exec
  <1>2. /\ stage' \in [ Jobs -> Stages ] /\ DOMAIN helper' \subseteq Jobs
        /\ \A k \in Jobs : k \in DOMAIN helper' <=> stage'[k] \in HelperStages
        /\ \A k \in DOMAIN helper' : Prepared(helper'[k], stage'[k])
        /\ stage'[j] = "running" /\ \A k \in Jobs \ {j} : stage'[k] = stage[k]
        /\ j \in Jobs
    BY <1>1, GoneKeeps
  <1>3. Prepared(helper[j], "exec")
    BY <1>1 DEF Confined, LaunchInv
  <1>4. image' = [ k \in DOMAIN image \cup {j} |-> IF k = j THEN LabImage ELSE image[k] ]
    BY <1>3, ExecImage DEF Become, Exec
  <1>5. /\ DOMAIN image' = DOMAIN image \cup {j}
        /\ \A k \in DOMAIN image' : image'[k] = LabImage
    BY <1>4 DEF Confined, LaunchInv
  <1>6. LaunchInv'
    BY <1>2, <1>5 DEF Confined, LaunchInv
  <1>7. CASE j \in FixtureJobs
    <2>1. fixture' = [ fixture EXCEPT ![j] = "check" ] /\ UNCHANGED place
      BY <1>7 DEF Become
    <2>2. ProcessTypes'
      BY <1>2, <1>5, <1>7, <2>1 DEF Confined, ProcessTypes, FixturePlaces
    <2>3. RunInv'
      BY <1>2, <1>5, <1>7, <2>1, Names DEF Confined, RunInv, ProcessTypes
    <2> QED
      BY <1>1, <1>2, <1>6, <2>2, <2>3 DEF Confined
  <1>8. CASE j \notin FixtureJobs
    <2>1. /\ UNCHANGED fixture /\ j \in Peers
          /\ \E to \in { "listen", "dial" } : place' = [ place EXCEPT ![j] = to ]
      BY <1>2, <1>8, Names DEF Become, Goes
    <2>2. ProcessTypes'
      BY <1>2, <1>5, <2>1 DEF Confined, ProcessTypes, PeerPlaces
    <2>3. RunInv'
      BY <1>2, <1>5, <1>8, <2>1, Names DEF Confined, RunInv, ProcessTypes
    <2> QED
      BY <1>1, <1>2, <1>6, <2>2, <2>3 DEF Confined
  <1> QED
    BY <1>7, <1>8

\* The goroutine moves to another thread only before it is locked to its own.
LEMMA RescheduleKeeps ==
    ASSUME Confined, NEW j \in DOMAIN helper, Reschedule(j), UNCHANGED << place, fixture >>
    PROVE  Confined'
  <1> DEFINE h == helper[j]
  <1>1. PICK t \in RuntimeThreads : helper' = [ helper EXCEPT ![j].on = t ]
    BY DEF Reschedule
  <1>2. UNCHANGED << stage, image >> /\ ~h.locked
    BY DEF Reschedule
  <1>3. Prepared(h, stage[j]) /\ stage[j] = "lock"
    BY <1>2 DEF Confined, LaunchInv, Prepared
  <1>4. Prepared([ h EXCEPT !.on = t ], "lock")
    BY <1>3 DEF Prepared, Helpers
  <1>5. helper' = [ helper EXCEPT ![j] = [ h EXCEPT !.on = t ] ]
    BY <1>1
  <1>6. \A k \in DOMAIN helper' : Prepared(helper'[k], stage[k])
    BY <1>3, <1>4, <1>5 DEF Confined, LaunchInv
  <1>7. LaunchInv'
    BY <1>2, <1>5, <1>6 DEF Confined, LaunchInv
  <1> QED
    BY <1>2, <1>5, <1>7 DEF Confined, ProcessTypes, RunInv

\* A peer that takes a step was started before.
PeerMoves(p) ==
    /\ place[p] # "idle" /\ UNCHANGED << launcher, Others >>
    /\ \E to \in PeerPlaces \ {"idle"} : place' = [ place EXCEPT ![p] = to ]

LEMMA PeerSteps ==
    ASSUME NEW p \in Peers, PeerStep(p)
    PROVE  PeerMoves(p)
  <1> USE DEF PeerMoves, PeerPlaces, Goes, ServerEnds
  <1>1. UNCHANGED << launcher, Others >>
    BY DEF PeerStep
  <1>2. CASE ServerStep(p)
    BY <1>1, <1>2 DEF ServerStep, Listen, CreateReady, Accept, ReadMessage, ServerError
  <1>3. CASE ClientStep(p)
    BY <1>1, <1>3 DEF ClientStep, Dial, Write, Receive, ReceiveError
  <1> QED
    BY <1>2, <1>3 DEF PeerStep

LEMMA PeerKeeps ==
    ASSUME Confined, NEW p \in Peers, PeerMoves(p)
    PROVE  Confined'
  <1>1. PICK to \in PeerPlaces \ {"idle"} : place' = [ place EXCEPT ![p] = to ]
    BY DEF PeerMoves
  <1>2. place[p] # "idle" /\ UNCHANGED << stage, helper, image, fixture >>
    BY DEF PeerMoves, launcher, Others, fixtures
  <1>3. ProcessTypes'
    BY <1>1, <1>2 DEF Confined, ProcessTypes
  <1>4. RunInv'
    BY <1>1, <1>2, Names DEF Confined, RunInv, ProcessTypes
  <1> QED
    BY <1>2, <1>3, <1>4 DEF Confined, LaunchInv

\* A fixture gets past its check only with the environment of the launcher.
LEMMA FixtureKeeps ==
    ASSUME Confined, NEW j \in FixtureJobs, StartByHand(j) \/ FixtureStep(j)
    PROVE  Confined'
  <1>1. UNCHANGED << stage, helper, image, place >>
    BY DEF StartByHand, FixtureStep, CheckFixture, ReadManifest, OpenArtifact, TruncateArtifact,
           WriteArtifact, SyncArtifact, FixtureError, launcher, rendezvous
  <1>2. \E to \in FixturePlaces : fixture' = [ fixture EXCEPT ![j] = to ]
    BY DEF StartByHand, FixtureStep, CheckFixture, ReadManifest, OpenArtifact, TruncateArtifact,
           WriteArtifact, SyncArtifact, FixtureError, FixtureGoes, FixturePlaces
  <1>3. ProcessTypes'
    BY <1>1, <1>2 DEF Confined, ProcessTypes
  <1>4. j[2] = 0 \/ fixture[j] # "idle"
    BY DEF StartByHand, FixtureStep, CheckFixture, ReadManifest, OpenArtifact, TruncateArtifact,
           WriteArtifact, SyncArtifact, FixtureError, FixtureGoes, FixturePlaces
  <1>5. fixture'[j] \notin { "idle", "check", "failed" } => j \in DOMAIN image
    <2>1. CASE StartByHand(j) \/ FixtureError(j)
      BY <2>1 DEF StartByHand, FixtureError, Confined, ProcessTypes
    <2>2. CASE CheckFixture(j)
      BY <2>2 DEF CheckFixture, Environment
    <2>3. CASE ReadManifest(j) \/ OpenArtifact(j) \/ TruncateArtifact(j) \/ WriteArtifact(j) \/ SyncArtifact(j)
      BY <2>3 DEF ReadManifest, OpenArtifact, TruncateArtifact, WriteArtifact, SyncArtifact,
                  FixtureGoes, Confined, RunInv
    <2> QED
      BY <2>1, <2>2, <2>3 DEF FixtureStep
  <1>6. RunInv'
    BY <1>1, <1>2, <1>4, <1>5 DEF Confined, RunInv, ProcessTypes
  <1> QED
    BY <1>1, <1>3, <1>6 DEF Confined, LaunchInv

LEMMA LaunchKeeps ==
    ASSUME Confined, NEW j \in Jobs, NEW c \in Commands, Launch(j, c), UNCHANGED << place, fixture >>
    PROVE  Confined'
  <1>1. /\ stage[j] = "idle" /\ stage' = [ stage EXCEPT ![j] = "lock" ] /\ UNCHANGED image
        /\ DOMAIN helper' = DOMAIN helper \cup {j} /\ helper'[j] = NewHelper(c)
        /\ \A k \in DOMAIN helper \ {j} : helper'[k] = helper[k]
    BY DEF Launch
  <1>2. stage'[j] = "lock" /\ \A k \in Jobs \ {j} : stage'[k] = stage[k]
    BY <1>1 DEF Confined, ProcessTypes
  <1>3. Prepared(NewHelper(c), "lock")
    BY HelperFacts
  <1>4. ProcessTypes'
    BY <1>1 DEF Confined, ProcessTypes, Stages
  <1>5. LaunchInv'
    <2>1. \A k \in Jobs : k \in DOMAIN helper' <=> stage'[k] \in HelperStages
      BY <1>1, <1>2 DEF Confined, LaunchInv, HelperStages, Stages
    <2>2. \A k \in DOMAIN helper' : Prepared(helper'[k], stage'[k])
      BY <1>1, <1>2, <1>3 DEF Confined, LaunchInv, ProcessTypes
    <2> QED
      BY <1>1, <1>2, <2>1, <2>2 DEF Confined, LaunchInv
  <1>6. RunInv'
    BY <1>1, <1>2, Names DEF Confined, RunInv
  <1> QED
    BY <1>4, <1>5, <1>6 DEF Confined

LEMMA CleanupKeeps ==
    ASSUME Confined, LabTypes, NEW status, Cleanup(status)
    PROVE  Confined'
  <1>1. UNCHANGED << image, fixture >>
    BY DEF Cleanup, fixtures
  <1>2. \/ /\ UNCHANGED stage /\ DOMAIN helper' = DOMAIN helper
           /\ \A k \in DOMAIN helper : helper'[k] = helper[k]
        \/ background \in DOMAIN helper /\ stage' = [ stage EXCEPT ![background] = "failed" ]
              /\ helper' = Gone(background)
    BY DEF Cleanup, Gone
  <1>3. \/ UNCHANGED place
        \/ background \in Peers /\ place[background] # "idle"
              /\ place' = [ place EXCEPT ![background] = "failed" ]
    BY Names DEF Cleanup, ServerEnds, Goes, LabTypes, ScriptTypes
  <1>4. /\ stage' \in [ Jobs -> Stages ] /\ DOMAIN helper' \subseteq Jobs
        /\ \A k \in Jobs : k \in DOMAIN helper' <=> stage'[k] \in HelperStages
        /\ \A k \in DOMAIN helper' : Prepared(helper'[k], stage'[k])
        /\ \A k \in Jobs : stage'[k] = "running" <=> stage[k] = "running"
    <2>1. CASE /\ UNCHANGED stage /\ DOMAIN helper' = DOMAIN helper
               /\ \A k \in DOMAIN helper : helper'[k] = helper[k]
      BY <2>1 DEF Confined, ProcessTypes, LaunchInv
    <2>2. CASE background \in DOMAIN helper /\ stage' = [ stage EXCEPT ![background] = "failed" ]
                  /\ helper' = Gone(background)
      BY <2>2, GoneKeeps DEF HelperStages
    <2> QED
      BY <1>2, <2>1, <2>2
  <1>5. ProcessTypes'
    BY <1>1, <1>3, <1>4 DEF Confined, ProcessTypes, PeerPlaces
  <1>6. LaunchInv'
    BY <1>1, <1>4 DEF Confined, LaunchInv
  <1>7. RunInv'
    BY <1>1, <1>3, <1>4, Names DEF Confined, RunInv, ProcessTypes
  <1> QED
    BY <1>5, <1>6, <1>7 DEF Confined

LEMMA MockKeeps ==
    ASSUME Confined, LabTypes, StartMock
    PROVE  Confined' /\ Current("mock") \in Servers
  <1>1. Current("mock") \in Servers /\ Current("mock") \notin Jobs
    <2>1. driver \notin ScriptEnded
      BY DEF StartMock, StartProgram, ScriptEnded
    <2>2. Current("mock") \in Servers /\ Current("mock")[1] = "mock"
      BY <2>1, CurrentFacts DEF ServerPrograms, Programs
    <2> QED
      BY <2>2, Names
  <1>2. /\ UNCHANGED << stage, helper, image, fixture >>
        /\ place' = [ place EXCEPT ![Current("mock")] = "listen" ]
    BY DEF StartMock, launcher, Goes
  <1>3. ProcessTypes'
    BY <1>1, <1>2 DEF Confined, ProcessTypes, PeerPlaces
  <1>4. RunInv'
    BY <1>1, <1>2, Names DEF Confined, RunInv, ProcessTypes
  <1> QED
    BY <1>1, <1>2, <1>3, <1>4 DEF Confined, LaunchInv

LEMMA ConfineStep == ConfineInv /\ [Next]_vars => ConfineInv'
  <1> SUFFICES ASSUME ConfineInv, [Next]_vars PROVE ConfineInv'
    OBVIOUS
  <1>1. Confined /\ LabTypes
    BY DEF ConfineInv, Confined, LabTypes
  <1>2. ScriptTypes' /\ Confined' => ConfineInv'
    BY DEF ConfineInv, Confined, LabTypes
  <1>3. CASE StartScript \/ DriverStep \/ KillScript
    <2>1. ScriptTypes'
      BY <1>1, <1>3, ScriptKeepsTypes
    <2>2. CASE ScriptOnly
      BY <1>1, <1>2, <2>1, <2>2 DEF ScriptOnly, launcher, Confined, ProcessTypes, LaunchInv, RunInv
    <2>3. CASE StartMock
      BY <1>1, <1>2, <2>1, <2>3, MockKeeps
    <2>4. ASSUME NEW j \in Jobs, LaunchJob(j) PROVE ConfineInv'
      BY <1>1, <1>2, <2>1, <2>4, LaunchKeeps DEF LaunchJob
    <2>5. CASE Trap
      BY <1>1, <1>2, <2>1, <2>5, CleanupKeeps DEF Trap
    <2> QED
      BY <1>1, <1>3, <2>2, <2>3, <2>4, <2>5, DriverSteps
  <1>4. UNCHANGED script => ScriptTypes'
    BY <1>1 DEF script, LabTypes, ScriptTypes
  <1>5. ASSUME NEW j \in DOMAIN helper,
               HelperStep(j) \/ (Reschedule(j) /\ UNCHANGED << rendezvous, Others >>)
        PROVE  ConfineInv'
    <2>1. UNCHANGED script
      BY <1>5 DEF HelperStep, Become, Others
    <2>2. CASE LaunchStep(j) /\ UNCHANGED << rendezvous, Others >>
      BY <1>1, <1>2, <1>4, <2>1, <2>2, LaunchStepKeeps DEF rendezvous, Others, fixtures
    <2>3. CASE Become(j)
      BY <1>1, <1>2, <1>4, <2>1, <2>3, BecomeKeeps
    <2>4. CASE Reschedule(j) /\ UNCHANGED << rendezvous, Others >>
      BY <1>1, <1>2, <1>4, <2>1, <2>4, RescheduleKeeps DEF rendezvous, Others, fixtures
    <2> QED
      BY <1>5, <2>2, <2>3, <2>4 DEF HelperStep
  <1>6. ASSUME NEW p \in Peers, PeerStep(p) PROVE ConfineInv'
    BY <1>1, <1>2, <1>4, <1>6, PeerSteps, PeerKeeps DEF PeerMoves, Others
  <1>7. ASSUME NEW j \in FixtureJobs, StartByHand(j) \/ FixtureStep(j) PROVE ConfineInv'
    <2>1. UNCHANGED script
      BY <1>7 DEF StartByHand, FixtureStep, CheckFixture, ReadManifest, OpenArtifact,
                  TruncateArtifact, WriteArtifact, SyncArtifact, FixtureError
    <2> QED
      BY <1>1, <1>2, <1>4, <1>7, <2>1, FixtureKeeps
  <1>8. CASE UNCHANGED vars
    BY <1>1, <1>2, <1>4, <1>8 DEF vars, launcher, rendezvous, fixtures,
       Confined, ProcessTypes, LaunchInv, RunInv
  <1> QED
    BY <1>3, <1>5, <1>6, <1>7, <1>8 DEF Next

\* Every program of the lab that gets past its own checks runs inside the lab
\* cgroup with the credentials rpf-cgroup-enter is meant to leave it, for any
\* number of runtime threads the goroutine may be moved between.
THEOREM ProgramsRunConfined == Spec => []LabProgramsConfined
  <1>1. ConfineInv => LabProgramsConfined
    BY Names DEF ConfineInv, LaunchInv, RunInv, LabProgramsConfined
  <1> QED
    BY <1>1, LabStart, ConfineStep, PTL DEF Spec

-----------------------------------------------------------------------------
(* Who is idle, and where a script stands                                  *)

Helping(j) ==
    /\ LaunchStep(j) \/ Reschedule(j)
    /\ UNCHANGED << rendezvous, Others >>

ScriptStep == StartScript \/ DriverStep \/ KillScript

HandStep(j) == StartByHand(j) \/ FixtureStep(j)

\* The steps of the lab, by process.
LEMMA LabSteps ==
    ASSUME LabTypes, [Next]_vars
    PROVE  \/ ScriptStep /\ (ScriptOnly \/ StartMock \/ (\E j \in Jobs : LaunchJob(j)) \/ Trap)
           \/ \E j \in DOMAIN helper : Helping(j)
           \/ \E j \in DOMAIN helper : Become(j)
           \/ \E p \in Peers : PeerStep(p)
           \/ \E j \in FixtureJobs : HandStep(j)
           \/ UNCHANGED vars
  <1>1. CASE ScriptStep
    BY <1>1, DriverSteps DEF ScriptStep
  <1>2. ASSUME NEW j \in DOMAIN helper,
               HelperStep(j) \/ (Reschedule(j) /\ UNCHANGED << rendezvous, Others >>)
        PROVE  Helping(j) \/ Become(j)
    BY <1>2 DEF HelperStep, Helping
  <1> QED
    BY <1>1, <1>2 DEF Next, ScriptStep, HandStep

LEMMA HandFacts ==
    ASSUME NEW j \in FixtureJobs, HandStep(j)
    PROVE  UNCHANGED << launcher, rendezvous, script, artifact >>
  BY DEF HandStep, StartByHand, FixtureStep, CheckFixture, ReadManifest, OpenArtifact,
         TruncateArtifact, WriteArtifact, SyncArtifact, FixtureError, files

\* A process leaves idle only when a script starts it, or its launcher becomes it.
LEMMA StageIdle ==
    ASSUME ConfineInv, [Next]_vars, NEW k \in Jobs
    PROVE  /\ stage[k] = "idle" /\ stage'[k] # "idle" => LaunchJob(k)
           /\ stage[k] # "idle" => stage'[k] # "idle"
  <1>1. LabTypes /\ stage \in [ Jobs -> Stages ] /\ \A j \in DOMAIN helper : stage[j] # "idle" /\ j \in Jobs
    BY DEF ConfineInv, LabTypes, ProcessTypes, LaunchInv, HelperStages
  <1>2. CASE ScriptOnly \/ StartMock \/ UNCHANGED vars
    BY <1>2 DEF ScriptOnly, StartMock, vars, launcher
  <1>3. ASSUME NEW j \in Jobs, LaunchJob(j)
        PROVE  /\ stage[k] = "idle" /\ stage'[k] # "idle" => LaunchJob(k)
               /\ stage[k] # "idle" => stage'[k] # "idle"
    <2>1. \A i \in Jobs \ {j} : stage'[i] = stage[i]
      BY <1>1, <1>3 DEF LaunchJob, Launch
    <2>2. stage[j] = "idle"
      BY <1>3 DEF LaunchJob, Launch
    <2>3. CASE k = j
      BY <1>3, <2>2, <2>3
    <2> QED
      BY <2>1, <2>3
  <1>4. CASE Trap
    BY <1>1, <1>4 DEF Trap, Cleanup
  <1>5. ASSUME NEW j \in DOMAIN helper, Helping(j)
        PROVE  (stage[k] = "idle") <=> (stage'[k] = "idle")
    BY <1>1, <1>5 DEF Helping, LaunchStep, Reschedule, Step, LockOSThread, CheckArguments, EnterCgroup,
       SetNoNewPrivs, Setgroups, Setgid, Setuid, LaunchError
  <1>6. ASSUME NEW j \in DOMAIN helper, Become(j)
        PROVE  (stage[k] = "idle") <=> (stage'[k] = "idle")
    BY <1>1, <1>6 DEF Become, Exec
  <1>7. ASSUME NEW p \in Peers, PeerStep(p) PROVE UNCHANGED stage
    BY <1>7 DEF PeerStep, launcher
  <1>8. ASSUME NEW j \in FixtureJobs, HandStep(j) PROVE UNCHANGED stage
    BY <1>8, HandFacts DEF launcher
  <1> QED
    BY <1>1, <1>2, <1>3, <1>4, <1>5, <1>6, <1>7, <1>8, LabSteps

LEMMA PlaceIdle ==
    ASSUME ConfineInv, [Next]_vars, NEW k \in Peers
    PROVE  /\ place[k] = "idle" /\ place'[k] # "idle" =>
                 (StartMock /\ k = Current("mock")) \/ (k \in DOMAIN helper /\ Become(k))
           /\ place[k] # "idle" => place'[k] # "idle"
  <1>1. LabTypes /\ place \in [ Peers -> PeerPlaces ]
    BY DEF ConfineInv, LabTypes, ProcessTypes
  <1>2. CASE ScriptOnly \/ UNCHANGED vars
    BY <1>2 DEF ScriptOnly, vars, rendezvous
  <1>3. CASE StartMock
    BY <1>1, <1>3 DEF StartMock, Goes
  <1>4. ASSUME NEW j \in Jobs, LaunchJob(j) PROVE UNCHANGED place
    BY <1>4 DEF LaunchJob
  <1>5. CASE Trap
    BY <1>1, <1>5 DEF Trap, Cleanup, ServerEnds, Goes
  <1>6. ASSUME NEW j \in DOMAIN helper, Helping(j) PROVE UNCHANGED place
    BY <1>6 DEF Helping, rendezvous
  <1>7. ASSUME NEW j \in DOMAIN helper, Become(j)
        PROVE  /\ place[k] = "idle" /\ place'[k] # "idle" => k = j
               /\ place[k] # "idle" => place'[k] # "idle"
    BY <1>1, <1>7 DEF Become, Goes
  <1>8. ASSUME NEW p \in Peers, PeerStep(p)
        PROVE  (place[k] = "idle") <=> (place'[k] = "idle")
    BY <1>1, <1>8, PeerSteps DEF PeerMoves
  <1>9. ASSUME NEW j \in FixtureJobs, HandStep(j) PROVE UNCHANGED place
    BY <1>9, HandFacts DEF rendezvous
  <1> QED
    BY <1>1, <1>2, <1>3, <1>4, <1>5, <1>6, <1>7, <1>8, <1>9, LabSteps

\* Nothing of a later round was started, and nothing of this one before the
\* artifact is in place; what is started by hand has no launcher.
RoundInv ==
    /\ \A j \in Jobs : j[2] = 0 => stage[j] = "idle"
    /\ \A j \in Jobs : j[2] > round => stage[j] = "idle"
    /\ \A p \in Peers : p[2] > round => place[p] = "idle"
    /\ driver \in { "remove", "create" } => \A j \in Jobs : j[2] = round => stage[j] = "idle"

\* What is still to be started is the end of script s.
Position(s) ==
    /\ used = { s[i] : i \in 1..4 } /\ Len(todo) <= 4
    /\ \A i \in 1..Len(todo) : todo[i] = s[4 - Len(todo) + i]
    /\ driver \in { "remove", "create" } => Len(todo) = 4

PositionInv ==
    /\ round > 0 => \E s \in Scripts : Position(s)
    /\ round > 0 /\ Len(todo) = 4 /\ driver \in { "remove", "create", "next" } =>
          place[Current("mock")] = "idle"

LEMMA SecondFacts ==
    /\ \A j \in Jobs : j[2] \in Int
    /\ \A p \in Peers : p[2] \in Int
  BY LabAssumption DEF Rounds, Peers

\* What a step does to the script.
LEMMA ScriptMoves ==
    ASSUME LabTypes, ScriptStep
    PROVE  \/ StartScript
           \/ UNCHANGED << round, used, todo >> /\ driver \notin ScriptEnded
                 /\ driver' \notin { "remove" } /\ (driver' = "create" => driver = "remove")
                 /\ (driver' = "next" => driver = "create")
           \/ /\ driver \in { "poll", "wait", "collect" } /\ driver' = "next"
              /\ todo # << >> /\ todo' = Tail(todo) /\ UNCHANGED << round, used >>
  <1> USE DEF ScriptEnded
  <1>1. CASE RemoveArtifact \/ CreateArtifact \/ StartProgram \/ KillScript
    BY <1>1 DEF RemoveArtifact, CreateArtifact, StartProgram, KillScript
  <1>2. CASE Poll
    BY <1>2 DEF Poll, Continue, Advance, Cleanup, LabTypes, ScriptTypes
  <1>3. CASE WaitProgram
    BY <1>3 DEF WaitProgram, Continue, Advance, Cleanup, LabTypes, ScriptTypes
  <1>4. CASE WaitServer
    BY <1>4 DEF WaitServer, Continue, Advance, Cleanup, LabTypes, ScriptTypes
  <1>5. CASE FinishScript
    BY <1>5 DEF FinishScript, Cleanup
  <1> QED
    BY <1>1, <1>2, <1>3, <1>4, <1>5 DEF ScriptStep, DriverStep

LEMMA ScriptAlone ==
    ASSUME LabTypes, [Next]_vars
    PROVE  ScriptStep \/ UNCHANGED script
  <1>1. ASSUME NEW j \in DOMAIN helper, Helping(j) PROVE UNCHANGED script
    BY <1>1 DEF Helping, Others
  <1>2. ASSUME NEW j \in DOMAIN helper, Become(j) PROVE UNCHANGED script
    BY <1>2 DEF Become
  <1>3. ASSUME NEW p \in Peers, PeerStep(p) PROVE UNCHANGED script
    BY <1>3 DEF PeerStep, Others
  <1>4. ASSUME NEW j \in FixtureJobs, HandStep(j) PROVE UNCHANGED script
    BY <1>4, HandFacts
  <1>5. UNCHANGED vars => UNCHANGED script
    BY DEF vars
  <1> QED
    BY <1>1, <1>2, <1>3, <1>4, <1>5, LabSteps

LEMMA RoundKeeps ==
    ASSUME ConfineInv, RoundInv, [Next]_vars
    PROVE  RoundInv'
  <1>1. LabTypes /\ round \in 0..MaxRounds
    BY DEF ConfineInv, LabTypes, ScriptTypes
  <1>2. /\ round' = round \/ (StartScript /\ round' = round + 1)
        /\ driver' \in { "remove", "create" } =>
              StartScript \/ (driver \in { "remove", "create" } /\ round' = round)
    <2>1. CASE ScriptStep
      BY <1>1, <2>1, ScriptMoves DEF StartScript
    <2> QED
      BY <1>1, <2>1, ScriptAlone DEF script
  <1>3. \A j \in Jobs : LaunchJob(j) => driver = "next" /\ driver' \notin { "remove", "create" } /\ j[2] = round /\ round' = round
    BY DEF LaunchJob, StartProgram, Current
  <1>4. StartScript => driver \in ScriptEnded /\ round' = round + 1
    BY DEF StartScript
  <1>5. \A j \in Jobs : (j[2] > round' => stage'[j] = "idle")
    <2> SUFFICES ASSUME NEW j \in Jobs, j[2] > round' PROVE stage'[j] = "idle"
      OBVIOUS
    <2>1. j[2] > round /\ j[2] # round
      BY <1>1, <1>2, SecondFacts
    <2>2. stage[j] = "idle" /\ ~LaunchJob(j)
      BY <1>3, <2>1 DEF RoundInv
    <2> QED
      BY <2>2, StageIdle
  <1>6. \A p \in Peers : (p[2] > round' => place'[p] = "idle")
    <2> SUFFICES ASSUME NEW p \in Peers, p[2] > round' PROVE place'[p] = "idle"
      OBVIOUS
    <2>1. p[2] > round /\ p[2] # round
      BY <1>1, <1>2, SecondFacts
    <2>2. place[p] = "idle" /\ p # Current("mock")
      BY <2>1 DEF RoundInv, Current
    <2>3. p \notin DOMAIN helper
      BY <2>1 DEF RoundInv, ConfineInv, LabTypes, ProcessTypes, LaunchInv, HelperStages
    <2> QED
      BY <2>2, <2>3, PlaceIdle
  <1>7. driver' \in { "remove", "create" } => \A j \in Jobs : j[2] = round' => stage'[j] = "idle"
    <2> SUFFICES ASSUME driver' \in { "remove", "create" }, NEW j \in Jobs, j[2] = round'
                 PROVE  stage'[j] = "idle"
      OBVIOUS
    <2>1. stage[j] = "idle"
      BY <1>1, <1>2, <1>4, SecondFacts DEF RoundInv
    <2>2. ~LaunchJob(j)
      BY <1>3
    <2> QED
      BY <2>1, <2>2, StageIdle
  <1>8. \A j \in Jobs : j[2] = 0 => stage'[j] = "idle"
    <2>1. driver = "next" => round # 0
      BY <1>1 DEF LabTypes, ScriptTypes, ScriptEnded, Rounds
    <2> QED
      BY <1>3, <2>1, StageIdle DEF RoundInv
  <1> QED
    BY <1>5, <1>6, <1>7, <1>8 DEF RoundInv

LEMMA TailFacts ==
    ASSUME NEW s \in Seq(Programs), s # << >>
    PROVE  /\ Len(Tail(s)) = Len(s) - 1 /\ Len(s) \in Nat \ {0} /\ Head(s) = s[1]
           /\ \A i \in 1..(Len(s) - 1) : Tail(s)[i] = s[i + 1]
  <1>1. Len(s) \in Nat /\ Len(s) # 0 /\ Head(s) = s[1]
    OBVIOUS
  <1>2. Len(Tail(s)) = Len(s) - 1
    BY <1>1
  <1> QED
    BY <1>1, <1>2

\* The script goes on with the next program, or starts at its first.
LEMMA PositionMoves ==
    ASSUME LabTypes, ScriptStep, NEW s \in Scripts, Position(s), ~StartScript
    PROVE  Position(s)'
  <1>1. todo \in Seq(Programs) /\ Len(todo) \in Nat
    BY DEF LabTypes, ScriptTypes
  <1>2. CASE UNCHANGED << round, used, todo >> /\ driver' # "remove" /\ (driver' = "create" => driver = "remove")
    BY <1>2 DEF Position
  <1>3. CASE driver' = "next" /\ todo # << >> /\ todo' = Tail(todo) /\ UNCHANGED << round, used >>
    <2>1. /\ Len(todo') = Len(todo) - 1 /\ Len(todo) # 0
          /\ \A i \in 1..(Len(todo) - 1) : todo'[i] = todo[i + 1]
      BY <1>1, <1>3, TailFacts
    <2>2. \A i \in 1..Len(todo') : todo'[i] = s[4 - Len(todo') + i]
      <3> SUFFICES ASSUME NEW i \in 1..Len(todo') PROVE todo'[i] = s[4 - Len(todo') + i]
        OBVIOUS
      <3>1. i + 1 \in 1..Len(todo) /\ todo'[i] = todo[i + 1]
        BY <1>1, <2>1
      <3>2. todo[i + 1] = s[4 - Len(todo) + (i + 1)]
        BY <3>1 DEF Position
      <3>3. 4 - Len(todo) + (i + 1) = 4 - Len(todo') + i
        BY <1>1, <2>1
      <3> QED
        BY <3>1, <3>2, <3>3
    <2> QED
      BY <1>1, <1>3, <2>1, <2>2 DEF Position
  <1> QED
    BY <1>2, <1>3, ScriptMoves

LEMMA PositionStarts ==
    ASSUME StartScript
    PROVE  \E s \in Scripts : Position(s)' /\ todo' = s /\ Len(todo') = 4
  <1>1. PICK s \in Scripts : todo' = s /\ used' = { s[i] : i \in 1..Len(s) }
    BY DEF StartScript
  <1>2. s \in Seq(Programs) /\ Len(s) = 4
    BY ScriptFacts
  <1>3. \A i \in 1..4 : todo'[i] = s[4 - 4 + i]
    BY <1>1
  <1> QED
    BY <1>1, <1>2, <1>3 DEF Position

LEMMA PositionKeeps ==
    ASSUME ConfineInv, RoundInv, PositionInv, [Next]_vars
    PROVE  PositionInv'
  <1>1. LabTypes /\ round \in 0..MaxRounds /\ Len(todo) \in Nat /\ todo \in Seq(Programs)
    BY DEF ConfineInv, LabTypes, ScriptTypes
  <1>2. round' > 0 => \E s \in Scripts : Position(s)'
    <2>1. CASE StartScript
      BY <2>1, PositionStarts
    <2>2. CASE ScriptStep /\ ~StartScript
      <3>1. UNCHANGED round
        BY <1>1, <2>2, ScriptMoves
      <3> QED
        BY <1>1, <2>2, <3>1, PositionMoves DEF PositionInv
    <2>3. CASE UNCHANGED script
      BY <2>3 DEF script, PositionInv, Position
    <2> QED
      BY <1>1, <2>1, <2>2, <2>3, ScriptAlone
  <1>3. ASSUME round' > 0, Len(todo') = 4, driver' \in { "remove", "create", "next" }
        PROVE  place'[<< "mock", round' >>] = "idle"
    <2> DEFINE m == << "mock", round' >>
    <2>1. m \in Peers /\ m \notin DOMAIN helper
      <3>1. round' \in Rounds
        BY <1>1, <1>3, ScriptKeepsTypes, ScriptAlone
           DEF script, ScriptTypes, LabTypes, Rounds, ScriptStep
      <3>2. m \in Servers
        BY <3>1, LabAssumption DEF ServerPrograms
      <3> QED
        BY <3>2, Names DEF ConfineInv, LabTypes, ProcessTypes
    <2>2. place[m] = "idle" /\ ~(StartMock /\ m = Current("mock"))
      <3>1. CASE StartScript
        <4>1. round' = round + 1 /\ m[2] > round
          BY <1>1, <3>1 DEF StartScript
        <4> QED
          BY <2>1, <4>1 DEF RoundInv, Current
      <3>2. CASE ScriptStep /\ ~StartScript
        <4>1. UNCHANGED << round, todo >> /\ driver \in { "remove", "create" }
          <5>1. Len(Tail(todo)) = Len(todo) - 1 \/ todo = << >>
            BY <1>1, TailFacts
          <5>2. Len(todo) <= 4 \/ round = 0
            BY <1>1 DEF PositionInv, Position
          <5>3. round' = round
            BY <1>1, <3>2, ScriptMoves
          <5>4. ~(todo # << >> /\ todo' = Tail(todo))
            <6>1. round # 0
              BY <1>3, <5>3
            <6>2. Len(todo) \in Nat /\ Len(todo) <= 4
              BY <1>1, <5>2, <6>1
            <6>3. Len(todo) - 1 # 4
              <7>1. \A n \in Nat : n <= 4 => n - 1 # 4
                OBVIOUS
              <7> QED
                BY <6>2, <7>1
            <6> QED
              BY <1>3, <5>1, <6>3
          <5> QED
            BY <1>1, <1>3, <3>2, <5>4, ScriptMoves
        <4>2. m = Current("mock") /\ ~StartMock
          BY <4>1 DEF Current, StartMock, StartProgram
        <4> QED
          BY <1>1, <1>3, <4>1, <4>2 DEF PositionInv
      <3>3. CASE UNCHANGED script
        <4>1. m = Current("mock") /\ UNCHANGED << round, todo, driver >>
          BY <3>3 DEF Current, script
        <4>2. ~StartMock
          BY <1>3, <4>1 DEF StartMock, StartProgram
        <4> QED
          BY <1>3, <4>1, <4>2 DEF PositionInv
      <3> QED
        BY <1>1, <3>1, <3>2, <3>3, ScriptAlone
    <2> QED
      BY <2>1, <2>2, PlaceIdle
  <1> QED
    BY <1>2, <1>3 DEF PositionInv, Current

-----------------------------------------------------------------------------
(* A marker means a listener                                               *)

SocketTypes ==
    /\ holder \in [ Ports -> Servers \cup {Nobody} ] /\ ready \in [ Ports -> Servers \cup {Nobody} ]
    /\ backlog \in [ Servers -> Seq(Clients) ] /\ serving \in [ Servers -> Clients \cup {Nobody} ]
    /\ peer \in [ Clients -> Servers \cup {Nobody} ]
    /\ sent \in [ Clients -> { Nobody, Marker, ProofRequest } ]
    /\ DOMAIN reply = Clients

\* Who holds a port listens on it, and whoever listens holds it.
ListenInv ==
    /\ \A q \in Ports : ready[q] # Nobody =>
          Port[ready[q]] = q /\ place[ready[q]] \in { "accept", "read", "ok", "failed" }
    /\ \A q \in Ports : holder[q] # Nobody =>
          Port[holder[q]] = q /\ place[holder[q]] \in { "ready", "accept", "read" }
    /\ \A s \in Servers : place[s] \in { "ready", "accept", "read" } => holder[Port[s]] = s

NoMarkers == [ q \in Ports |-> Nobody ]

connections == << backlog, serving, peer, sent, reply >>

\* No peer takes a step.
PeersRest == UNCHANGED << connections, place, holder >> /\ ready' \in { ready, NoMarkers }

\* A peer is started, for the first time.
PeerStarts(p) ==
    /\ p \in Peers /\ place[p] = "idle" /\ UNCHANGED sockets
    /\ \E to \in { "listen", "dial" } : Goes(p, to) /\ (to = "dial" <=> p \in Clients)

\* A server is killed.
ServerKilled(s) ==
    /\ s \in Servers /\ place[s] \notin PeerEnded \cup {"idle"}
    /\ ServerEnds(s, "failed") /\ ready' = NoMarkers /\ UNCHANGED << connections, mode >>

LEMMA PeerKinds ==
    ASSUME ConfineInv, PositionInv, [Next]_vars
    PROVE  \/ PeersRest \/ (\E p \in Peers : PeerStarts(p)) \/ (\E s \in Servers : ServerKilled(s))
           \/ \E p \in Peers : PeerStep(p)
  <1> USE DEF connections, sockets, rendezvous, launcher
  <1>1. LabTypes /\ Confined
    BY DEF ConfineInv, LabTypes, Confined
  <1>2. CASE ScriptOnly
    <2>1. ready' \in { ready, NoMarkers }
      BY <1>2 DEF ScriptOnly, StartScript, RemoveArtifact, CreateArtifact, Poll, WaitProgram, WaitServer,
         KillScript, Continue, Cleanup, NoMarkers
    <2> QED
      BY <1>2, <2>1 DEF ScriptOnly, PeersRest
  <1>3. CASE StartMock
    <2>1. Current("mock") \in Servers /\ Current("mock") \in Peers /\ Current("mock") \notin Clients
      BY <1>1, <1>3, MockKeeps, Names
    <2>2. place[Current("mock")] = "idle"
      <3>1. todo # << >> /\ driver = "next" /\ Head(todo) = "mock" /\ round > 0
        BY <1>3, <1>1 DEF StartMock, StartProgram, LabTypes, ScriptTypes, ScriptEnded, Rounds
      <3>2. PICK s \in Scripts : Position(s)
        BY <3>1 DEF PositionInv
      <3>3. Len(todo) \in 1..4 /\ todo[1] = "mock" /\ todo[1] = s[4 - Len(todo) + 1]
        <4>1. Len(todo) \in Nat \ {0} /\ todo[1] = "mock"
          BY <1>1, <3>1, TailFacts DEF LabTypes, ScriptTypes
        <4>2. Len(todo) \in 1..4
          <5>1. \A n \in Nat \ {0} : n <= 4 => n \in 1..4
            OBVIOUS
          <5> QED
            BY <3>2, <4>1, <5>1 DEF Position
        <4> QED
          BY <3>2, <4>1, <4>2 DEF Position
      <3>4. \A n \in 1..4 : n = 4 \/ 4 - n + 1 \in { 2, 3, 4 }
        OBVIOUS
      <3>5. Len(todo) = 4
        BY <3>3, <3>4, ScriptFacts
      <3> QED
        BY <3>1, <3>5 DEF PositionInv
    <2> QED
      BY <1>3, <2>1, <2>2 DEF StartMock, StartProgram, PeerStarts
  <1>4. ASSUME NEW j \in Jobs, LaunchJob(j) PROVE PeersRest
    BY <1>4 DEF LaunchJob, StartProgram, PeersRest
  <1>5. CASE Trap
    <2>1. CASE background # Nobody /\ place[background] \notin PeerEnded \cup {"idle"}
      <3>1. background \in Servers
        BY <1>1, <2>1 DEF LabTypes, ScriptTypes
      <3>2. ServerKilled(background)
        BY <1>5, <2>1, <3>1 DEF Trap, Cleanup, ServerKilled, NoMarkers
      <3> QED
        BY <3>1, <3>2
    <2>2. CASE ~(background # Nobody /\ place[background] \notin PeerEnded \cup {"idle"})
      BY <1>5, <2>2 DEF Trap, Cleanup, PeersRest, NoMarkers
    <2> QED
      BY <2>1, <2>2
  <1>6. ASSUME NEW j \in DOMAIN helper, Helping(j) PROVE PeersRest
    BY <1>6 DEF Helping, PeersRest
  <1>7. ASSUME NEW j \in DOMAIN helper, Become(j) PROVE PeersRest \/ \E p \in Peers : PeerStarts(p)
    <2>1. CASE j \in FixtureJobs
      BY <1>7, <2>1 DEF Become, PeersRest
    <2>2. CASE j \notin FixtureJobs
      <3>1. j \in Peers /\ place[j] = "idle"
        BY <1>1, <1>7, <2>2, BecomeKeeps, Names DEF Confined, RunInv
      <3>2. PeerStarts(j)
        BY <1>7, <2>2, <3>1, Names DEF Become, PeerStarts
      <3> QED
        BY <3>1, <3>2
    <2> QED
      BY <2>1, <2>2
  <1>8. ASSUME NEW j \in FixtureJobs, HandStep(j) PROVE PeersRest
    BY <1>8, HandFacts DEF PeersRest
  <1>9. UNCHANGED vars => PeersRest
    BY DEF vars, PeersRest
  <1> QED
    BY <1>1, <1>2, <1>3, <1>4, <1>5, <1>6, <1>7, <1>8, <1>9, LabSteps

LEMMA PortFacts == \A p \in Peers : Port[p] \in Ports
  BY DEF Ports

LEMMA EndsKeepsTypes ==
    ASSUME SocketTypes, NEW s \in Servers, NEW status, ServerEnds(s, status)
    PROVE  holder' \in [ Ports -> Servers \cup {Nobody} ]
  BY PortFacts, Names DEF SocketTypes, ServerEnds

LEMMA SocketTypesKeep ==
    ASSUME SocketTypes, PositionInv, ConfineInv, [Next]_vars
    PROVE  SocketTypes'
  <1>1. CASE PeersRest
    BY <1>1 DEF PeersRest, SocketTypes, NoMarkers, connections
  <1>2. ASSUME NEW p \in Peers, PeerStarts(p) PROVE SocketTypes'
    BY <1>2 DEF PeerStarts, sockets, SocketTypes
  <1>3. ASSUME NEW s \in Servers, ServerKilled(s) PROVE SocketTypes'
    BY <1>3, EndsKeepsTypes DEF ServerKilled, connections, SocketTypes, NoMarkers
  <1>4. ASSUME NEW s \in Servers, ServerStep(s) PROVE SocketTypes'
    <2>1. Port[s] \in Ports
      BY PortFacts, Names
    <2>2. CASE Listen(s)
      BY <2>1, <2>2, EndsKeepsTypes DEF Listen, SocketTypes
    <2>3. CASE CreateReady(s)
      BY <2>1, <2>3, EndsKeepsTypes DEF CreateReady, SocketTypes
    <2>4. CASE Accept(s)
      <3>1. /\ Head(backlog[s]) \in Clients /\ Tail(backlog[s]) \in Seq(Clients)
            /\ UNCHANGED << mode, holder, ready, peer, sent, reply >>
        BY <2>4 DEF Accept, SocketTypes
      <3> QED
        BY <2>4, <3>1 DEF Accept, SocketTypes
    <2>5. CASE ReadMessage(s)
      BY <2>5, EndsKeepsTypes DEF ReadMessage, SocketTypes
    <2>6. CASE ServerError(s)
      BY <2>6, EndsKeepsTypes DEF ServerError, SocketTypes
    <2> QED
      BY <1>4, <2>2, <2>3, <2>4, <2>5, <2>6 DEF ServerStep
  <1>5. ASSUME NEW c \in Clients, ClientStep(c) PROVE SocketTypes'
    <2>1. Port[c] \in Ports
      BY PortFacts, Names
    <2>2. CASE Dial(c)
      <3>1. CASE UNCHANGED << peer, backlog >>
        BY <2>2, <3>1 DEF Dial, SocketTypes
      <3>2. CASE ~UNCHANGED << peer, backlog >>
        <4> DEFINE s == holder[Port[c]]
        <4>1. /\ s \in Servers /\ peer' = [ peer EXCEPT ![c] = s ]
              /\ backlog' = [ backlog EXCEPT ![s] = Append(backlog[s], c) ]
              /\ UNCHANGED << mode, holder, ready, serving, sent, reply >>
          BY <2>1, <2>2, <3>2 DEF Dial, SocketTypes
        <4> HIDE DEF s
        <4>2. Append(backlog[s], c) \in Seq(Clients)
          BY <4>1 DEF SocketTypes
        <4> QED
          BY <4>1, <4>2 DEF SocketTypes
      <3> QED
        BY <3>1, <3>2
    <2>3. CASE Write(c)
      BY <2>3 DEF Write, SocketTypes
    <2>4. CASE Receive(c) \/ ReceiveError(c)
      BY <2>4 DEF Receive, ReceiveError, sockets, SocketTypes
    <2> QED
      BY <1>5, <2>2, <2>3, <2>4 DEF ClientStep
  <1> QED
    BY <1>1, <1>2, <1>3, <1>4, <1>5, PeerKinds DEF PeerStep

\* A server that ends gives up its port and nobody else's.
LEMMA EndsKeepsListening ==
    ASSUME SocketTypes, ListenInv, ConfineInv, NEW s \in Servers, place[s] # "idle",
           NEW status \in PeerEnded, ServerEnds(s, status), ready' \in { ready, NoMarkers }
    PROVE  ListenInv'
  <1>1. /\ place \in [ Peers -> PeerPlaces ] /\ place' = [ place EXCEPT ![s] = status ]
        /\ s \in Peers /\ Port[s] \in Ports /\ Servers \subseteq Peers /\ Nobody \notin Servers
    BY PortFacts, Names DEF ConfineInv, LabTypes, ProcessTypes, ServerEnds, Goes
  <1>2. \A r \in Servers : place'[r] = IF r = s THEN status ELSE place[r]
    BY <1>1
  <1>3. /\ \A q \in Ports : holder[q] \in Servers \cup {Nobody} /\ ready[q] \in Servers \cup {Nobody}
        /\ holder'[Port[s]] = IF holder[Port[s]] = s THEN Nobody ELSE holder[Port[s]]
        /\ \A q \in Ports \ {Port[s]} : holder'[q] = holder[q]
    BY <1>1 DEF SocketTypes, ServerEnds
  <1>4. \A q \in Ports : ready'[q] # Nobody =>
            Port[ready'[q]] = q /\ place'[ready'[q]] \in { "accept", "read", "ok", "failed" }
    BY <1>2, <1>3 DEF ListenInv, NoMarkers, PeerEnded
  <1>5. \A q \in Ports : holder'[q] # Nobody =>
            Port[holder'[q]] = q /\ place'[holder'[q]] \in { "ready", "accept", "read" }
    BY <1>2, <1>3 DEF ListenInv
  <1>6. \A r \in Servers : place'[r] \in { "ready", "accept", "read" } => holder'[Port[r]] = r
    <2> SUFFICES ASSUME NEW r \in Servers, place'[r] \in { "ready", "accept", "read" }
                 PROVE  holder'[Port[r]] = r
      OBVIOUS
    <2>1. r # s /\ holder[Port[r]] = r /\ Port[r] \in Ports
      BY <1>1, <1>2, PortFacts DEF ListenInv, PeerEnded
    <2> QED
      BY <1>3, <2>1
  <1> QED
    BY <1>4, <1>5, <1>6 DEF ListenInv

LEMMA ListenKeeps ==
    ASSUME SocketTypes, ListenInv, PositionInv, ConfineInv, [Next]_vars
    PROVE  ListenInv'
  <1>1. /\ place \in [ Peers -> PeerPlaces ] /\ Servers \subseteq Peers /\ Nobody \notin Servers
        /\ \A r \in Servers : Port[r] \in Ports
        /\ \A q \in Ports : holder[q] \in Servers \cup {Nobody} /\ ready[q] \in Servers \cup {Nobody}
    BY PortFacts, Names DEF ConfineInv, LabTypes, ProcessTypes, SocketTypes
  <1>2. CASE PeersRest
    BY <1>1, <1>2 DEF PeersRest, ListenInv, NoMarkers
  <1>3. ASSUME NEW p \in Peers, PeerStarts(p) PROVE ListenInv'
    <2>1. /\ UNCHANGED << holder, ready >> /\ place[p] = "idle"
          /\ \A r \in Peers \ {p} : place'[r] = place[r]
          /\ place'[p] \in { "listen", "dial" }
      BY <1>1, <1>3 DEF PeerStarts, Goes, sockets
    <2> QED
      BY <1>1, <2>1 DEF ListenInv
  <1>4. ASSUME NEW s \in Servers, ServerKilled(s) PROVE ListenInv'
    BY <1>4, EndsKeepsListening DEF ServerKilled, PeerEnded
  <1>5. ASSUME NEW s \in Servers, ServerStep(s) PROVE ListenInv'
    <2>1. Port[s] \in Ports /\ s \in Peers
      BY <1>1
    <2>2. CASE ServerEnds(s, "ok") \/ ServerEnds(s, "failed")
      <3>1. place[s] # "idle"
        BY <1>5 DEF ServerStep, Listen, CreateReady, Accept, ReadMessage, ServerError
      <3>2. UNCHANGED ready
        <4>1. ~Accept(s)
          BY <1>1, <2>1, <2>2 DEF Accept, ServerEnds, Goes
        <4>2. CASE CreateReady(s)
          BY <1>1, <2>1, <2>2, <4>2 DEF CreateReady, ServerEnds, Goes
        <4> QED
          BY <1>5, <4>1, <4>2 DEF ServerStep, Listen, ReadMessage, ServerError
      <3> QED
        BY <2>2, <3>1, <3>2, EndsKeepsListening DEF PeerEnded
    <2>3. CASE Listen(s) /\ ~ServerEnds(s, "failed")
      <3>1. /\ holder[Port[s]] = Nobody /\ UNCHANGED ready /\ place[s] = "listen"
            /\ holder' = [ holder EXCEPT ![Port[s]] = s ] /\ place' = [ place EXCEPT ![s] = "ready" ]
        BY <2>3 DEF Listen, Goes
      <3>2. /\ place'[s] = "ready" /\ \A r \in Servers \ {s} : place'[r] = place[r]
            /\ holder'[Port[s]] = s /\ \A q \in Ports \ {Port[s]} : holder'[q] = holder[q]
        BY <1>1, <3>1 DEF SocketTypes
      <3>3. \A r \in Servers \ {s} : place[r] \in { "ready", "accept", "read" } =>
                holder[Port[r]] = r /\ Port[r] # Port[s]
        BY <1>1, <3>1 DEF ListenInv
      <3>4. \A r \in Servers : place'[r] \in { "ready", "accept", "read" } => holder'[Port[r]] = r
        BY <1>1, <3>2, <3>3
      <3>5. \A q \in Ports : holder'[q] # Nobody =>
                Port[holder'[q]] = q /\ place'[holder'[q]] \in { "ready", "accept", "read" }
        BY <1>1, <3>1, <3>2 DEF ListenInv
      <3>6. \A q \in Ports : ready'[q] # Nobody =>
                Port[ready'[q]] = q /\ place'[ready'[q]] \in { "accept", "read", "ok", "failed" }
        BY <1>1, <3>1, <3>2 DEF ListenInv
      <3> QED
        BY <3>4, <3>5, <3>6 DEF ListenInv
    <2>4. CASE CreateReady(s) /\ ~ServerEnds(s, "failed")
      <3>1. /\ UNCHANGED holder /\ place[s] = "ready"
            /\ ready' = [ ready EXCEPT ![Port[s]] = s ] /\ place' = [ place EXCEPT ![s] = "accept" ]
        BY <2>4 DEF CreateReady, Goes
      <3>2. /\ place'[s] = "accept" /\ \A r \in Servers \ {s} : place'[r] = place[r]
            /\ ready'[Port[s]] = s /\ \A q \in Ports \ {Port[s]} : ready'[q] = ready[q]
        BY <1>1, <3>1 DEF SocketTypes
      <3> QED
        BY <1>1, <3>1, <3>2 DEF ListenInv
    <2>5. CASE Accept(s)
      <3>1. /\ UNCHANGED << holder, ready >> /\ place[s] = "accept"
            /\ place'[s] = "read" /\ \A r \in Servers \ {s} : place'[r] = place[r]
        BY <1>1, <2>5 DEF Accept, Goes
      <3> QED
        BY <1>1, <3>1 DEF ListenInv
    <2> QED
      BY <1>5, <2>2, <2>3, <2>4, <2>5 DEF ServerStep, ReadMessage, ServerError
  <1>6. ASSUME NEW c \in Clients, ClientStep(c) PROVE ListenInv'
    <2>1. UNCHANGED << holder, ready >> /\ \E to : place' = [ place EXCEPT ![c] = to ]
      BY <1>6 DEF ClientStep, Dial, Write, Receive, ReceiveError, Goes, sockets
    <2>2. \A r \in Servers : place'[r] = place[r]
      BY <1>1, <2>1, Names
    <2> QED
      BY <1>1, <2>1, <2>2 DEF ListenInv
  <1> QED
    BY <1>2, <1>3, <1>4, <1>5, <1>6, PeerKinds DEF PeerStep

\* The inductive invariant behind the markers.
MarkerInv == ConfineInv /\ RoundInv /\ PositionInv /\ SocketTypes /\ ListenInv

LEMMA MarkerStart == Init => MarkerInv
  <1> SUFFICES ASSUME Init PROVE MarkerInv
    OBVIOUS
  <1>1. RoundInv /\ PositionInv
    BY DEF Init, LauncherInit, RendezvousInit, RoundInv, PositionInv
  <1>2. /\ holder = [ q \in Ports |-> Nobody ] /\ ready = [ q \in Ports |-> Nobody ]
        /\ place = [ p \in Peers |-> "idle" ]
        /\ backlog = [ s \in Servers |-> << >> ] /\ serving = [ s \in Servers |-> Nobody ]
        /\ peer = [ c \in Clients |-> Nobody ]
        /\ sent = [ c \in Clients |-> Nobody ] /\ reply = [ c \in Clients |-> Nobody ]
    BY DEF Init, RendezvousInit
  <1>3. SocketTypes
    BY <1>2 DEF SocketTypes
  <1>4. ListenInv
    BY <1>2, Names DEF ListenInv
  <1> QED
    BY <1>1, <1>3, <1>4, LabStart DEF MarkerInv

LEMMA MarkerStep == MarkerInv /\ [Next]_vars => MarkerInv'
  BY ConfineStep, RoundKeeps, PositionKeeps, SocketTypesKeep, ListenKeeps DEF MarkerInv

\* A script that found a readiness marker is not refused by a server that is
\* still coming up, whatever servers of killed rounds were left behind.
THEOREM MarkersMeanListening == Spec => []ReadyMeansListening
  <1>1. MarkerInv => ReadyMeansListening
    BY DEF MarkerInv, ListenInv, SocketTypes, ReadyMeansListening, PeerEnded
  <1> QED
    BY <1>1, MarkerStart, MarkerStep, PTL DEF Spec

-----------------------------------------------------------------------------
(* A proof shows the mode of the target that answered it                   *)

Modes == { "intentionally-vulnerable", "patched" }
Expectations == { "grant", "deny" }

\* Targets have a mode and proofs an expectation, once they are launched.
ModeInv ==
    /\ authMode \in Modes /\ mode \in [ Peers -> Modes \cup Expectations \cup {Nobody} ]
    /\ \A p \in Peers : mode[p] # Nobody =>
          IF p[1] = "target" THEN mode[p] \in Modes ELSE p[1] = "proof" /\ mode[p] \in Expectations

\* Connections lead to the server that was dialled, and are made once.
LinkInv ==
    /\ \A s \in Servers : \A i \in 1..Len(backlog[s]) : peer[backlog[s][i]] = s
    /\ \A s \in Servers : serving[s] # Nobody => peer[serving[s]] = s
    /\ \A c \in Clients : peer[c] # Nobody => place[peer[c]] # "idle" /\ place[c] \notin { "idle", "dial" }
    /\ \A c \in Clients : sent[c] # Nobody => place[c] \notin { "idle", "dial", "write" }

\* A reply is what the mode of the connected target decides.
ReplyInv ==
    /\ \A c \in Clients : reply[c] # Nobody =>
          peer[c] # Nobody /\ mode[peer[c]] \in Modes /\ reply[c] = authorize(mode[peer[c]], ProofRequest)
    /\ \A c \in Clients : place[c] = "ok" /\ mode[c] # Nobody =>
          reply[c] # Nobody /\ reply[c].granted = (mode[c] = "grant")

\* The mode is on the command line: it is fixed when the launcher starts.
LEMMA ModeMoves ==
    ASSUME ConfineInv, [Next]_vars
    PROVE  /\ UNCHANGED mode \/ \E j \in Jobs : LaunchJob(j)
           /\ UNCHANGED authMode \/ StartScript
  <1> USE DEF rendezvous, sockets, script
  <1>1. LabTypes
    BY DEF ConfineInv
  <1>2. CASE ScriptStep
    <2>1. UNCHANGED authMode \/ StartScript
      BY <1>2 DEF ScriptStep, DriverStep, RemoveArtifact, CreateArtifact, StartProgram, Poll, WaitProgram,
         WaitServer, FinishScript, KillScript, Continue, Cleanup
    <2>2. ScriptOnly \/ StartMock \/ Trap => UNCHANGED mode
      BY DEF ScriptOnly, StartMock, Trap, Cleanup
    <2> QED
      BY <1>1, <1>2, <2>1, <2>2, DriverSteps DEF ScriptStep
  <1>3. ASSUME NEW j \in DOMAIN helper, Helping(j) \/ Become(j) PROVE UNCHANGED << mode, authMode >>
    BY <1>3 DEF Helping, Become, Others
  <1>4. ASSUME NEW p \in Peers, PeerStep(p) PROVE UNCHANGED << mode, authMode >>
    <2>1. UNCHANGED authMode
      BY <1>4 DEF PeerStep, Others
    <2>2. ServerStep(p) => UNCHANGED mode
      BY DEF ServerStep, Listen, CreateReady, Accept, ReadMessage, ServerError
    <2>3. ClientStep(p) => UNCHANGED mode
      BY DEF ClientStep, Dial, Write, Receive, ReceiveError
    <2> QED
      BY <1>4, <2>1, <2>2, <2>3 DEF PeerStep
  <1>5. ASSUME NEW j \in FixtureJobs, HandStep(j) PROVE UNCHANGED << mode, authMode >>
    BY <1>5, HandFacts
  <1>6. UNCHANGED vars => UNCHANGED << mode, authMode >>
    BY DEF vars
  <1> QED
    BY <1>1, <1>2, <1>3, <1>4, <1>5, <1>6, LabSteps

LEMMA LaunchMode ==
    ASSUME ConfineInv, ModeInv, NEW j \in Jobs, LaunchJob(j)
    PROVE  /\ \A p \in Peers : place[p] # "idle" => mode'[p] = mode[p]
           /\ mode' \in [ Peers -> Modes \cup Expectations \cup {Nobody} ]
           /\ \A p \in Peers : mode'[p] # Nobody =>
                 IF p[1] = "target" THEN mode'[p] \in Modes ELSE p[1] = "proof" /\ mode'[p] \in Expectations
  <1>1. j[1] # "mock" /\ stage[j] = "idle" /\ j = Current(Head(todo))
    BY Names DEF LaunchJob, Launch
  <1>2. mode' = CASE j[1] = "target" -> [ mode EXCEPT ![j] = authMode ]
                  [] j[1] = "proof" -> [ mode EXCEPT ![j] = ExpectFor(authMode) ]
                  [] OTHER -> mode
    BY <1>1 DEF LaunchJob, StartProgram
  <1>3. ExpectFor(authMode) \in Expectations /\ authMode \in Modes
    BY DEF ExpectFor, Expectations, ModeInv
  <1>4. j \in Peers => place[j] = "idle"
    BY <1>1, Names DEF ConfineInv, RunInv
  <1>5. mode \in [ Peers -> Modes \cup Expectations \cup {Nobody} ]
    BY DEF ModeInv
  <1>6. CASE j[1] = "target"
    <2>1. mode' = [ mode EXCEPT ![j] = authMode ]
      BY <1>2, <1>6
    <2> QED
      BY <1>3, <1>4, <1>5, <1>6, <2>1 DEF ModeInv
  <1>7. CASE j[1] = "proof"
    <2>1. mode' = [ mode EXCEPT ![j] = ExpectFor(authMode) ]
      BY <1>2, <1>7
    <2> QED
      BY <1>3, <1>4, <1>5, <1>7, <2>1 DEF ModeInv
  <1>8. CASE j[1] \notin { "target", "proof" }
    <2>1. mode' = mode
      BY <1>2, <1>8
    <2> QED
      BY <2>1 DEF ModeInv
  <1> QED
    BY <1>6, <1>7, <1>8

LEMMA ModeKeeps ==
    ASSUME ConfineInv, ModeInv, [Next]_vars
    PROVE  ModeInv' /\ \A p \in Peers : place[p] # "idle" => mode'[p] = mode[p]
  <1>1. authMode' \in Modes
    BY ModeMoves DEF StartScript, ModeInv, Modes
  <1>2. CASE UNCHANGED mode
    BY <1>1, <1>2 DEF ModeInv
  <1>3. ASSUME NEW j \in Jobs, LaunchJob(j)
        PROVE  ModeInv' /\ \A p \in Peers : place[p] # "idle" => mode'[p] = mode[p]
    BY <1>1, <1>3, LaunchMode DEF ModeInv
  <1> QED
    BY <1>2, <1>3, ModeMoves

\* What a step of a server does, by its place.
LEMMA ServerMoves ==
    ASSUME NEW s \in Servers, ServerStep(s)
    PROVE  /\ UNCHANGED << mode, peer, sent >>
           /\ \/ /\ UNCHANGED connections /\ place[s] \in { "listen", "ready", "accept", "read" }
                 /\ \E to \in { "ready", "accept", "failed" } : place' = [ place EXCEPT ![s] = to ]
              \/ Accept(s)
              \/ /\ ReadMessage(s) /\ UNCHANGED << backlog, serving >>
                 /\ place' = [ place EXCEPT ![s] = "ok" ]
  <1> USE DEF connections, ServerEnds, Goes
  <1>1. CASE Listen(s)
    BY <1>1 DEF Listen
  <1>2. CASE CreateReady(s)
    BY <1>2 DEF CreateReady
  <1>3. CASE Accept(s)
    BY <1>3 DEF Accept
  <1>4. CASE ReadMessage(s)
    BY <1>4 DEF ReadMessage
  <1>5. CASE ServerError(s)
    BY <1>5 DEF ServerError
  <1> QED
    BY <1>1, <1>2, <1>3, <1>4, <1>5 DEF ServerStep

LEMMA LinkKeeps ==
    ASSUME MarkerInv, LinkInv, [Next]_vars
    PROVE  LinkInv'
  <1>1. /\ place \in [ Peers -> PeerPlaces ] /\ Servers \subseteq Peers /\ Nobody \notin Servers
        /\ Clients \subseteq Peers /\ Nobody \notin Clients /\ \A c \in Clients : c \notin Servers
        /\ SocketTypes /\ PositionInv /\ ConfineInv
    BY Names DEF MarkerInv, ConfineInv, LabTypes, ProcessTypes
  <1>2. \A p \in Peers : place[p] # "idle" => place'[p] # "idle"
    BY <1>1, PlaceIdle
  <1>3. CASE PeersRest
    BY <1>3 DEF PeersRest, connections, LinkInv
  <1>4. ASSUME NEW p \in Peers, PeerStarts(p) PROVE LinkInv'
    <2>1. /\ UNCHANGED << backlog, serving, peer, sent >> /\ place[p] = "idle"
          /\ \A r \in Peers \ {p} : place'[r] = place[r]
      BY <1>1, <1>4 DEF PeerStarts, Goes, sockets
    <2>2. \A c \in Clients : (peer[c] # Nobody \/ sent[c] # Nobody) => c # p /\ place'[c] = place[c]
      BY <1>1, <2>1 DEF LinkInv
    <2> QED
      BY <1>1, <1>2, <2>1, <2>2 DEF LinkInv, SocketTypes
  <1>5. ASSUME NEW s \in Servers, UNCHANGED << backlog, serving, peer, sent >>,
               \E to : place' = [ place EXCEPT ![s] = to ]
        PROVE  LinkInv'
    <2>1. \A c \in Clients : place'[c] = place[c]
      BY <1>1, <1>5
    <2> QED
      BY <1>1, <1>2, <1>5, <2>1 DEF LinkInv, SocketTypes
  <1>6. ASSUME NEW s \in Servers, Accept(s) PROVE LinkInv'
    <2> DEFINE c == Head(backlog[s])
    <2>1. /\ backlog[s] \in Seq(Clients) /\ backlog[s] # << >> /\ UNCHANGED << peer, sent >>
          /\ serving' = [ serving EXCEPT ![s] = c ] /\ backlog' = [ backlog EXCEPT ![s] = Tail(backlog[s]) ]
          /\ place' = [ place EXCEPT ![s] = "read" ]
      BY <1>1, <1>6 DEF Accept, Goes, SocketTypes
    <2>2. c \in Clients /\ peer[c] = s
      BY <2>1 DEF LinkInv
    <2>3. \A i \in 1..Len(Tail(backlog[s])) : peer[Tail(backlog[s])[i]] = s
      BY <2>1 DEF LinkInv
    <2> HIDE DEF c
    <2>4. \A r \in Servers : \A i \in 1..Len(backlog'[r]) : peer[backlog'[r][i]] = r
      BY <1>1, <2>1, <2>3 DEF LinkInv, SocketTypes
    <2>5. \A r \in Servers : serving'[r] # Nobody => peer[serving'[r]] = r
      BY <1>1, <2>1, <2>2 DEF LinkInv, SocketTypes
    <2>6. \A d \in Clients : place'[d] = place[d]
      BY <1>1, <2>1
    <2> QED
      BY <1>1, <1>2, <2>1, <2>4, <2>5, <2>6 DEF LinkInv, SocketTypes
  <1>7. ASSUME NEW s \in Servers, ServerStep(s) PROVE LinkInv'
    BY <1>5, <1>6, <1>7, ServerMoves DEF connections
  <1>8. ASSUME NEW c \in Clients, ClientStep(c) PROVE LinkInv'
    <2>1. CASE Dial(c) /\ Goes(c, "write")
      <3> DEFINE s == holder[Port[c]]
      <3>1. /\ s # Nobody /\ peer' = [ peer EXCEPT ![c] = s ] /\ place[c] = "dial"
            /\ backlog' = [ backlog EXCEPT ![s] = Append(backlog[s], c) ]
            /\ place' = [ place EXCEPT ![c] = "write" ] /\ UNCHANGED << serving, sent >>
        BY <1>1, <2>1 DEF Dial, Goes
      <3>2. s \in Servers /\ place[s] # "idle"
        BY <1>1, <3>1, PortFacts DEF SocketTypes, MarkerInv, ListenInv
      <3> HIDE DEF s
      <3>3. peer[c] = Nobody /\ sent[c] = Nobody
        BY <3>1 DEF LinkInv
      <3>4. \A r \in Servers : \A i \in 1..Len(backlog[r]) : backlog[r][i] # c /\ peer'[backlog[r][i]] = r
        <4> SUFFICES ASSUME NEW r \in Servers, NEW i \in 1..Len(backlog[r])
                     PROVE  backlog[r][i] # c /\ peer'[backlog[r][i]] = r
          OBVIOUS
        <4>1. backlog[r][i] \in Clients /\ peer[backlog[r][i]] = r
          BY <1>1 DEF SocketTypes, LinkInv
        <4> QED
          BY <1>1, <3>1, <3>3, <4>1 DEF SocketTypes
      <3>5. \A i \in 1..Len(backlog'[s]) : peer'[backlog'[s][i]] = s
        <4>1. backlog[s] \in Seq(Clients) /\ backlog'[s] = Append(backlog[s], c) /\ peer'[c] = s
          BY <1>1, <3>1, <3>2 DEF SocketTypes
        <4> QED
          BY <3>2, <3>4, <4>1
      <3>6. \A r \in Servers : \A i \in 1..Len(backlog'[r]) : peer'[backlog'[r][i]] = r
        <4> SUFFICES ASSUME NEW r \in Servers, r # s
                     PROVE  \A i \in 1..Len(backlog'[r]) : peer'[backlog'[r][i]] = r
          BY <3>5
        <4>1. backlog'[r] = backlog[r]
          BY <1>1, <3>1, <3>2 DEF SocketTypes
        <4> QED
          BY <3>4, <4>1
      <3>7. \A r \in Servers : serving'[r] # Nobody => peer'[serving'[r]] = r
        BY <1>1, <3>1, <3>3 DEF LinkInv, SocketTypes
      <3>8. \A d \in Clients : peer'[d] # Nobody => place'[peer'[d]] # "idle" /\ place'[d] \notin { "idle", "dial" }
        BY <1>1, <1>2, <3>1, <3>2 DEF LinkInv, SocketTypes
      <3>9. \A d \in Clients : sent'[d] # Nobody => place'[d] \notin { "idle", "dial", "write" }
        BY <1>1, <3>1, <3>3 DEF LinkInv
      <3> QED
        BY <3>6, <3>7, <3>8, <3>9 DEF LinkInv
    <2>2. CASE ~(Dial(c) /\ Goes(c, "write"))
      <3>1. /\ UNCHANGED << peer, backlog, serving >>
            /\ \E to \in { "ok", "receive", "failed" } : place' = [ place EXCEPT ![c] = to ]
            /\ UNCHANGED sent \/ \E v : sent' = [ sent EXCEPT ![c] = v ]
        BY <1>8, <2>2 DEF ClientStep, Dial, Write, Receive, ReceiveError, Goes, sockets
      <3>2. /\ place'[c] \in { "ok", "receive", "failed" }
            /\ \A d \in Clients \ {c} : place'[d] = place[d] /\ sent'[d] = sent[d]
        BY <1>1, <3>1 DEF SocketTypes
      <3> QED
        BY <1>1, <1>2, <3>1, <3>2 DEF LinkInv, SocketTypes
    <2> QED
      BY <2>1, <2>2
  <1>9. ASSUME NEW s \in Servers, ServerKilled(s) PROVE LinkInv'
    BY <1>5, <1>9 DEF ServerKilled, ServerEnds, Goes, connections
  <1> QED
    BY <1>1, <1>3, <1>4, <1>7, <1>8, <1>9, PeerKinds DEF PeerStep

\* What a step of a client does to it.
LEMMA ClientMoves ==
    ASSUME NEW c \in Clients, ClientStep(c), SocketTypes, ConfineInv
    PROVE  /\ UNCHANGED << mode, holder, ready, serving, reply >>
           /\ place[c] \in { "dial", "write", "receive" }
           /\ \A d \in Clients \ {c} : sent'[d] = sent[d] /\ peer'[d] = peer[d]
           /\ \A p \in Peers \ {c} : place'[p] = place[p]
           /\ place[c] # "dial" => peer'[c] = peer[c]
           /\ place[c] # "write" => sent'[c] = sent[c]
           /\ place'[c] = "ok" =>
                 \/ place[c] = "write" /\ mode[c] = Nobody
                 \/ /\ reply[c] # Nobody /\ reply[c].granted = (mode[c] = "grant")
                    /\ place[c] = "receive"
  <1>1. place \in [ Peers -> PeerPlaces ] /\ c \in Peers
    BY Names DEF ConfineInv, LabTypes, ProcessTypes
  <1> USE DEF Goes, SocketTypes, sockets
  <1>2. CASE Dial(c)
    BY <1>1, <1>2 DEF Dial
  <1>3. CASE Write(c)
    BY <1>1, <1>3 DEF Write
  <1>4. CASE Receive(c)
    BY <1>1, <1>4 DEF Receive
  <1>5. CASE ReceiveError(c)
    BY <1>1, <1>5 DEF ReceiveError
  <1> QED
    BY <1>2, <1>3, <1>4, <1>5 DEF ClientStep

\* The places of the clients and servers a step of another kind leaves alone.
LEMMA OtherPlaces ==
    ASSUME ConfineInv, PositionInv, [Next]_vars
    PROVE  \/ \E s \in Servers : ServerStep(s) /\ \A p \in Peers \ {s} : place'[p] = place[p]
           \/ \E c \in Clients : ClientStep(c)
           \/ /\ UNCHANGED connections
              /\ \A p \in Peers : \/ place'[p] = place[p]
                                  \/ place[p] = "idle" /\ place'[p] \in { "listen", "dial" }
                                  \/ place[p] \notin PeerEnded /\ place'[p] = "failed"
  <1>1. place \in [ Peers -> PeerPlaces ] /\ Servers \subseteq Peers
    BY Names DEF ConfineInv, LabTypes, ProcessTypes
  <1>2. ASSUME NEW s \in Servers, ServerStep(s) PROVE \A p \in Peers \ {s} : place'[p] = place[p]
    BY <1>1, <1>2, ServerMoves DEF Accept, Goes
  <1>3. ASSUME NEW p \in Peers, PeerStarts(p)
        PROVE  /\ UNCHANGED connections
               /\ \A r \in Peers : place'[r] = place[r] \/ (place[r] = "idle" /\ place'[r] \in { "listen", "dial" })
    BY <1>1, <1>3 DEF PeerStarts, Goes, sockets, connections
  <1>4. ASSUME NEW s \in Servers, ServerKilled(s)
        PROVE  /\ UNCHANGED connections
               /\ \A r \in Peers : place'[r] = place[r] \/ (place[r] \notin PeerEnded /\ place'[r] = "failed")
    BY <1>1, <1>4 DEF ServerKilled, ServerEnds, Goes
  <1>5. CASE PeersRest
    BY <1>5 DEF PeersRest
  <1> QED
    BY <1>2, <1>3, <1>4, <1>5, PeerKinds DEF PeerStep

\* A server that has read or ends well accepted a client, and got its message.
WorkInv ==
    /\ \A s \in Servers : place[s] = "read" => serving[s] # Nobody
    /\ \A s \in Servers : place[s] = "ok" => serving[s] # Nobody /\ sent[serving[s]] # Nobody

LEMMA WorkKeeps ==
    ASSUME MarkerInv, LinkInv, WorkInv, [Next]_vars
    PROVE  WorkInv'
  <1>1. /\ place \in [ Peers -> PeerPlaces ] /\ Servers \subseteq Peers
        /\ Nobody \notin Clients /\ \A c \in Clients : c \notin Servers
        /\ SocketTypes /\ PositionInv /\ ConfineInv
        /\ \A s \in Servers : serving[s] \in Clients \cup {Nobody}
    BY Names DEF MarkerInv, ConfineInv, LabTypes, ProcessTypes, SocketTypes
  <1>2. ASSUME NEW s \in Servers, ServerStep(s), \A p \in Peers \ {s} : place'[p] = place[p]
        PROVE  WorkInv'
    <2>1. CASE Accept(s)
      <3>1. /\ Head(backlog[s]) \in Clients /\ UNCHANGED sent
            /\ serving' = [ serving EXCEPT ![s] = Head(backlog[s]) ] /\ place'[s] = "read"
        BY <1>1, <2>1 DEF Accept, SocketTypes, Goes
      <3>2. serving'[s] # Nobody /\ \A r \in Servers \ {s} : serving'[r] = serving[r]
        BY <1>1, <3>1 DEF SocketTypes
      <3> QED
        BY <1>1, <1>2, <3>1, <3>2 DEF WorkInv
    <2>2. CASE ReadMessage(s) /\ UNCHANGED << backlog, serving >>
      <3>1. UNCHANGED << serving, sent >> /\ place[s] = "read" /\ sent[serving[s]] # Nobody
        BY <2>2 DEF ReadMessage
      <3>2. place'[s] = "ok"
        BY <1>1, <2>2 DEF ReadMessage, ServerEnds, Goes
      <3> QED
        BY <1>1, <1>2, <3>1, <3>2 DEF WorkInv
    <2>3. CASE UNCHANGED connections /\ place'[s] \in { "ready", "accept", "failed" }
      BY <1>1, <1>2, <2>3 DEF WorkInv, connections
    <2> QED
      BY <1>1, <1>2, <2>1, <2>2, <2>3, ServerMoves
  <1>3. ASSUME NEW c \in Clients, ClientStep(c) PROVE WorkInv'
    <2>1. UNCHANGED serving /\ \A s \in Servers : place'[s] = place[s]
      BY <1>1, <1>3, ClientMoves
    <2>2. \A d \in Clients : sent[d] # Nobody => sent'[d] # Nobody
      BY <1>1, <1>3, ClientMoves DEF LinkInv
    <2> QED
      BY <1>1, <2>1, <2>2 DEF WorkInv
  <1>4. ASSUME UNCHANGED connections,
               \A p \in Peers : \/ place'[p] = place[p]
                                \/ place[p] = "idle" /\ place'[p] \in { "listen", "dial" }
                                \/ place[p] \notin PeerEnded /\ place'[p] = "failed"
        PROVE  WorkInv'
    BY <1>1, <1>4 DEF WorkInv, connections
  <1> QED
    BY <1>1, <1>2, <1>3, <1>4, OtherPlaces

LEMMA ReplyKeeps ==
    ASSUME MarkerInv, ModeInv, LinkInv, WorkInv, ReplyInv, [Next]_vars
    PROVE  ReplyInv'
  <1>1. /\ place \in [ Peers -> PeerPlaces ] /\ Servers \subseteq Peers /\ Clients \subseteq Peers
        /\ Nobody \notin Clients /\ Nobody \notin Servers /\ \A c \in Clients : c \notin Servers
        /\ SocketTypes /\ PositionInv /\ ConfineInv
        /\ \A c \in Clients : peer[c] \in Servers \cup {Nobody}
    BY Names DEF MarkerInv, ConfineInv, LabTypes, ProcessTypes, SocketTypes
  <1>2. \A p \in Peers : place[p] # "idle" => mode'[p] = mode[p]
    BY <1>1, ModeKeeps
  <1>3. \A c \in Clients : reply[c] # Nobody =>
            peer[c] # Nobody /\ mode'[peer[c]] \in Modes
               /\ reply[c] = authorize(mode'[peer[c]], ProofRequest)
    BY <1>1, <1>2 DEF ReplyInv, LinkInv
  <1>4. \A c \in Clients : place[c] = "ok" /\ mode'[c] # Nobody =>
            reply[c] # Nobody /\ reply[c].granted = (mode'[c] = "grant")
    BY <1>1, <1>2 DEF ReplyInv
  <1>5. ASSUME NEW s \in Servers, ServerStep(s), \A p \in Peers \ {s} : place'[p] = place[p]
        PROVE  ReplyInv'
    <2>1. UNCHANGED << mode, peer >> /\ \A c \in Clients : place'[c] = place[c]
      BY <1>1, <1>5, ServerMoves
    <2>2. CASE UNCHANGED reply
      BY <1>3, <1>4, <2>1, <2>2 DEF ReplyInv
    <2>3. CASE ~UNCHANGED reply
      <3> DEFINE c == serving[s]
                 a == authorize(mode[s], ProofRequest)
      <3>1. ReadMessage(s)
        BY <1>5, <2>3, ServerMoves DEF connections, Accept
      <3>2. c \in Clients /\ peer[c] = s
        BY <1>1, <3>1 DEF ReadMessage, WorkInv, LinkInv, SocketTypes
      <3>3. /\ mode[s] # Nobody /\ sent[c] # Marker /\ sent[c] # Nobody
            /\ reply' = [ reply EXCEPT ![c] = authorize(mode[s], sent[c]) ]
        BY <2>3, <3>1 DEF ReadMessage, Answers
      <3>4. sent[c] = ProofRequest /\ mode[s] \in Modes
        <4>1. sent[c] = ProofRequest
          BY <1>1, <3>2, <3>3 DEF SocketTypes
        <4>2. s[1] \in ServerPrograms
          BY LabAssumption
        <4> QED
          BY <1>1, <3>3, <4>1, <4>2 DEF ModeInv, ServerPrograms
      <3>5. reply' = [ reply EXCEPT ![c] = a ]
        BY <3>3, <3>4
      <3>6. reply'[c] = a /\ \A d \in Clients \ {c} : reply'[d] = reply[d]
        BY <1>1, <3>2, <3>5 DEF SocketTypes
      <3>7. reply[c] # Nobody => reply[c] = a
        BY <3>2 DEF ReplyInv
      <3> HIDE DEF a
      <3>8. \A d \in Clients : reply'[d] # Nobody =>
                peer[d] # Nobody /\ mode[peer[d]] \in Modes
                   /\ reply'[d] = authorize(mode[peer[d]], ProofRequest)
        BY <1>1, <3>2, <3>4, <3>6 DEF ReplyInv, a
      <3>9. \A d \in Clients : place[d] = "ok" /\ mode[d] # Nobody =>
                reply'[d] # Nobody /\ reply'[d].granted = (mode[d] = "grant")
        BY <3>2, <3>6, <3>7 DEF ReplyInv
      <3> QED
        BY <2>1, <3>8, <3>9 DEF ReplyInv
    <2> QED
      BY <2>2, <2>3
  <1>6. ASSUME NEW c \in Clients, ClientStep(c) PROVE ReplyInv'
    <2>1. UNCHANGED << mode, reply >>
      BY <1>1, <1>6, ClientMoves
    <2>2. \A d \in Clients : reply[d] # Nobody => peer'[d] = peer[d]
      BY <1>1, <1>3, <1>6, ClientMoves DEF LinkInv
    <2>3. \A d \in Clients : place'[d] = "ok" /\ mode[d] # Nobody =>
              reply[d] # Nobody /\ reply[d].granted = (mode[d] = "grant")
      BY <1>1, <1>6, ClientMoves DEF ReplyInv
    <2> QED
      BY <1>3, <2>1, <2>2, <2>3 DEF ReplyInv
  <1>7. ASSUME UNCHANGED connections,
               \A p \in Peers : \/ place'[p] = place[p]
                                \/ place[p] = "idle" /\ place'[p] \in { "listen", "dial" }
                                \/ place[p] \notin PeerEnded /\ place'[p] = "failed"
        PROVE  ReplyInv'
    <2>1. \A c \in Clients : place'[c] = "ok" => place[c] = "ok"
      BY <1>1, <1>7
    <2> QED
      BY <1>3, <1>4, <1>7, <2>1 DEF ReplyInv, connections
  <1> QED
    BY <1>1, <1>5, <1>6, <1>7, OtherPlaces

\* The inductive invariant behind the answers.
AnswerInv == MarkerInv /\ ModeInv /\ LinkInv /\ WorkInv /\ ReplyInv

LEMMA AnswerStart == Init => AnswerInv
  <1> SUFFICES ASSUME Init PROVE AnswerInv
    OBVIOUS
  <1>1. /\ place = [ p \in Peers |-> "idle" ] /\ mode = [ p \in Peers |-> Nobody ]
        /\ backlog = [ s \in Servers |-> << >> ] /\ serving = [ s \in Servers |-> Nobody ]
        /\ peer = [ c \in Clients |-> Nobody ]
        /\ sent = [ c \in Clients |-> Nobody ] /\ reply = [ c \in Clients |-> Nobody ]
        /\ authMode = "patched"
    BY DEF Init, RendezvousInit
  <1>2. ModeInv
    BY <1>1 DEF ModeInv, Modes
  <1>3. LinkInv
    BY <1>1 DEF LinkInv
  <1>4. WorkInv
    BY <1>1, Names DEF WorkInv
  <1>5. ReplyInv
    BY <1>1, Names DEF ReplyInv
  <1> QED
    BY <1>2, <1>3, <1>4, <1>5, MarkerStart DEF AnswerInv

LEMMA AnswerStep == AnswerInv /\ [Next]_vars => AnswerInv'
  BY MarkerStep, ModeKeeps, LinkKeeps, WorkKeeps, ReplyKeeps DEF AnswerInv, MarkerInv

\* authorize grants the request of the proof in the vulnerable mode only.
LEMMA AuthorizeFacts ==
    ASSUME NEW m \in Modes
    PROVE  authorize(m, ProofRequest).granted = (m = "intentionally-vulnerable")
  BY DEF authorize, ProofRequest, Modes, targetIdentity

\* rpf-authz-proof exits 0 only if its expectation is the one that fits the mode
\* of the target that answered it, one of a killed round included.
THEOREM ProofsShowMode == Spec => []ProofShowsMode
  <1>1. AnswerInv => ProofShowsMode
    <2> SUFFICES ASSUME AnswerInv, NEW c \in Clients, place[c] = "ok", mode[c] # Nobody
                 PROVE  ExpectFor(mode[peer[c]]) = mode[c]
      BY DEF ProofShowsMode
    <2>1. /\ reply[c].granted = (mode[c] = "grant") /\ mode[peer[c]] \in Modes
          /\ reply[c] = authorize(mode[peer[c]], ProofRequest)
      BY DEF AnswerInv, ReplyInv
    <2>2. (mode[c] = "grant") = (mode[peer[c]] = "intentionally-vulnerable")
      BY <2>1, AuthorizeFacts
    <2>3. mode[c] \in Expectations
      <3>1. c[1] \in { "callback", "proof" } /\ c \in Peers
        BY LabAssumption, Names
      <3> QED
        BY <3>1 DEF AnswerInv, ModeInv
    <2> QED
      BY <2>1, <2>2, <2>3 DEF ExpectFor, Expectations, Modes
  <1> QED
    BY <1>1, AnswerStart, AnswerStep, PTL DEF Spec

-----------------------------------------------------------------------------
(* A script that passes did its work                                       *)

\* What a step does to the fixtures.
LEMMA FixtureMoves ==
    ASSUME ConfineInv, RoundInv, [Next]_vars
    PROVE  \/ UNCHANGED << fixtures, bytes >>
           \/ \E j \in FixtureJobs : HandStep(j)
           \/ \E j \in FixtureJobs :
                 /\ fixture[j] = "idle" /\ fixture' = [ fixture EXCEPT ![j] = "check" ]
                 /\ UNCHANGED << fd, script, files >> /\ stage[j] = "exec"
  <1> USE DEF fixtures, files
  <1>1. LabTypes
    BY DEF ConfineInv
  <1>2. CASE ScriptStep /\ (ScriptOnly \/ StartMock \/ (\E j \in Jobs : LaunchJob(j)) \/ Trap)
    BY <1>2 DEF ScriptOnly, StartMock, LaunchJob, StartProgram, Trap, Cleanup
  <1>3. ASSUME NEW j \in DOMAIN helper, Helping(j) PROVE UNCHANGED << fixtures, bytes >>
    BY <1>3 DEF Helping, Others
  <1>4. ASSUME NEW j \in DOMAIN helper, Become(j)
        PROVE  \/ UNCHANGED << fixtures, bytes >>
               \/ /\ j \in FixtureJobs /\ fixture[j] = "idle" /\ fixture' = [ fixture EXCEPT ![j] = "check" ]
                  /\ UNCHANGED << fd, script, files >> /\ stage[j] = "exec"
    <2>1. CASE j \in FixtureJobs
      <3>1. stage[j] = "exec" /\ j \in Jobs
        BY <1>4, <2>1 DEF Become, Exec, FixtureJobs
      <3>2. j[2] # 0
        BY <3>1 DEF RoundInv
      <3>3. fixture[j] = "idle"
        BY <2>1, <3>1, <3>2 DEF ConfineInv, RunInv
      <3> QED
        BY <1>4, <2>1, <3>1, <3>3 DEF Become
    <2>2. CASE j \notin FixtureJobs
      BY <1>4, <2>2 DEF Become
    <2> QED
      BY <2>1, <2>2
  <1>5. ASSUME NEW p \in Peers, PeerStep(p) PROVE UNCHANGED << fixtures, bytes >>
    BY <1>5 DEF PeerStep, Others
  <1>6. UNCHANGED vars => UNCHANGED << fixtures, bytes >>
    BY DEF vars
  <1> QED
    BY <1>1, <1>2, <1>3, <1>4, <1>5, <1>6, LabSteps

\* The step of a fixture, by its place.
LEMMA HandMoves ==
    ASSUME ConfineInv, NEW j \in FixtureJobs, HandStep(j)
    PROVE  /\ fixture[j] \notin PeerEnded /\ \A k \in FixtureJobs \ {j} : fixture'[k] = fixture[k]
           /\ \/ /\ UNCHANGED << fd, bytes >>
                 /\ \/ fixture[j] \in { "idle", "check", "read", "open", "truncate", "write", "sync" }
                          /\ fixture'[j] = "failed"
                    \/ fixture[j] = "idle" /\ fixture'[j] = "check"
                    \/ fixture[j] = "check" /\ fixture'[j] = IF j[1] = "build" THEN "open" ELSE "read"
                    \/ fixture[j] = "read" /\ fixture'[j] = "ok"
                    \/ fixture[j] = "sync" /\ fixture'[j] = "ok"
              \/ /\ fixture[j] = "open" /\ fixture'[j] = "truncate" /\ artifact # 0
                 /\ fd' = [ fd EXCEPT ![j] = artifact ] /\ UNCHANGED bytes
              \/ /\ fixture[j] = "truncate" /\ fixture'[j] = "write"
                 /\ bytes' = [ bytes EXCEPT ![fd[j]] = "empty" ] /\ UNCHANGED fd
              \/ /\ fixture[j] = "write" /\ fixture'[j] = "sync"
                 /\ bytes' = [ bytes EXCEPT ![fd[j]] = "whole" ] /\ UNCHANGED fd
              \/ /\ fixture[j] = "write" /\ fixture'[j] = "failed"
                 /\ bytes' = [ bytes EXCEPT ![fd[j]] = "part" ] /\ UNCHANGED fd
  <1>1. fixture \in [ FixtureJobs -> FixturePlaces ]
    BY DEF ConfineInv, LabTypes, ProcessTypes
  <1> USE <1>1 DEF FixtureGoes, files, PeerEnded
  <1>2. CASE StartByHand(j)
    BY <1>2 DEF StartByHand
  <1>3. CASE CheckFixture(j)
    BY <1>3 DEF CheckFixture
  <1>4. CASE ReadManifest(j)
    BY <1>4 DEF ReadManifest
  <1>5. CASE OpenArtifact(j)
    BY <1>5 DEF OpenArtifact
  <1>6. CASE TruncateArtifact(j)
    BY <1>6 DEF TruncateArtifact
  <1>7. CASE WriteArtifact(j)
    BY <1>7 DEF WriteArtifact
  <1>8. CASE SyncArtifact(j)
    BY <1>8 DEF SyncArtifact
  <1>9. CASE FixtureError(j)
    <2>1. fixture[j] \notin { "ok", "failed", "idle" } /\ fixture' = [ fixture EXCEPT ![j] = "failed" ] /\ UNCHANGED fd
      BY <1>9 DEF FixtureError
    <2>2. bytes' = bytes \/ (fixture[j] = "write" /\ bytes' = [ bytes EXCEPT ![fd[j]] = "part" ])
      BY <1>9 DEF FixtureError
    <2> QED
      BY <2>1, <2>2 DEF FixturePlaces
  <1> QED
    BY <1>2, <1>3, <1>4, <1>5, <1>6, <1>7, <1>8, <1>9 DEF HandStep, FixtureStep

\* A program that ended well stays so.
LEMMA OkStays ==
    ASSUME MarkerInv, [Next]_vars, NEW j \in Jobs \cup Servers, JobOk(j)
    PROVE  JobOk(j)'
  <1>1. /\ place \in [ Peers -> PeerPlaces ] /\ Servers \subseteq Peers
        /\ SocketTypes /\ PositionInv /\ ConfineInv /\ RoundInv
        /\ fixture \in [ FixtureJobs -> FixturePlaces ]
    BY Names DEF MarkerInv, ConfineInv, LabTypes, ProcessTypes
  <1>2. CASE j \in FixtureJobs
    <2>1. fixture[j] = "ok"
      BY <1>2 DEF JobOk
    <2>2. fixture'[j] = "ok"
      BY <1>1, <1>2, <2>1, FixtureMoves, HandMoves DEF fixtures, PeerEnded
    <2> QED
      BY <1>2, <2>2 DEF JobOk
  <1>3. CASE j \notin FixtureJobs
    <2>1. place[j] = "ok" /\ j \in Peers
      BY <1>3, Names DEF JobOk
    <2>2. ASSUME NEW s \in Servers, ServerStep(s), \A p \in Peers \ {s} : place'[p] = place[p]
          PROVE  place'[j] = "ok"
      <3>1. place[s] # "ok"
        BY <2>2, ServerMoves DEF Accept, ReadMessage
      <3> QED
        BY <2>1, <2>2, <3>1
    <2>3. ASSUME NEW c \in Clients, ClientStep(c) PROVE place'[j] = "ok"
      BY <1>1, <2>1, <2>3, ClientMoves
    <2>4. place'[j] = "ok"
      BY <1>1, <2>1, <2>2, <2>3, OtherPlaces DEF PeerEnded
    <2> QED
      BY <1>3, <2>4 DEF JobOk
  <1> QED
    BY <1>2, <1>3

\* The artifact of a round is made before its programs are started, fixtures open
\* what they find, and the bytes are those of the last one to write.
ArtifactInv ==
    /\ artifact \in 0..MaxRounds /\ fd \in [ FixtureJobs -> 0..MaxRounds ]
    /\ bytes \in [ Rounds -> { "empty", "part", "whole" } ]
    /\ round > 0 /\ driver \in { "next", "poll", "wait", "collect", "passed" } => artifact = round
    /\ round > 0 /\ stage[Current("build")] # "idle" => artifact = round

OpenInv ==
    /\ \A j \in FixtureJobs : fixture[j] \in { "idle", "check", "open" } => fd[j] = 0
    /\ \A j \in FixtureJobs : fixture[j] \in { "truncate", "write" } => fd[j] # 0
    /\ \A j \in FixtureJobs : j[1] = "build" => fixture[j] # "read"

\* The fixture of round r wrote the artifact of that round.
Built(r) ==
    LET b == << "build", r >>
    IN  /\ fixture[b] \in { "truncate", "write", "sync", "ok" } => fd[b] = r
        /\ (/\ fixture[b] \in { "sync", "ok" }
            /\ \A j \in FixtureJobs \ {b} : fd[j] # r) => bytes[r] = "whole"

BuildInv == ArtifactInv /\ OpenInv /\ (round > 0 => Built(round))

\* What a step does to the script and to its artifact.
LEMMA ArtifactMoves ==
    ASSUME LabTypes, [Next]_vars
    PROVE  \/ UNCHANGED << script, artifact >>
           \/ StartScript /\ round' = round + 1 /\ driver' = "remove" /\ UNCHANGED << artifact, bytes, fixtures >>
           \/ /\ UNCHANGED << round, bytes, fixtures >>
              /\ \/ driver = "remove" /\ driver' = "create" /\ artifact' = 0 /\ UNCHANGED stage
                 \/ driver = "create" /\ driver' = "next" /\ artifact' = round /\ UNCHANGED stage
                 \/ driver \in { "next", "poll", "wait", "collect" } /\ UNCHANGED artifact
                 \/ driver' = "killed" /\ UNCHANGED artifact
  <1> USE DEF files, launcher
  <1>1. CASE ScriptStep
    <2>1. CASE StartScript \/ RemoveArtifact \/ CreateArtifact \/ StartProgram \/ KillScript
      BY <2>1 DEF StartScript, RemoveArtifact, CreateArtifact, StartProgram, KillScript
    <2>2. CASE Poll \/ WaitProgram \/ WaitServer \/ FinishScript
      BY <2>2 DEF Poll, WaitProgram, WaitServer, FinishScript, Continue, Cleanup
    <2> QED
      BY <1>1, <2>1, <2>2 DEF ScriptStep, DriverStep
  <1>2. ASSUME NEW j \in DOMAIN helper, Helping(j) \/ Become(j) PROVE UNCHANGED << script, artifact >>
    BY <1>2 DEF Helping, Become, Others
  <1>3. ASSUME NEW p \in Peers, PeerStep(p) PROVE UNCHANGED << script, artifact >>
    BY <1>3 DEF PeerStep, Others
  <1>4. ASSUME NEW j \in FixtureJobs, HandStep(j) PROVE UNCHANGED << script, artifact >>
    BY <1>4, HandFacts
  <1>5. UNCHANGED vars => UNCHANGED << script, artifact >>
    BY DEF vars
  <1> QED
    BY <1>1, <1>2, <1>3, <1>4, <1>5, LabSteps

LEMMA ArtifactKeeps ==
    ASSUME MarkerInv, BuildInv, [Next]_vars
    PROVE  ArtifactInv'
  <1>1. /\ ConfineInv /\ LabTypes /\ RoundInv /\ round \in 0..MaxRounds /\ ArtifactInv /\ OpenInv
        /\ MaxRounds \in Nat
    BY LabAssumption DEF MarkerInv, ConfineInv, LabTypes, ScriptTypes, BuildInv
  <1>2. round' \in 0..MaxRounds
    BY <1>1, ConfineStep DEF ConfineInv, LabTypes, ScriptTypes
  <1>3. artifact' \in 0..MaxRounds
    BY <1>1, ArtifactMoves DEF ArtifactInv
  <1>4. fd' \in [ FixtureJobs -> 0..MaxRounds ] /\ bytes' \in [ Rounds -> { "empty", "part", "whole" } ]
    <2>1. ASSUME NEW j \in FixtureJobs, HandStep(j)
          PROVE  fd' \in [ FixtureJobs -> 0..MaxRounds ] /\ bytes' \in [ Rounds -> { "empty", "part", "whole" } ]
      BY <1>1, <2>1, HandMoves DEF ArtifactInv
    <2> QED
      BY <1>1, <2>1, FixtureMoves DEF fixtures, files, ArtifactInv
  <1>5. round' > 0 /\ driver' \in { "next", "poll", "wait", "collect", "passed" } => artifact' = round'
    BY <1>1, ArtifactMoves DEF ArtifactInv, script
  <1>6. ASSUME round' > 0, stage'[<< "build", round' >>] # "idle" PROVE artifact' = round'
    <2> DEFINE b == << "build", round' >>
    <2>1. b \in Jobs /\ b[2] = round'
      BY <1>2, <1>6, LabAssumption DEF Rounds
    <2>2. CASE LaunchJob(b)
      <3>1. driver = "next" /\ UNCHANGED << artifact, round >>
        BY <2>2 DEF LaunchJob, StartProgram, files
      <3> QED
        BY <1>6, <3>1 DEF ArtifactInv, BuildInv
    <2>3. CASE ~LaunchJob(b)
      <3>1. stage[b] # "idle"
        BY <1>1, <1>6, <2>1, <2>3, StageIdle
      <3>2. ~(round' = round + 1)
        BY <1>1, <2>1, <3>1 DEF RoundInv
      <3>3. round' = round
        BY <1>1, <3>2, ArtifactMoves DEF script
      <3>4. b = Current("build") /\ artifact = round
        BY <1>1, <1>6, <3>1, <3>3 DEF ArtifactInv, Current
      <3>5. driver \notin { "remove", "create" }
        BY <1>1, <2>1, <3>1, <3>3 DEF RoundInv
      <3>6. UNCHANGED artifact
        BY <1>1, <3>2, <3>5, ArtifactMoves
      <3> QED
        BY <3>3, <3>4, <3>6
    <2> QED
      BY <2>2, <2>3
  <1> QED
    BY <1>3, <1>4, <1>5, <1>6 DEF ArtifactInv, Current

LEMMA OpenKeeps ==
    ASSUME MarkerInv, BuildInv, [Next]_vars
    PROVE  OpenInv'
  <1>1. /\ ConfineInv /\ RoundInv /\ OpenInv /\ fd \in [ FixtureJobs -> 0..MaxRounds ]
        /\ fixture \in [ FixtureJobs -> FixturePlaces ]
    BY DEF MarkerInv, ConfineInv, LabTypes, ProcessTypes, BuildInv, ArtifactInv
  <1>2. CASE UNCHANGED << fixtures, bytes >>
    BY <1>1, <1>2 DEF OpenInv, fixtures
  <1>3. ASSUME NEW j \in FixtureJobs, HandStep(j) PROVE OpenInv'
    <2>1. \A k \in FixtureJobs \ {j} : fixture'[k] = fixture[k] /\ fd'[k] = fd[k]
      BY <1>1, <1>3, HandMoves
    <2>2. /\ fixture'[j] \in { "idle", "check", "open" } => fd'[j] = 0
          /\ fixture'[j] \in { "truncate", "write" } => fd'[j] # 0
          /\ j[1] = "build" => fixture'[j] # "read"
      BY <1>1, <1>3, HandMoves DEF OpenInv
    <2> QED
      BY <1>1, <2>1, <2>2 DEF OpenInv
  <1>4. ASSUME NEW j \in FixtureJobs, fixture[j] = "idle",
               fixture' = [ fixture EXCEPT ![j] = "check" ], UNCHANGED fd
        PROVE  OpenInv'
    BY <1>1, <1>4 DEF OpenInv
  <1> QED
    BY <1>1, <1>2, <1>3, <1>4, FixtureMoves

LEMMA BuiltKeeps ==
    ASSUME MarkerInv, BuildInv, [Next]_vars, round' > 0
    PROVE  Built(round)'
  <1> DEFINE r == round'
             b == << "build", r >>
  <1>1. /\ ConfineInv /\ RoundInv /\ OpenInv /\ ArtifactInv /\ LabTypes
        /\ fd \in [ FixtureJobs -> 0..MaxRounds ] /\ bytes \in [ Rounds -> { "empty", "part", "whole" } ]
        /\ fixture \in [ FixtureJobs -> FixturePlaces ] /\ round \in 0..MaxRounds
    BY DEF MarkerInv, ConfineInv, LabTypes, ProcessTypes, ScriptTypes, BuildInv, ArtifactInv
  <1>2. r \in Rounds /\ r # 0
    BY ConfineStep, LabAssumption DEF MarkerInv, ConfineInv, LabTypes, ScriptTypes, Rounds
  <1>3. b \in FixtureJobs /\ b \in Jobs /\ b[1] = "build" /\ b[2] = r
    BY <1>2, LabAssumption DEF FixtureJobs
  <1>4. fixture[b] # "idle" => stage[b] = "running"
    BY <1>1, <1>2, <1>3 DEF ConfineInv, RunInv
  <1>5. SUFFICES /\ fixture'[b] \in { "truncate", "write", "sync", "ok" } => fd'[b] = r
                 /\ (/\ fixture'[b] \in { "sync", "ok" }
                     /\ \A j \in FixtureJobs \ {b} : fd'[j] # r) => bytes'[r] = "whole"
    BY DEF Built
  <1>6. CASE r = round + 1
    <2>1. UNCHANGED << bytes, fixtures >>
      BY <1>1, <1>6, ArtifactMoves DEF script
    <2>2. fixture[b] = "idle"
      BY <1>1, <1>3, <1>4, <1>6 DEF RoundInv
    <2> QED
      BY <2>1, <2>2 DEF fixtures
  <1>7. CASE r = round
    <2>1. /\ fixture[b] \in { "truncate", "write", "sync", "ok" } => fd[b] = r
          /\ (/\ fixture[b] \in { "sync", "ok" }
              /\ \A j \in FixtureJobs \ {b} : fd[j] # r) => bytes[r] = "whole"
      BY <1>7 DEF BuildInv, Built
    <2>2. fixture[b] # "idle" => artifact = r
      BY <1>1, <1>4, <1>7 DEF ArtifactInv, Current
    <2> HIDE DEF b, r
    <2>3. CASE UNCHANGED << fixtures, bytes >>
      BY <2>1, <2>3 DEF fixtures
    <2>4. ASSUME NEW j \in FixtureJobs, fixture[j] = "idle",
                 fixture' = [ fixture EXCEPT ![j] = "check" ], UNCHANGED << fd, bytes >>
          PROVE  /\ fixture'[b] \in { "truncate", "write", "sync", "ok" } => fd'[b] = r
                 /\ (/\ fixture'[b] \in { "sync", "ok" }
                     /\ \A k \in FixtureJobs \ {b} : fd'[k] # r) => bytes'[r] = "whole"
      BY <1>1, <1>3, <2>1, <2>4
    <2>5. CASE HandStep(b)
      <3>1. fixture'[b] \in { "truncate", "write", "sync", "ok" } => fd'[b] = r
        BY <1>1, <1>3, <2>1, <2>2, <2>5, HandMoves DEF OpenInv
      <3>2. (/\ fixture'[b] \in { "sync", "ok" }
             /\ \A k \in FixtureJobs \ {b} : fd'[k] # r) => bytes'[r] = "whole"
        <4> SUFFICES ASSUME fixture'[b] \in { "sync", "ok" }, \A k \in FixtureJobs \ {b} : fd'[k] # r
                     PROVE  bytes'[r] = "whole"
          OBVIOUS
        <4>1. CASE fixture[b] = "write" /\ bytes' = [ bytes EXCEPT ![fd[b]] = "whole" ]
          BY <1>1, <1>2, <2>1, <4>1
        <4>2. CASE fixture[b] = "sync" /\ UNCHANGED << fd, bytes >>
          BY <2>1, <4>2
        <4> QED
          BY <1>1, <1>3, <2>5, <4>1, <4>2, HandMoves DEF OpenInv
      <3> QED
        BY <3>1, <3>2
    <2>6. ASSUME NEW j \in FixtureJobs \ {b}, HandStep(j)
          PROVE  /\ fixture'[b] \in { "truncate", "write", "sync", "ok" } => fd'[b] = r
                 /\ (/\ fixture'[b] \in { "sync", "ok" }
                     /\ \A k \in FixtureJobs \ {b} : fd'[k] # r) => bytes'[r] = "whole"
      <3>1. /\ fixture'[b] = fixture[b] /\ \A k \in FixtureJobs \ {j} : fd'[k] = fd[k]
            /\ fd'[j] = fd[j] \/ fd[j] = 0
        BY <1>1, <1>3, <2>6, HandMoves DEF OpenInv
      <3>2. fd'[j] # r => fd[j] # r
        BY <1>2, <3>1
      <3>3. fd'[j] # r => bytes'[r] = bytes[r]
        BY <1>1, <1>2, <2>6, HandMoves
      <3>4. (\A k \in FixtureJobs \ {b} : fd'[k] # r) => \A k \in FixtureJobs \ {b} : fd[k] # r
        BY <3>1, <3>2
      <3> QED
        BY <1>3, <2>1, <2>6, <3>1, <3>3, <3>4
    <2> QED
      BY <1>1, <2>3, <2>4, <2>5, <2>6, FixtureMoves DEF files
  <1> QED
    BY <1>1, <1>6, <1>7, ArtifactMoves DEF script

\* The server a script has to wait for, with n programs to start and at place d.
Awaited(s, n, d) ==
    IF n = 0 \/ (d # "poll" /\ (n = 4 \/ (n = 2 /\ s[4] = "proof"))) THEN Nobody
    ELSE IF s[4] = "proof" /\ n <= 2 THEN Current("target") ELSE Current("mock")

\* What script s has started ended well, but for the server it waits for and
\* the proof, whose result is read at the end.
Done(s) ==
    /\ background = Awaited(s, Len(todo), driver)
    /\ \A i \in 1..(4 - Len(todo)) :
          s[i] = "proof" \/ Current(s[i]) = background \/ JobOk(Current(s[i]))
    /\ driver = "poll" => Head(todo) \in ServerPrograms
    /\ driver = "wait" => Head(todo) \notin ServerPrograms
    /\ driver = "collect" => /\ Head(todo) \in { "callback", "proof" }
                             /\ Head(todo) = "proof" \/ JobOk(Current(Head(todo)))
    /\ driver = "passed" => todo = << >> /\ \A i \in 1..4 : JobOk(Current(s[i]))

DoneInv ==
    round > 0 /\ driver \notin { "failed", "killed" } => \E s \in Scripts : Position(s) /\ Done(s)

\* The program the script stands at.
LEMMA HeadFacts ==
    ASSUME NEW s \in Scripts, Position(s), LabTypes, todo # << >>
    PROVE  /\ Len(todo) \in 1..4 /\ Head(todo) = s[5 - Len(todo)]
           /\ Len(todo) = 4 => Head(todo) = "mock"
           /\ s[4] = "proof" => /\ Len(todo) = 3 => Head(todo) = "callback"
                                /\ Len(todo) = 2 => Head(todo) = "target"
                                /\ Len(todo) = 1 => Head(todo) = "proof"
           /\ s[4] # "proof" => /\ Len(todo) = 3 => Head(todo) = "package"
                                /\ Len(todo) = 2 => Head(todo) = "build"
                                /\ Len(todo) = 1 => Head(todo) = "callback"
  <1>1. Len(todo) \in Nat \ {0} /\ Head(todo) = todo[1]
    BY TailFacts DEF LabTypes, ScriptTypes
  <1>2. \A n \in Nat \ {0} : n <= 4 => n \in 1..4
    OBVIOUS
  <1>3. Len(todo) \in 1..4
    BY <1>1, <1>2 DEF Position
  <1>4. todo[1] = s[4 - Len(todo) + 1]
    BY <1>1, <1>3 DEF Position
  <1>5. \A n \in 1..4 : 4 - n + 1 = 5 - n
    OBVIOUS
  <1>6. Head(todo) = s[5 - Len(todo)]
    BY <1>1, <1>3, <1>4, <1>5
  <1>7. \/ s = << "mock", "package", "build", "callback" >>
        \/ s = << "mock", "callback", "target", "proof" >>
    BY LabAssumption
  <1>8. /\ Len(todo) = 4 => Head(todo) = s[1]
        /\ Len(todo) = 3 => Head(todo) = s[2]
        /\ Len(todo) = 2 => Head(todo) = s[3]
        /\ Len(todo) = 1 => Head(todo) = s[4]
    <2>1. 5 - 4 = 1 /\ 5 - 3 = 2 /\ 5 - 2 = 3 /\ 5 - 1 = 4
      OBVIOUS
    <2> QED
      BY <1>3, <1>6, <2>1
  <1>9. CASE s = << "mock", "package", "build", "callback" >>
    BY <1>3, <1>6, <1>8, <1>9
  <1>10. CASE s = << "mock", "callback", "target", "proof" >>
    BY <1>3, <1>6, <1>8, <1>10
  <1> QED
    BY <1>7, <1>9, <1>10

\* Every program of a script is a process of the lab in its round.
LEMMA ScriptJobs ==
    ASSUME NEW s \in Scripts, NEW i \in 1..4, LabTypes, round > 0
    PROVE  Current(s[i]) \in Jobs \cup Servers /\ Current(s[i]) # Nobody
  <1>1. round \in Rounds
    BY DEF LabTypes, ScriptTypes, Rounds
  <1>2. s[i] \in Programs
    BY ScriptFacts
  <1>3. Current(s[i]) \in Jobs \cup Servers
    BY <1>1, <1>2, LabAssumption DEF Current, Programs, ServerPrograms
  <1> QED
    BY <1>3, LabAssumption DEF Peers

\* Steps within a round leave the script its results.
LEMMA ResultsStay ==
    ASSUME MarkerInv, [Next]_vars, NEW s \in Scripts, NEW i \in 1..4, round > 0, UNCHANGED round,
           JobOk(Current(s[i]))
    PROVE  JobOk(Current(s[i]))'
  <1> DEFINE j == Current(s[i])
  <1>1. j \in Jobs \cup Servers
    BY ScriptJobs DEF MarkerInv, ConfineInv
  <1>2. j = << s[i], round' >>
    BY DEF Current
  <1> HIDE DEF j
  <1>3. JobOk(j)
    BY DEF j
  <1>4. IF j \in FixtureJobs THEN fixture'[j] = "ok" ELSE place'[j] = "ok"
    BY <1>1, <1>3, OkStays DEF JobOk
  <1> QED
    BY <1>2, <1>4 DEF JobOk, Current

\* Steps that leave the script alone.
LEMMA DoneStays ==
    ASSUME MarkerInv, [Next]_vars, NEW s \in Scripts, Position(s), Done(s), round > 0,
           UNCHANGED << round, todo, background, driver >>
    PROVE  Done(s)'
  <1>1. LabTypes /\ Len(todo) \in Nat
    BY DEF MarkerInv, ConfineInv, LabTypes, ScriptTypes
  <1>2. \A i \in 1..4 : JobOk(Current(s[i])) => JobOk(Current(s[i]))'
    BY ResultsStay
  <1>3. \A i \in 1..(4 - Len(todo)) : i \in 1..4
    <2>1. \A n \in Nat : \A i \in 1..(4 - n) : i \in 1..4
      OBVIOUS
    <2> QED
      BY <1>1, <2>1
  <1>4. background' = Awaited(s, Len(todo), driver)'
    BY DEF Done, Awaited, Current
  <1>5. \A i \in 1..(4 - Len(todo')) :
            s[i] = "proof" \/ Current(s[i])' = background' \/ JobOk(Current(s[i]))'
    BY <1>2, <1>3 DEF Done, Current
  <1>6. driver' = "collect" => /\ Head(todo') \in { "callback", "proof" }
                               /\ Head(todo') = "proof" \/ JobOk(Current(Head(todo)))'
    <2> SUFFICES ASSUME driver = "collect", JobOk(Current(Head(todo))) PROVE JobOk(Current(Head(todo)))'
      BY DEF Done
    <2>1. todo # << >>
      BY <1>1 DEF LabTypes, ScriptTypes
    <2>2. Head(todo) = s[5 - Len(todo)] /\ 5 - Len(todo) \in 1..4
      <3>1. \A n \in 1..4 : 5 - n \in 1..4
        OBVIOUS
      <3> QED
        BY <1>1, <2>1, <3>1, HeadFacts
    <2> QED
      BY <1>2, <2>2
  <1>7. driver' = "passed" => todo' = << >> /\ \A i \in 1..4 : JobOk(Current(s[i]))'
    BY <1>2 DEF Done
  <1> QED
    BY <1>4, <1>5, <1>6, <1>7 DEF Done

LEMMA DoneAdvances ==
    ASSUME MarkerInv, [Next]_vars, NEW s \in Scripts, Position(s), Done(s), round > 0, UNCHANGED round,
           todo # << >>, todo' = Tail(todo), driver' = "next",
           background' = Awaited(s, Len(todo) - 1, "next"),
           Head(todo) = "proof" \/ Current(Head(todo)) = background' \/ JobOk(Current(Head(todo))),
           background' = background \/ JobOk(background)
    PROVE  Done(s)'
  <1> DEFINE n == Len(todo)
  <1>1. LabTypes /\ n \in 1..4 /\ Head(todo) = s[5 - n] /\ Len(todo') = n - 1
    BY HeadFacts, TailFacts DEF MarkerInv, ConfineInv, LabTypes, ScriptTypes
  <1>2. \A i \in 1..4 : JobOk(Current(s[i])) => JobOk(Current(s[i]))'
    BY ResultsStay
  <1>3. \A i \in 1..(4 - n) :
            s[i] = "proof" \/ Current(s[i]) = background \/ JobOk(Current(s[i]))
    BY DEF Done
  <1>4. \A p : Current(p)' = Current(p)
    BY DEF Current
  <1>5. background' = Awaited(s, Len(todo), driver)'
    BY <1>1 DEF Awaited, Current
  <1> HIDE DEF n
  <1>6. \A i \in 1..(4 - (n - 1)) : i \in 1..4 /\ (i \in 1..(4 - n) \/ i = 5 - n)
    BY <1>1
  <1>7. ASSUME NEW i \in 1..(4 - (n - 1))
        PROVE  s[i] = "proof" \/ Current(s[i])' = background' \/ JobOk(Current(s[i]))'
    <2>1. i \in 1..4
      BY <1>6
    <2>2. CASE i \in 1..(4 - n)
      <3>1. s[i] = "proof" \/ Current(s[i]) = background' \/ JobOk(Current(s[i]))
        BY <1>3, <2>2
      <3> QED
        BY <1>2, <2>1, <3>1 DEF Current
    <2>3. CASE i = 5 - n
      <3>1. s[i] = "proof" \/ Current(s[i]) = background' \/ JobOk(Current(s[i]))
        BY <1>1, <2>3
      <3> QED
        BY <1>2, <2>1, <3>1 DEF Current
    <2> QED
      BY <1>6, <2>2, <2>3
  <1>8. \A i \in 1..(4 - Len(todo')) :
            s[i] = "proof" \/ Current(s[i])' = background' \/ JobOk(Current(s[i]))'
    BY <1>1, <1>7
  <1> QED
    BY <1>5, <1>8 DEF Done

\* A server that is up joins the ones the script waits for.
LEMMA DonePolls ==
    ASSUME MarkerInv, [Next]_vars, NEW s \in Scripts, Position(s), Done(s), round > 0,
           driver = "poll", Continue("next")
    PROVE  Done(s)'
  <1>1. LabTypes /\ todo # << >> /\ Head(todo) \in ServerPrograms
    BY DEF MarkerInv, ConfineInv, LabTypes, ScriptTypes, Done
  <1>2. \/ Len(todo) = 4 /\ Head(todo) = "mock"
        \/ Len(todo) = 2 /\ s[4] = "proof" /\ Head(todo) = "target"
    <2>1. \A n \in 1..4 : n = 4 \/ n = 3 \/ n = 2 \/ n = 1
      OBVIOUS
    <2> QED
      BY <1>1, <2>1, HeadFacts DEF ServerPrograms
  <1>3. background = Awaited(s, Len(todo), "poll")
    BY DEF Done
  <1>4. background = Current(Head(todo)) /\ background = Awaited(s, Len(todo) - 1, "next")
    <2>1. 4 - 1 = 3 /\ 2 - 1 = 1
      OBVIOUS
    <2>2. CASE Len(todo) = 4 /\ Head(todo) = "mock"
      <3>1. Awaited(s, 4, "poll") = Current("mock") /\ Awaited(s, 3, "next") = Current("mock")
        BY DEF Awaited
      <3> QED
        BY <1>3, <2>1, <2>2, <3>1
    <2>3. CASE Len(todo) = 2 /\ s[4] = "proof" /\ Head(todo) = "target"
      <3>1. Awaited(s, 2, "poll") = Current("target") /\ Awaited(s, 1, "next") = Current("target")
        BY <2>3 DEF Awaited
      <3> QED
        BY <1>3, <2>1, <2>3, <3>1
    <2> QED
      BY <1>2, <2>2, <2>3
  <1>5. todo' = Tail(todo) /\ driver' = "next" /\ UNCHANGED << round, background >>
    BY DEF Continue, Advance
  <1> QED
    BY <1>1, <1>4, <1>5, DoneAdvances

\* A program of the foreground ended well.
LEMMA DoneWaits ==
    ASSUME MarkerInv, [Next]_vars, NEW s \in Scripts, Position(s), Done(s), round > 0,
           driver = "wait", JobOk(Current(Head(todo))) \/ Head(todo) = "proof",
           Continue(IF Current(Head(todo)) \in Clients THEN "collect" ELSE "next")
    PROVE  Done(s)'
  <1>1. LabTypes /\ todo # << >> /\ Head(todo) \notin ServerPrograms /\ round \in Rounds
    BY DEF MarkerInv, ConfineInv, LabTypes, ScriptTypes, Done, Rounds
  <1>2. Current(Head(todo)) \in Clients <=> Head(todo) \in { "callback", "proof" }
    BY <1>1, LabAssumption DEF Current
  <1>3. \A n \in 1..4 : n = 4 \/ n = 3 \/ n = 2 \/ n = 1
    OBVIOUS
  <1>4. CASE Head(todo) \in { "callback", "proof" }
    <2>1. driver' = "collect" /\ UNCHANGED << round, todo, background >>
      BY <1>2, <1>4 DEF Continue, Advance
    <2>2. Awaited(s, Len(todo), driver)' = Awaited(s, Len(todo), driver)
      BY <2>1 DEF Awaited, Current
    <2>3. \A i \in 1..4 : JobOk(Current(s[i])) => JobOk(Current(s[i]))'
      BY <2>1, ResultsStay
    <2>4. \A i \in 1..(4 - Len(todo)) : i \in 1..4
      <3>1. \A n \in 1..4 : \A i \in 1..(4 - n) : i \in 1..4
        OBVIOUS
      <3> QED
        BY <1>1, <3>1, HeadFacts
    <2>5. \A i \in 1..(4 - Len(todo')) :
              s[i] = "proof" \/ Current(s[i])' = background' \/ JobOk(Current(s[i]))'
      BY <2>1, <2>3, <2>4 DEF Done, Current
    <2>6. Head(todo') = "proof" \/ JobOk(Current(Head(todo)))'
      <3>1. Head(todo) = s[5 - Len(todo)] /\ 5 - Len(todo) \in 1..4
        <4>1. \A n \in 1..4 : 5 - n \in 1..4
          OBVIOUS
        <4> QED
          BY <1>1, <4>1, HeadFacts
      <3> QED
        BY <2>1, <2>3, <3>1
    <2> QED
      BY <1>4, <2>1, <2>2, <2>5, <2>6 DEF Done
  <1>5. CASE Head(todo) \notin { "callback", "proof" }
    <2>1. driver' = "next" /\ todo' = Tail(todo) /\ UNCHANGED << round, background >>
      BY <1>2, <1>5 DEF Continue, Advance
    <2>2. s[4] # "proof" /\ (Len(todo) = 3 \/ Len(todo) = 2)
      BY <1>1, <1>3, <1>5, HeadFacts DEF ServerPrograms
    <2>3. background = Awaited(s, Len(todo), "wait")
      BY DEF Done
    <2>4. background = Awaited(s, Len(todo) - 1, "next")
      <3>1. 3 - 1 = 2 /\ 2 - 1 = 1
        OBVIOUS
      <3>2. Len(todo) - 1 = 2 \/ Len(todo) - 1 = 1
        BY <2>2, <3>1
      <3>3. background = Current("mock")
        BY <2>2, <2>3 DEF Awaited
      <3> QED
        BY <2>2, <3>2, <3>3 DEF Awaited
    <2> QED
      BY <1>1, <1>5, <2>1, <2>4, DoneAdvances
  <1> QED
    BY <1>4, <1>5

LEMMA AwaitedFacts ==
    ASSUME NEW s, NEW d
    PROVE  /\ Awaited(s, 0, d) = Nobody /\ Awaited(s, 3, d) = Current("mock")
           /\ d # "poll" => Awaited(s, 4, d) = Nobody
           /\ Awaited(s, 4, "poll") = Current("mock")
           /\ s[4] # "proof" => Awaited(s, 2, d) = Current("mock") /\ Awaited(s, 1, d) = Current("mock")
           /\ s[4] = "proof" => /\ Awaited(s, 1, d) = Current("target")
                                /\ Awaited(s, 2, "poll") = Current("target")
                                /\ d # "poll" => Awaited(s, 2, d) = Nobody
  BY DEF Awaited

\* The server the script waited for ended well.
LEMMA DoneCollects ==
    ASSUME MarkerInv, [Next]_vars, NEW s \in Scripts, Position(s), Done(s), round > 0,
           driver = "collect", JobOk(background), Advance("next"), background' = Nobody, UNCHANGED round
    PROVE  Done(s)'
  <1>1. LabTypes /\ todo # << >> /\ Head(todo) \in { "callback", "proof" }
    BY DEF MarkerInv, ConfineInv, LabTypes, ScriptTypes, Done
  <1>2. todo' = Tail(todo) /\ driver' = "next"
    BY DEF Advance
  <1>3. Len(todo) = 1 \/ (Len(todo) = 3 /\ s[4] = "proof")
    <2>1. \A n \in 1..4 : n = 4 \/ n = 3 \/ n = 2 \/ n = 1
      OBVIOUS
    <2> QED
      BY <1>1, <2>1, HeadFacts
  <1>4. background' = Awaited(s, Len(todo) - 1, "next")
    <2>1. 1 - 1 = 0 /\ 3 - 1 = 2
      OBVIOUS
    <2>2. Len(todo) - 1 = 0 \/ (Len(todo) - 1 = 2 /\ s[4] = "proof")
      BY <1>3, <2>1
    <2> QED
      BY <2>2, AwaitedFacts
  <1>5. Head(todo) = "proof" \/ JobOk(Current(Head(todo)))
    BY DEF Done
  <1> QED
    BY <1>1, <1>2, <1>4, <1>5, DoneAdvances

\* The next program is started; a server in the background.
LEMMA DoneStarts ==
    ASSUME MarkerInv, [Next]_vars, NEW s \in Scripts, Position(s), Done(s), round > 0, StartProgram
    PROVE  Done(s)'
  <1>1. LabTypes /\ todo # << >> /\ driver = "next" /\ UNCHANGED << round, todo >>
    BY DEF MarkerInv, ConfineInv, StartProgram
  <1>2. Current(Head(todo))[1] = Head(todo)
    BY DEF Current
  <1>3. IF Head(todo) \in ServerPrograms
        THEN driver' = "poll" /\ background' = Current(Head(todo))
        ELSE driver' = "wait" /\ background' = background
    BY <1>2 DEF StartProgram
  <1>4. background = Awaited(s, Len(todo), "next")
    BY <1>1 DEF Done
  <1>5. \A n \in 1..4 : n = 4 \/ n = 3 \/ n = 2 \/ n = 1
    OBVIOUS
  <1>6. Len(todo) = 4 \/ Len(todo) = 3 \/ Len(todo) = 2 \/ Len(todo) = 1
    BY <1>1, <1>5, HeadFacts
  <1>7. /\ background' = Awaited(s, Len(todo), driver')
        /\ background' = background \/ background = Nobody
    <2>1. CASE Len(todo) = 4
      BY <1>1, <1>3, <1>4, <2>1, HeadFacts, AwaitedFacts DEF ServerPrograms
    <2>2. CASE Len(todo) = 3
      BY <1>1, <1>3, <1>4, <2>2, HeadFacts, AwaitedFacts DEF ServerPrograms
    <2>3. CASE Len(todo) = 2
      BY <1>1, <1>3, <1>4, <2>3, HeadFacts, AwaitedFacts DEF ServerPrograms
    <2>4. CASE Len(todo) = 1
      BY <1>1, <1>3, <1>4, <2>4, HeadFacts, AwaitedFacts DEF ServerPrograms
    <2> QED
      BY <1>6, <2>1, <2>2, <2>3, <2>4
  <1>8. background' = Awaited(s, Len(todo), driver)'
    BY <1>1, <1>7 DEF Awaited, Current
  <1>9. \A i \in 1..4 : /\ JobOk(Current(s[i])) => JobOk(Current(s[i]))'
                        /\ Current(s[i]) # Nobody
    BY <1>1, ResultsStay, ScriptJobs
  <1>10. \A i \in 1..(4 - Len(todo)) : i \in 1..4
    <2>1. \A n \in 1..4 : \A i \in 1..(4 - n) : i \in 1..4
      OBVIOUS
    <2> QED
      BY <1>1, <2>1, HeadFacts
  <1>11. \A i \in 1..(4 - Len(todo')) :
            s[i] = "proof" \/ Current(s[i])' = background' \/ JobOk(Current(s[i]))'
    BY <1>1, <1>7, <1>9, <1>10 DEF Done, Current
  <1> QED
    BY <1>1, <1>3, <1>8, <1>11 DEF Done

\* The script passes when everything it started ended well.
LEMMA DoneFinishes ==
    ASSUME MarkerInv, [Next]_vars, NEW s \in Scripts, Position(s), Done(s), round > 0,
           FinishScript, driver' # "failed"
    PROVE  Done(s)'
  <1>1. LabTypes /\ todo = << >> /\ driver = "next"
    BY DEF MarkerInv, ConfineInv, FinishScript
  <1>2. /\ driver' = IF "proof" \notin used \/ JobOk(Current("proof")) THEN "passed" ELSE "failed"
        /\ UNCHANGED << round, todo, background >>
    BY DEF FinishScript, Cleanup
  <1>3. driver' = "passed" /\ ("proof" \notin used \/ JobOk(Current("proof")))
    BY <1>2
  <1>4. Len(todo) = 0
    BY <1>1
  <1>5. background = Nobody
    <2>1. background = Awaited(s, 0, "next")
      BY <1>1, <1>4 DEF Done
    <2> QED
      BY <2>1, AwaitedFacts
  <1>6. \A i \in 1..4 : JobOk(Current(s[i]))
    <2>1. \A i \in 1..4 : s[i] = "proof" \/ Current(s[i]) = background \/ JobOk(Current(s[i]))
      BY <1>4 DEF Done
    <2>2. \A i \in 1..4 : s[i] = "proof" => "proof" \in used
      BY DEF Position
    <2> QED
      BY <1>1, <1>3, <1>5, <2>1, <2>2, ScriptJobs
  <1>7. \A i \in 1..4 : JobOk(Current(s[i]))'
    BY <1>2, <1>6, ResultsStay
  <1>8. background' = Awaited(s, Len(todo), driver)'
    BY <1>2, <1>4, <1>5 DEF Awaited
  <1>9. \A i \in 1..(4 - Len(todo')) : i \in 1..4
    BY <1>2, <1>4
  <1> QED
    BY <1>1, <1>2, <1>3, <1>7, <1>8, <1>9 DEF Done

\* Nothing was started yet.
LEMMA DonePrepares ==
    ASSUME NEW s \in Scripts, Len(todo') = 4, background' = Nobody,
           driver' \in { "remove", "create", "next" }
    PROVE  Done(s)'
  <1>1. background' = Awaited(s, Len(todo), driver)'
    BY DEF Awaited
  <1>2. \A i \in 1..(4 - Len(todo')) : FALSE
    <2>1. 4 - Len(todo') = 0
      BY 4 - 4 = 0
    <2> QED
      BY <2>1
  <1> QED
    BY <1>1, <1>2 DEF Done

LEMMA DoneKeeps ==
    ASSUME MarkerInv, DoneInv, [Next]_vars
    PROVE  DoneInv'
  <1>1. LabTypes /\ ConfineInv /\ round \in 0..MaxRounds
    BY DEF MarkerInv, ConfineInv, LabTypes, ScriptTypes
  <1>2. SUFFICES ASSUME round' > 0, driver' \notin { "failed", "killed" }
                 PROVE  \E s \in Scripts : Position(s)' /\ Done(s)'
    BY DEF DoneInv
  <1>3. CASE StartScript
    <2>1. background' = Nobody /\ driver' = "remove"
      BY <1>3 DEF StartScript
    <2>2. PICK s \in Scripts : Position(s)' /\ todo' = s /\ Len(todo') = 4
      BY <1>3, PositionStarts
    <2>3. Done(s)'
      BY <2>1, <2>2, DonePrepares
    <2> QED
      BY <2>2, <2>3
  <1>4. ASSUME ~StartScript, ScriptStep
        PROVE  \E s \in Scripts : Position(s)' /\ Done(s)'
    <2>1. round' = round /\ round > 0 /\ driver \notin { "failed", "killed" }
      BY <1>1, <1>2, <1>4, ScriptMoves DEF ScriptEnded
    <2>2. PICK s \in Scripts : Position(s) /\ Done(s)
      BY <2>1 DEF DoneInv
    <2>3. Position(s)'
      BY <1>1, <1>4, <2>2, PositionMoves
    <2>4. CASE RemoveArtifact \/ CreateArtifact
      <3>1. /\ driver \in { "remove", "create" } /\ driver' \in { "create", "next" }
            /\ UNCHANGED << todo, background >>
        BY <2>4 DEF RemoveArtifact, CreateArtifact
      <3>2. Len(todo) = 4 /\ Len(todo') = 4
        BY <2>2, <3>1 DEF Position
      <3>3. background = Nobody
        BY <2>2, <3>1, <3>2, AwaitedFacts DEF Done
      <3> QED
        BY <2>2, <2>3, <3>1, <3>2, <3>3, DonePrepares
    <2>5. CASE StartProgram
      BY <2>1, <2>2, <2>3, <2>5, DoneStarts
    <2>6. CASE Poll
      <3>1. CASE Continue("next")
        BY <2>1, <2>2, <2>3, <2>6, <3>1, DonePolls DEF Poll
      <3>2. CASE UNCHANGED << round, todo, background, driver >>
        BY <2>1, <2>2, <2>3, <3>2, DoneStays
      <3> QED
        BY <1>2, <2>6, <3>1, <3>2 DEF Poll, Cleanup
    <2>7. CASE WaitProgram
      <3>1. Current(Head(todo))[1] = Head(todo)
        BY DEF Current
      <3>2. ~Cleanup("failed")
        BY <1>2 DEF Cleanup
      <3>3. /\ JobOk(Current(Head(todo))) \/ Head(todo) = "proof"
            /\ Continue(IF Current(Head(todo)) \in Clients THEN "collect" ELSE "next")
        BY <2>7, <3>1, <3>2 DEF WaitProgram
      <3>4. driver = "wait"
        BY <2>7 DEF WaitProgram
      <3> QED
        BY <2>1, <2>2, <2>3, <3>3, <3>4, DoneWaits
    <2>8. CASE WaitServer
      <3>1. ~Cleanup("failed")
        BY <1>2 DEF Cleanup
      <3>2. driver = "collect" /\ JobOk(background) /\ Advance("next") /\ background' = Nobody
        BY <2>8, <3>1 DEF WaitServer
      <3> QED
        BY <2>1, <2>2, <2>3, <3>2, DoneCollects
    <2>9. CASE FinishScript
      BY <1>2, <2>1, <2>2, <2>3, <2>9, DoneFinishes
    <2>10. ~KillScript
      BY <1>2 DEF KillScript
    <2> QED
      BY <1>4, <2>4, <2>5, <2>6, <2>7, <2>8, <2>9, <2>10 DEF ScriptStep, DriverStep
  <1>5. CASE UNCHANGED script
    <2>1. UNCHANGED << round, todo, background, driver, used >>
      BY <1>5 DEF script
    <2>2. PICK s \in Scripts : Position(s) /\ Done(s)
      BY <1>2, <2>1 DEF DoneInv
    <2>3. Position(s)'
      BY <2>1, <2>2 DEF Position
    <2> QED
      BY <1>2, <2>1, <2>2, <2>3, DoneStays
  <1> QED
    BY <1>1, <1>3, <1>4, <1>5, ScriptAlone

\* The inductive invariant behind a script that passes.
PassInv == AnswerInv /\ BuildInv /\ DoneInv

LEMMA PassStart == Init => PassInv
  <1> SUFFICES ASSUME Init PROVE PassInv
    OBVIOUS
  <1>1. BuildInv
    BY LabAssumption DEF Init, BuildInv, ArtifactInv, OpenInv
  <1>2. DoneInv
    BY DEF Init, DoneInv
  <1> QED
    BY <1>1, <1>2, AnswerStart DEF PassInv

LEMMA PassStep == PassInv /\ [Next]_vars => PassInv'
  <1> SUFFICES ASSUME PassInv, [Next]_vars PROVE PassInv'
    OBVIOUS
  <1>1. MarkerInv /\ BuildInv /\ DoneInv /\ AnswerInv
    BY DEF PassInv, AnswerInv
  <1>2. BuildInv'
    BY <1>1, ArtifactKeeps, OpenKeeps, BuiltKeeps DEF BuildInv
  <1> QED
    BY <1>1, <1>2, DoneKeeps, AnswerStep DEF PassInv

\* A script that passes did what it was written for: all of its programs ended
\* well, its servers got a message, and nobody but a fixture that opened the same
\* artifact can have left it less than whole.
THEOREM PassedScriptsDidTheirWork == Spec => []PassedScriptDidItsWork
  <1>1. PassInv => PassedScriptDidItsWork
    <2> SUFFICES ASSUME PassInv, driver = "passed", round > 0
                 PROVE  /\ \A program \in used : JobOk(Current(program))
                        /\ \A program \in used \cap ServerPrograms :
                              /\ serving[Current(program)] # Nobody
                              /\ sent[serving[Current(program)]] # Nobody
                        /\ "build" \in used /\ (\A j \in FixtureJobs \ {Current("build")} : fd[j] # artifact)
                              => bytes[artifact] = "whole"
      BY DEF PassedScriptDidItsWork
    <2>1. PICK s \in Scripts : Position(s) /\ Done(s)
      BY DEF PassInv, DoneInv
    <2>2. \A program \in used : JobOk(Current(program))
      BY <2>1 DEF Position, Done
    <2>3. round \in Rounds
      BY DEF PassInv, AnswerInv, MarkerInv, ConfineInv, LabTypes, ScriptTypes, Rounds
    <2>4. ASSUME NEW program \in used \cap ServerPrograms
          PROVE  serving[Current(program)] # Nobody /\ sent[serving[Current(program)]] # Nobody
      <3>1. Current(program) \in Servers /\ Current(program) \notin FixtureJobs
        BY <2>3, LabAssumption, Names DEF Current, FixtureJobs, ServerPrograms, Peers
      <3>2. place[Current(program)] = "ok"
        BY <2>2, <3>1 DEF JobOk
      <3> QED
        BY <3>1, <3>2 DEF PassInv, AnswerInv, WorkInv
    <2>5. artifact = round /\ Built(round)
      BY DEF PassInv, BuildInv, ArtifactInv
    <2>6. ASSUME "build" \in used, \A j \in FixtureJobs \ {Current("build")} : fd[j] # artifact
          PROVE  bytes[artifact] = "whole"
      <3>1. Current("build") \in FixtureJobs
        BY <2>3, LabAssumption DEF Current, FixtureJobs
      <3>2. fixture[Current("build")] = "ok"
        BY <2>2, <2>6, <3>1 DEF JobOk
      <3> QED
        BY <2>5, <2>6, <3>2 DEF Built, Current
    <2> QED
      BY <2>2, <2>4, <2>6
  <1> QED
    BY <1>1, PassStart, PassStep, PTL DEF Spec
=============================================================================
