------------------------------ MODULE Launcher ------------------------------
(***************************************************************************)
(* rpf-cgroup-enter: the helper that moves itself into the lab cgroup,     *)
(* gives up its privileges and becomes the program it was asked to run.    *)
(*                                                                         *)
(* Linux keeps credentials per thread, and the Go scheduler may continue a *)
(* goroutine on another thread of the process after any step unless it is  *)
(* locked to its own.  A write to cgroup.procs moves all threads of the    *)
(* process, syscall.Setgid and Setuid change all of them, prctl and        *)
(* unix.Setgroups only the calling one.  exec keeps the calling thread.    *)
(***************************************************************************)
EXTENDS Integers

CONSTANTS
    Jobs,          \* processes the helper is started as
    Commands,      \* command lines it may be started with
    RuntimeThreads \* threads of the Go runtime of one helper process

labUID == 65534

VARIABLES
    stage,    \* job -> the step run() stands before
    helper,   \* job -> the state of its helper process, while that runs
    image     \* job -> what the program execed by its helper runs with

launcher == << stage, helper, image >>

-----------------------------------------------------------------------------
Root == [ uid |-> 0, gid |-> 0, groups |-> {0}, no_new_privs |-> FALSE ]

\* What every program of the lab is meant to run with.
LabImage ==
    [ cgroup |-> "lab", environment |-> "RPF_DISPOSABLE_LAB=1",
      uid |-> labUID, gid |-> labUID, groups |-> {}, no_new_privs |-> TRUE ]

\* A cgroup argument is what EvalSymlinks makes of it: directory and base name.
isDisposableLabCgroup(path) == path.dir = "/sys/fs/cgroup" /\ path.base = "rpf-"

LaunchAccepted(c) ==
    /\ c.usage
    /\ c.euid = 0
    /\ c.resolves
    /\ isDisposableLabCgroup(c.cgroup)
    /\ c.absolute

\* The helper process of a command: locked says whether the goroutine is locked
\* to the thread it is on.
NewHelper(c) ==
    [ command |-> c, locked |-> FALSE, on |-> CHOOSE t \in RuntimeThreads : TRUE,
      cred |-> [ t \in RuntimeThreads |-> Root ], cgroup |-> "host" ]

LauncherInit ==
    /\ stage = [ j \in Jobs |-> "idle" ]
    /\ helper = [ j \in {} |-> Root ]
    /\ image = [ j \in {} |-> Root ]

\* The helper is started as job j.
Launch(j, c) ==
    /\ stage[j] = "idle"
    /\ stage' = [ stage EXCEPT ![j] = "lock" ]
    /\ helper' = [ k \in DOMAIN helper \cup {j} |-> IF k = j THEN NewHelper(c) ELSE helper[k] ]
    /\ UNCHANGED image

\* From one step of run() to the next, with the helper process h after it.
Step(j, from, to, h) ==
    /\ stage[j] = from
    /\ stage' = [ stage EXCEPT ![j] = to ]
    /\ helper' = [ helper EXCEPT ![j] = h ]
    /\ UNCHANGED image

Gone(j) == [ k \in DOMAIN helper \ {j} |-> helper[k] ]

-----------------------------------------------------------------------------
(* main and run                                                            *)

\* Mutant: the goroutine stays free to move.
LockNothing(j) == Step(j, "lock", "check", helper[j])

LockOSThread(j) == Step(j, "lock", "check", [ helper[j] EXCEPT !.locked = TRUE ])

\* Usage, root, EvalSymlinks, the lab prefix and the absolute target, in turn.
CheckArguments(j) ==
    /\ Step(j, "check", "join", helper[j])
    /\ LaunchAccepted(helper[j].command)

EnterCgroup(j) == Step(j, "join", "no_new_privs", [ helper[j] EXCEPT !.cgroup = "lab" ])

\* One thread, or all of them, after a system call changed field to value.
OneThread(h, field, value) == [ h EXCEPT !.cred[h.on][field] = value ]
AllThreads(h, field, value) ==
    [ h EXCEPT !.cred = [ t \in RuntimeThreads |-> [ @[t] EXCEPT ![field] = value ] ] ]

SetNoNewPrivs(j) ==
    Step(j, "no_new_privs", "groups", OneThread(helper[j], "no_new_privs", TRUE))

Setgroups(j) == Step(j, "groups", "gid", OneThread(helper[j], "groups", {}))

Setgid(j) == Step(j, "gid", "uid", AllThreads(helper[j], "gid", labUID))

Setuid(j) == Step(j, "uid", "exec", AllThreads(helper[j], "uid", labUID))

\* The program runs with the calling thread's credentials and four variables.
Exec(j) ==
    /\ stage[j] = "exec"
    /\ stage' = [ stage EXCEPT ![j] = "running" ]
    /\ LET h == helper[j]
           c == h.cred[h.on]
           program == [ cgroup |-> h.cgroup, environment |-> "RPF_DISPOSABLE_LAB=1",
                        uid |-> c.uid, gid |-> c.gid, groups |-> c.groups,
                        no_new_privs |-> c.no_new_privs ]
       IN  image' = [ k \in DOMAIN image \cup {j} |-> IF k = j THEN program ELSE image[k] ]
    /\ helper' = Gone(j)

\* An argument is refused or a system call fails: the helper exits with 1.
LaunchError(j) ==
    /\ stage[j] \notin { "idle", "lock", "running", "failed" }
    /\ stage' = [ stage EXCEPT ![j] = "failed" ]
    /\ helper' = Gone(j)
    /\ UNCHANGED image

\* The scheduler continues the goroutine on another thread.
Reschedule(j) ==
    /\ ~helper[j].locked
    /\ \E t \in RuntimeThreads \ {helper[j].on} : helper' = [ helper EXCEPT ![j].on = t ]
    /\ UNCHANGED << stage, image >>

\* What the helper does before it has become the program.
LaunchStep(j) ==
    \/ LockOSThread(j) \/ CheckArguments(j) \/ EnterCgroup(j) \/ SetNoNewPrivs(j)
    \/ Setgroups(j) \/ Setgid(j) \/ Setuid(j) \/ LaunchError(j)
=============================================================================
