----------------------------- MODULE KernelSensor -----------------------------
(***************************************************************************)
(* The BPF programs of internal/sensor/bpf/sensor.bpf.c, the order in      *)
(* which sensor.Open attaches them, and the steps of Sensor.Close.         *)
(*                                                                         *)
(* A thread runs one program at a time, but programs of different threads  *)
(* run on different CPUs: between the reservation of a ring slot and its   *)
(* submission, and between the two counters a correlation failure bumps,   *)
(* every other thread may take steps.  The pair of openat programs talks   *)
(* through pending_opens, a bounded map keyed by the thread, and the       *)
(* thread may be moved between cgroups while the system call runs.         *)
(*                                                                         *)
(* External: threads, their system calls and cgroup moves, and the reader  *)
(* that takes submitted slots off the ring in order.                       *)
(***************************************************************************)
EXTENDS Integers, Sequences, FiniteSets

CONSTANTS
    Threads,        \* threads of the host
    LeaderOf,       \* thread -> the leader of its process (its TGID)
    StartTime,      \* thread -> start_boottime of its task
    Paths,          \* path arguments of openat
    SensitivePath,  \* target_sensitive_path, NoPath when empty
    NoPath,
    RingSlots,      \* records that fit the ring
    MaxPending,     \* entries of pending_opens
    MaxOps          \* bound: monitored operations in a behaviour

ASSUME BoundsAssumption == RingSlots \in Nat /\ MaxPending \in Nat
ASSUME LeaderAssumption == LeaderOf \in [Threads -> Threads]

VARIABLES
    attached,       \* programs attached so far
    detached,       \* links closed again
    phase,          \* whether Open has failed or Close was called
    inTarget,       \* thread -> its cgroup is the target cgroup
    call,           \* thread -> the operation it is executing
    prog,           \* thread -> the program step it stands before
    pending_opens,  \* thread -> entry written by observe_openat_enter
    ring,           \* ring-buffer slots in reservation order
    drops,          \* loss counters, summed over CPUs
    ops,            \* operations begun
    owed,           \* history: operations the sensor must account for
    submitted,      \* history: operations a record was submitted for
    counted         \* history: operations counted as lost

sensor == << attached, detached, phase >>
vars == << sensor, inTarget, call, prog, pending_opens, ring, drops, ops,
           owed, submitted, counted >>

-----------------------------------------------------------------------------
\* Open attaches these in order; the build is released after the last one.
AttachOrder == << "exec", "openat_enter", "openat_exit", "connect4" >>

Attached(program) == \E i \in (detached + 1)..attached : AttachOrder[i] = program

NoCall == [ id |-> 0 ]

Bump(counter) == drops' = [ drops EXCEPT ![counter] = @ + 1 ]

\* What observe_openat_enter makes of the arguments; "none" is not followed up.
OpenKind(c) ==
    CASE SensitivePath # NoPath /\ c.path = SensitivePath -> "sensitive"
      [] (SensitivePath = NoPath \/ c.path # SensitivePath) /\ c.write -> "open"
      [] OTHER -> "none"

\* Opens whose arguments are captured at all.
Captured(c) == c.write \/ SensitivePath # NoPath

ProgramSteps == { "none", "fill_exec", "fill_open", "fill_connect4", "count_enter", "count_exit" }

Filling(t) == prog[t] \in { "fill_exec", "fill_open", "fill_connect4" }
Counting(t) == prog[t] \in { "count_enter", "count_exit" }

\* What a program writes into its slot; fill_process takes the start time of the
\* current task, which is the thread.
Records == [ kind : { "exec", "open", "sensitive", "connect4" }, pid : Threads,
             path : Paths \cup {NoPath}, tgid : Threads,
             start_time : { StartTime[t] : t \in Threads } ]

Source == INSTANCE RecordSource

TypeOK ==
    /\ attached \in 0..Len(AttachOrder) /\ detached \in 0..attached
    /\ phase \in { "open", "closing", "closed" }
    /\ inTarget \in [Threads -> BOOLEAN]
    /\ prog \in [Threads -> ProgramSteps]
    /\ DOMAIN call = Threads
    /\ DOMAIN pending_opens \subseteq Threads
    /\ Cardinality(DOMAIN pending_opens) <= MaxPending
    /\ Len(ring) <= RingSlots
    /\ drops \in [Source!Counters -> Nat]
    /\ UNION { owed, submitted, counted } \subseteq 1..ops

Init ==
    /\ attached = 0 /\ detached = 0 /\ phase = "open"
    /\ inTarget = [ t \in Threads |-> FALSE ]
    /\ call = [ t \in Threads |-> NoCall ]
    /\ prog = [ t \in Threads |-> "none" ]
    /\ pending_opens = [ t \in {} |-> NoCall ]
    /\ Source!Fresh
    /\ ops = 0
    /\ owed = {} /\ submitted = {} /\ counted = {}

-----------------------------------------------------------------------------
Attach ==
    /\ phase = "open" /\ attached < Len(AttachOrder)
    /\ attached' = attached + 1
    /\ UNCHANGED << detached, phase, inTarget, call, prog, pending_opens, ring, drops, ops,
                    owed, submitted, counted >>

\* Open has failed to attach, or Close has closed the reader.
BeginClose ==
    /\ phase = "open"
    /\ phase' = "closing"
    /\ UNCHANGED << attached, detached, inTarget, call, prog, pending_opens, ring, drops, ops,
                    owed, submitted, counted >>

\* closeLinks: the links are closed one after the other in the order they were made,
\* with system calls in progress; a program that already runs goes on to its end.
CloseLink ==
    /\ phase = "closing" /\ detached < attached
    /\ detached' = detached + 1
    /\ UNCHANGED << attached, phase, inTarget, call, prog, pending_opens, ring, drops, ops,
                    owed, submitted, counted >>

\* collection.Close: the kernel frees the maps when the last program has ended.
FreeCollection ==
    /\ phase = "closing" /\ detached = attached
    /\ \A t \in Threads : prog[t] = "none"
    /\ phase' = "closed"
    /\ Source!Reset
    /\ pending_opens' = [ t \in {} |-> NoCall ]
    /\ owed' = {} /\ submitted' = {} /\ counted' = {}
    /\ UNCHANGED << attached, detached, inTarget, call, prog, ops >>

\* "Monitor attached before build release", docs/event-schema.md: the driver
\* moves the build into the target once Open has returned.
Released == attached = Len(AttachOrder)

\* A thread is written to another cgroup.procs, perhaps inside a system call.
Migrate(t) ==
    /\ prog[t] = "none"
    /\ Released
    /\ inTarget' = [ inTarget EXCEPT ![t] = ~@ ]
    /\ UNCHANGED << sensor, call, prog, pending_opens, ring, drops, ops, owed, submitted, counted >>

\* A free thread is about to perform one more operation.
Begin(t) ==
    /\ prog[t] = "none" /\ call[t].id = 0
    /\ ops < MaxOps /\ ops' = ops + 1

\* reserve_event for operation id: the program goes on at step, or ends and the
\* operation is lost when the ring is full.
ReserveOr(t, id, step) ==
    \/ /\ Len(ring) < RingSlots
       /\ ring' = Append(ring, Source!Busy(t))
       /\ prog' = [ prog EXCEPT ![t] = step ]
       /\ UNCHANGED << drops, counted >>
    \/ /\ Len(ring) = RingSlots
       /\ Bump("ringbuf_drops")
       /\ counted' = counted \cup {id}
       /\ UNCHANGED << ring, prog >>

Ends(t) == call' = [ call EXCEPT ![t] = NoCall ]

\* observe_exec and observe_connect4 differ in what they copy into the record.
Immediate(t, step) ==
    /\ Begin(t) /\ inTarget[t]
    /\ ReserveOr(t, ops + 1, step)
    /\ call' = [ call EXCEPT ![t] = IF prog'[t] = step THEN [ id |-> ops + 1 ] ELSE NoCall ]
    /\ owed' = owed \cup {ops + 1}
    /\ UNCHANGED << sensor, inTarget, pending_opens, submitted >>

\* An exec leaves the thread with the identity of its process leader.
Exec(t) == t = LeaderOf[t] /\ Attached("exec") /\ Immediate(t, "fill_exec")

Connect4(t) == Attached("connect4") /\ Immediate(t, "fill_connect4")

-----------------------------------------------------------------------------
(* openat                                                                  *)

Pending(t, c) == [ u \in DOMAIN pending_opens \cup {t} |->
                     IF u = t THEN [ id |-> c.id, kind |-> OpenKind(c), path |-> c.path ]
                     ELSE pending_opens[u] ]

\* Mutant: an entry of a failed or moved call stays in the map.
ForgetNothing(t) == pending_opens

Forget(t) == [ u \in DOMAIN pending_opens \ {t} |-> pending_opens[u] ]

\* Mutant: the failure only reaches the aggregate.
CountNoCause(t, cause, step) ==
    /\ prog' = [ prog EXCEPT ![t] = step ]
    /\ UNCHANGED drops

\* Mutant: the aggregate is counted before its cause.
CountAggregateFirst(t, cause, step) ==
    /\ Bump("correlation_drops")
    /\ prog' = [ prog EXCEPT ![t] = step ]

\* The cause is counted now, the aggregate in the next step.
CountCause(t, cause, step) ==
    /\ Bump(cause)
    /\ prog' = [ prog EXCEPT ![t] = step ]

\* Mutant: one entry more than the map holds.
MapOverfull(t) == t \notin DOMAIN pending_opens /\ Cardinality(DOMAIN pending_opens) > MaxPending

MapFull(t) == t \notin DOMAIN pending_opens /\ Cardinality(DOMAIN pending_opens) >= MaxPending

\* Mutant: a failed path read returns without a count.
observe_openat_enter_silent(t, c) ==
    \/ /\ ~c.readable \/ OpenKind(c) = "none" \/ MapFull(t)
       /\ UNCHANGED << prog, pending_opens, drops >>
    \/ /\ c.readable /\ OpenKind(c) # "none" /\ ~MapFull(t)
       /\ pending_opens' = Pending(t, c)
       /\ UNCHANGED << prog, drops >>

\* Mutant: the return after a failed path read is missing.
observe_openat_enter_fallthrough(t, c) ==
    \/ /\ ~inTarget[t] \/ ~Captured(c)
       /\ UNCHANGED << prog, pending_opens, drops >>
    \/ /\ inTarget[t] /\ Captured(c) /\ ~c.readable /\ ~MapFull(t)
       /\ CountCause(t, "path_read_drops", "count_enter")
       /\ pending_opens' = Pending(t, c)

observe_openat_enter(t, c) ==
    \/ /\ ~inTarget[t] \/ ~Captured(c)
       /\ UNCHANGED << prog, pending_opens, drops >>
    \/ /\ inTarget[t] /\ Captured(c) /\ ~c.readable
       /\ CountCause(t, "path_read_drops", "count_enter")
       /\ UNCHANGED pending_opens
    \/ /\ inTarget[t] /\ Captured(c) /\ c.readable /\ OpenKind(c) = "none"
       /\ UNCHANGED << prog, pending_opens, drops >>
    \/ /\ inTarget[t] /\ Captured(c) /\ c.readable /\ OpenKind(c) # "none" /\ ~MapFull(t)
       /\ pending_opens' = Pending(t, c)
       /\ UNCHANGED << prog, drops >>
    \/ /\ inTarget[t] /\ Captured(c) /\ c.readable /\ OpenKind(c) # "none" /\ MapFull(t)
       /\ CountCause(t, "map_update_drops", "count_enter")
       /\ UNCHANGED pending_opens

OpenatEnter(t) ==
    /\ Begin(t)
    /\ \E path \in Paths, write \in BOOLEAN, readable \in BOOLEAN :
          LET c == [ id |-> ops + 1, path |-> path, write |-> write, readable |-> readable ]
          IN  /\ call' = [ call EXCEPT ![t] =
                             [ id |-> c.id, kind |-> OpenKind(c),
                               started |-> inTarget[t] /\ Attached("openat_enter") ] ]
              /\ IF Attached("openat_enter")
                 THEN observe_openat_enter(t, c)
                 ELSE UNCHANGED << prog, pending_opens, drops >>
    /\ UNCHANGED << sensor, inTarget, ring, owed, submitted, counted >>

\* Mutant: the return value of the system call is not looked at.
observe_openat_exit_any(t, ok) ==
    \/ /\ t \notin DOMAIN pending_opens
       /\ Ends(t)
       /\ UNCHANGED << prog, pending_opens, ring, drops, counted >>
    \/ /\ t \in DOMAIN pending_opens /\ inTarget[t]
       /\ ReserveOr(t, call[t].id, "fill_open")
       /\ IF prog'[t] = "fill_open"
          THEN UNCHANGED << call, pending_opens >>
          ELSE pending_opens' = Forget(t) /\ Ends(t)

\* One alternative per early return; the entry goes with the call.
observe_openat_exit(t, ok) ==
    \/ /\ t \notin DOMAIN pending_opens
       /\ Ends(t)
       /\ UNCHANGED << prog, pending_opens, ring, drops, counted >>
    \/ /\ t \in DOMAIN pending_opens /\ ~inTarget[t]
       /\ CountCause(t, "cgroup_mismatch_drops", "count_exit")
       /\ UNCHANGED << call, pending_opens, ring, counted >>
    \/ /\ t \in DOMAIN pending_opens /\ inTarget[t] /\ ~ok
       /\ pending_opens' = Forget(t)
       /\ Ends(t)
       /\ UNCHANGED << prog, ring, drops, counted >>
    \/ /\ t \in DOMAIN pending_opens /\ inTarget[t] /\ ok
       /\ ReserveOr(t, call[t].id, "fill_open")
       /\ IF prog'[t] = "fill_open"
          THEN UNCHANGED << call, pending_opens >>
          ELSE pending_opens' = Forget(t) /\ Ends(t)

\* A relevant open whose both programs ran, which began inside the target and
\* succeeded there, or ended outside with an unknown part of it observed, is owed a
\* record or a count.
OpenatExit(t) ==
    /\ prog[t] = "none" /\ call[t].id # 0
    /\ \E ok \in BOOLEAN :
          /\ IF Attached("openat_exit")
             THEN observe_openat_exit(t, ok)
             ELSE Ends(t) /\ UNCHANGED << prog, pending_opens, ring, drops, counted >>
          /\ owed' = IF /\ Attached("openat_exit") /\ call[t].started
                        /\ call[t].kind # "none" /\ (ok \/ ~inTarget[t])
                     THEN owed \cup {call[t].id} ELSE owed
    /\ UNCHANGED << sensor, inTarget, ops, submitted >>

-----------------------------------------------------------------------------
(* The second steps of the programs                                        *)

Filled(t) ==
    [ kind |-> CASE prog[t] = "fill_exec" -> "exec"
                 [] prog[t] = "fill_connect4" -> "connect4"
                 [] prog[t] = "fill_open" -> pending_opens[t].kind,
      pid |-> t,
      path |-> IF prog[t] = "fill_open" THEN pending_opens[t].path ELSE NoPath,
      tgid |-> LeaderOf[t],
      start_time |-> StartTime[t] ]

Submit(t) ==
    /\ Filling(t)
    /\ ring' = [ i \in 1..Len(ring) |->
                   IF ring[i] = Source!Busy(t) THEN Filled(t) ELSE ring[i] ]
    /\ submitted' = submitted \cup {call[t].id}
    /\ prog' = [ prog EXCEPT ![t] = "none" ]
    /\ Ends(t)
    /\ \/ prog[t] = "fill_open" /\ pending_opens' = Forget(t)
       \/ prog[t] # "fill_open" /\ UNCHANGED pending_opens
    /\ UNCHANGED << sensor, inTarget, drops, ops, owed, counted >>

CountCorrelation(t) ==
    /\ Counting(t)
    /\ Bump("correlation_drops")
    /\ counted' = counted \cup {call[t].id}
    /\ prog' = [ prog EXCEPT ![t] = "none" ]
    /\ \/ prog[t] = "count_exit" /\ pending_opens' = Forget(t) /\ Ends(t)
       \/ prog[t] = "count_enter" /\ UNCHANGED << pending_opens, call >>
    /\ UNCHANGED << sensor, inTarget, ring, ops, owed, submitted >>

\* The collector takes the oldest slot once it is submitted.
Consume ==
    /\ phase = "open" /\ Source!Consume
    /\ UNCHANGED << sensor, inTarget, call, prog, pending_opens, ops, owed, submitted, counted >>

-----------------------------------------------------------------------------
ThreadStep(t) ==
    \/ Migrate(t) \/ Exec(t) \/ Connect4(t) \/ OpenatEnter(t) \/ OpenatExit(t)
    \/ Submit(t) \/ CountCorrelation(t)

Next ==
    \/ Attach \/ BeginClose \/ CloseLink \/ FreeCollection \/ Consume
    \/ \E t \in Threads : ThreadStep(t)

Spec == Init /\ [][Next]_vars

\* Programs and system calls run to their end, the collector reads, and a Close that has
\* begun is completed, by the kernel when the process dies.
FairSpec ==
    /\ Spec
    /\ \A t \in Threads : WF_vars(Submit(t)) /\ WF_vars(CountCorrelation(t)) /\ WF_vars(OpenatExit(t))
    /\ WF_vars(Consume) /\ WF_vars(CloseLink) /\ WF_vars(FreeCollection)

-----------------------------------------------------------------------------
(* Properties                                                              *)

\* An entry of pending_opens that a program may still read belongs to the openat its
\* thread is executing, so that no record is made from the arguments of an earlier call.
\* Close leaves entries behind: the link of observe_openat_exit is closed while calls are
\* in progress, and what they leave is read by nobody.
PendingMatchesCall ==
    \A t \in DOMAIN pending_opens :
        Attached("openat_exit") \/ prog[t] \in { "fill_open", "count_exit" } =>
            /\ pending_opens[t].id = call[t].id
            /\ call[t].started

\* Operations some program is about to submit or to count.
InFlight == { call[t].id : t \in { u \in Threads : Filling(u) \/ Counting(u) } }

\* Every exec and connect inside the target cgroup, and every relevant open that
\* began there and succeeded or was moved out meanwhile, is submitted, counted as
\* a loss, or still with its program, in whatever order the programs of different
\* CPUs run and however full ring and map are.
NoSilentLoss == owed \subseteq submitted \cup counted \cup InFlight

\* No record without such an operation: failed opens, opens that began outside
\* and operations already counted as lost leave none.
NoPhantomRecord == submitted \subseteq owed \ counted

\* The two exported kernel counters together count every lost operation once.
LossCountedOnce ==
    drops["ringbuf_drops"] + drops["correlation_drops"] = Cardinality(counted)

\* The separate causes add up to the aggregate, but for programs between their
\* two increments.
CausesAddUp ==
    drops["path_read_drops"] + drops["map_update_drops"] + drops["cgroup_mismatch_drops"]
        = drops["correlation_drops"] + Cardinality({ t \in Threads : Counting(t) })

\* An entry never outlives its call for good, so a long build does not fill
\* pending_opens with leftovers of failed, moved or dropped opens; what calls leave
\* behind while the sensor is closed goes with the map.
PendingDrains == \A t \in Threads : t \in DOMAIN pending_opens ~> t \notin DOMAIN pending_opens

\* The programs keep the contract the collector is checked against: a slot is
\* reserved once and filled by its own thread, slots are read in order, and no
\* aggregate loss is visible before its cause, whatever the other CPUs do.
KeepsContract == Source!Spec

-----------------------------------------------------------------------------
(* What the documents say and the code does not                            *)

\* docs/event-schema.md: the process key derives from the process start time,
\* so the records of one process carry one start time.
RecordsNameTheProcess ==
    \A i \in 1..Len(ring) : ring[i].kind # "busy" => ring[i].start_time = StartTime[ring[i].tgid]
=============================================================================
