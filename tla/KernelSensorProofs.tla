------------------------ MODULE KernelSensorProofs -------------------------
(***************************************************************************)
(* The BPF programs account for what they see: for every set of threads,   *)
(* paths and process leaders, every ring and map size and however many     *)
(* operations, no relevant operation is lost silently, no record is made   *)
(* without one, and pending_opens holds nothing of an earlier call.  And   *)
(* they keep the contract the collector is written against.                *)
(***************************************************************************)
EXTENDS KernelSensor, FiniteSetTheorems, SequenceTheorems, TLAPS

\* Identities: the operations in progress are different ones, not submitted yet.
IdInv ==
    /\ ops \in Nat
    /\ DOMAIN call = Threads /\ DOMAIN prog = Threads /\ DOMAIN inTarget = Threads
    /\ \A t \in Threads : call[t].id \in 0..ops
    /\ \A t, u \in Threads : t # u /\ call[t].id # 0 => call[t].id # call[u].id
    /\ \A id \in owed \cup submitted \cup counted : id \in 1..ops
    /\ \A t \in Threads : call[t].id # 0 => call[t].id \notin submitted

\* An open in progress, at whatever step of its programs.
Opening(t) == call[t].id # 0 /\ prog[t] \notin { "fill_exec", "fill_connect4" }

\* Nothing is in the target cgroup, and nothing began there, before the last
\* program is attached; nothing runs and nothing is left once the collection is freed.
AttachInv ==
    /\ attached \in 0..4 /\ detached \in 0..attached
    /\ phase \in { "open", "closing", "closed" }
    /\ phase = "open" => detached = 0
    /\ phase = "closed" => /\ detached = attached
                           /\ DOMAIN pending_opens = {}
                           /\ \A t \in Threads : prog[t] = "none"
    /\ \A t \in Threads : inTarget[t] => attached = 4
    /\ \A t \in Threads : Opening(t) /\ call[t].started => attached = 4

\* An entry that observe_openat_exit will read, or is reading: its link, the third, is
\* not closed yet, or the program runs.
Live(t) == detached < 3 \/ prog[t] \in { "fill_open", "count_exit" }

\* A live entry of pending_opens is of the open in progress, which has not been counted.
PendingInv ==
    /\ \A t \in DOMAIN pending_opens :
           /\ t \in Threads /\ attached = 4
           /\ pending_opens[t].kind \in { "open", "sensitive" } /\ pending_opens[t].path \in Paths
    /\ \A t \in DOMAIN pending_opens :
           Live(t) => /\ pending_opens[t].id = call[t].id
                      /\ call[t].id # 0 /\ call[t].id \notin counted
                      /\ call[t].started /\ call[t].kind # "none"
                      /\ prog[t] \in { "none", "fill_open", "count_exit" }
    /\ \A t \in Threads : prog[t] = "fill_open" => t \in DOMAIN pending_opens

\* What each program is about to do, and an open between its two programs.
ProgramInv ==
    /\ \A t \in Threads : prog[t] \in ProgramSteps
    /\ \A t \in Threads : prog[t] # "none" => call[t].id # 0 /\ call[t].id \notin counted
    /\ \A t \in Threads : Filling(t) => call[t].id \in owed
    /\ \A t \in Threads :
           prog[t] = "none" /\ call[t].id # 0 /\ call[t].started /\ call[t].kind # "none"
               /\ detached < 3
           => t \in DOMAIN pending_opens \/ call[t].id \in counted

\* NoSilentLoss, one operation at a time.
Accounted ==
    \A id \in owed : \/ id \in submitted \cup counted
                     \/ \E t \in Threads : prog[t] # "none" /\ call[t].id = id

KernelInv == IdInv /\ AttachInv /\ PendingInv /\ ProgramInv /\ Accounted /\ NoPhantomRecord

-----------------------------------------------------------------------------
\* Which programs are attached, by the links made and closed so far.
LEMMA AttachFacts ==
    /\ Len(AttachOrder) = 4
    /\ Released <=> attached = 4
    /\ AttachInv => /\ Attached("openat_enter") <=> attached >= 2 /\ detached < 2
                    /\ Attached("openat_exit") <=> attached >= 3 /\ detached < 3
                    /\ \A program : Attached(program) => phase # "closed"
  <1>1. /\ Len(AttachOrder) = 4
        /\ AttachOrder[1] = "exec" /\ AttachOrder[2] = "openat_enter"
        /\ AttachOrder[3] = "openat_exit" /\ AttachOrder[4] = "connect4"
    BY DEF AttachOrder
  <1>2. Released <=> attached = 4
    BY <1>1 DEF Released
  <1>3. ASSUME AttachInv
        PROVE  /\ Attached("openat_enter") <=> attached >= 2 /\ detached < 2
               /\ Attached("openat_exit") <=> attached >= 3 /\ detached < 3
               /\ \A program : Attached(program) => phase # "closed"
    <2>1. attached \in 0..4 /\ detached \in 0..4 /\ (phase = "closed" => detached = attached)
      BY <1>3 DEF AttachInv
    <2>2. \A i \in (detached + 1)..attached : i \in { 1, 2, 3, 4 }
      BY <2>1
    <2>3. \A i \in { 1, 2, 3, 4 } : /\ AttachOrder[i] = "openat_enter" <=> i = 2
                                    /\ AttachOrder[i] = "openat_exit" <=> i = 3
      BY <1>1
    <2>4. /\ 2 \in (detached + 1)..attached <=> attached >= 2 /\ detached < 2
          /\ 3 \in (detached + 1)..attached <=> attached >= 3 /\ detached < 3
          /\ detached = attached => (detached + 1)..attached = {}
      BY <2>1
    <2> QED
      BY <2>1, <2>2, <2>3, <2>4 DEF Attached
  <1> QED
    BY <1>1, <1>2, <1>3

\* An open that will be followed up has had its arguments captured.
LEMMA FollowedUpIsCaptured ==
    ASSUME NEW c, OpenKind(c) # "none"
    PROVE  Captured(c)
  BY DEF OpenKind, Captured

\* Before Open nothing is attached and nothing has begun.
LEMMA KernelInvInit == Init => KernelInv
  <1> SUFFICES ASSUME Init PROVE KernelInv
    OBVIOUS
  <1> USE DEF Init, NoCall
  <1>1. IdInv
    BY DEF IdInv
  <1>2. AttachInv
    BY DEF AttachInv, Opening
  <1>3. PendingInv /\ ProgramInv /\ Accounted /\ NoPhantomRecord
    BY DEF PendingInv, ProgramInv, ProgramSteps, Filling, Accounted, NoPhantomRecord
  <1> QED
    BY <1>1, <1>2, <1>3 DEF KernelInv

-----------------------------------------------------------------------------
\* Attaching one more program disturbs no operation in progress.
LEMMA AttachKeeps ==
    ASSUME KernelInv, Attach
    PROVE  KernelInv'
  <1>1. /\ attached \in 0..3 /\ attached' = attached + 1 /\ phase = "open" /\ detached = 0
        /\ UNCHANGED << detached, phase, inTarget, call, prog, pending_opens, ops, owed, submitted,
                        counted >>
    BY AttachFacts DEF Attach, KernelInv, AttachInv
  <1>2. IdInv' /\ Accounted' /\ NoPhantomRecord'
    BY <1>1 DEF KernelInv, IdInv, Accounted, NoPhantomRecord
  <1>3. AttachInv' /\ PendingInv'
    BY <1>1 DEF KernelInv, AttachInv, PendingInv, Opening, Live
  <1>4. ProgramInv'
    BY <1>1 DEF KernelInv, AttachInv, ProgramInv, Opening, Filling
  <1> QED
    BY <1>2, <1>3, <1>4 DEF KernelInv

\* Once a link is closed its entries may become dead, and none comes to life.
LEMMA CloseLinkKeeps ==
    ASSUME KernelInv, BeginClose \/ CloseLink
    PROVE  KernelInv'
  <1>1. /\ attached' = attached /\ phase' = "closing"
        /\ detached \in 0..4 /\ attached \in 0..4
        /\ detached' = detached \/ (detached' = detached + 1 /\ detached < attached)
        /\ UNCHANGED << inTarget, call, prog, pending_opens, ops, owed, submitted, counted >>
    BY DEF BeginClose, CloseLink, KernelInv, AttachInv
  <1>2. IdInv' /\ Accounted' /\ NoPhantomRecord'
    BY <1>1 DEF KernelInv, IdInv, Accounted, NoPhantomRecord
  <1>3. AttachInv'
    <2>1. detached' \in 0..attached'
      BY <1>1 DEF KernelInv, AttachInv
    <2> QED
      BY <1>1, <2>1 DEF KernelInv, AttachInv, Opening
  <1>4. detached' < 3 => detached < 3
    BY <1>1
  <1>5. PendingInv' /\ ProgramInv'
    BY <1>1, <1>4 DEF KernelInv, PendingInv, ProgramInv, Live, Filling
  <1> QED
    BY <1>2, <1>3, <1>5 DEF KernelInv

\* The maps are freed after the last program, with all that was accounted for.
LEMMA FreeKeeps ==
    ASSUME KernelInv, FreeCollection
    PROVE  KernelInv'
  <1>1. /\ phase' = "closed" /\ detached = attached /\ DOMAIN pending_opens' = {}
        /\ owed' = {} /\ submitted' = {} /\ counted' = {}
        /\ \A t \in Threads : prog[t] = "none"
        /\ UNCHANGED << attached, detached, inTarget, call, prog, ops >>
    BY DEF FreeCollection
  <1>2. IdInv' /\ Accounted' /\ NoPhantomRecord'
    BY <1>1 DEF KernelInv, IdInv, Accounted, NoPhantomRecord
  <1>3. AttachInv' /\ PendingInv'
    BY <1>1 DEF KernelInv, AttachInv, PendingInv, Opening
  <1>4. \A t \in Threads : call[t].id # 0 /\ call[t].started => detached >= 3
    BY <1>1 DEF KernelInv, AttachInv, Opening
  <1>5. ProgramInv'
    BY <1>1, <1>4 DEF KernelInv, AttachInv, ProgramInv, ProgramSteps, Filling
  <1> QED
    BY <1>2, <1>3, <1>5 DEF KernelInv

\* A move between cgroups, also inside a system call, is seen by the next program.
LEMMA MigrateKeeps ==
    ASSUME KernelInv, NEW t \in Threads, Migrate(t)
    PROVE  KernelInv'
  <1>1. /\ attached = 4 /\ DOMAIN inTarget' = DOMAIN inTarget
        /\ UNCHANGED << attached, detached, phase, call, prog, pending_opens, ops, owed, submitted, counted >>
    BY AttachFacts DEF Migrate, sensor
  <1>2. IdInv' /\ Accounted' /\ NoPhantomRecord'
    BY <1>1 DEF KernelInv, IdInv, Accounted, NoPhantomRecord
  <1>3. AttachInv' /\ PendingInv' /\ ProgramInv'
    BY <1>1 DEF KernelInv, AttachInv, PendingInv, ProgramInv, Opening, Filling, Live
  <1> QED
    BY <1>2, <1>3 DEF KernelInv

\* reserve_event goes on at step, or counts the operation.
LEMMA ReserveFacts ==
    ASSUME NEW t \in Threads, NEW id, NEW step, ReserveOr(t, id, step)
    PROVE  \/ prog' = [ prog EXCEPT ![t] = step ] /\ counted' = counted
           \/ prog' = prog /\ counted' = counted \cup {id}
  BY DEF ReserveOr

\* An exec or a connect in the target is owed, and with its program or counted.
LEMMA ImmediateKeeps ==
    ASSUME KernelInv, NEW t \in Threads, NEW step \in { "fill_exec", "fill_connect4" },
           Immediate(t, step), phase # "closed"
    PROVE  KernelInv'
  <1>1. /\ prog[t] = "none" /\ call[t].id = 0 /\ ops' = ops + 1 /\ inTarget[t]
        /\ call' = [ call EXCEPT ![t] = IF prog'[t] = step THEN [ id |-> ops + 1 ] ELSE NoCall ]
        /\ owed' = owed \cup {ops + 1}
        /\ UNCHANGED << attached, detached, phase, inTarget, pending_opens, submitted >>
    BY DEF Immediate, Begin, sensor
  <1>2. \/ prog' = [ prog EXCEPT ![t] = step ] /\ counted' = counted
        \/ prog' = prog /\ counted' = counted \cup {ops + 1}
    BY ReserveFacts DEF Immediate
  <1>3. /\ ops \in Nat /\ DOMAIN call = Threads /\ DOMAIN prog = Threads
        /\ ops + 1 \notin owed \cup submitted \cup counted
        /\ \A u \in Threads : call[u].id # ops + 1
    BY DEF KernelInv, IdInv
  <1>4. /\ \A u \in Threads \ {t} : call'[u] = call[u] /\ prog'[u] = prog[u]
        /\ \/ prog'[t] = step /\ call'[t].id = ops + 1 /\ counted' = counted
           \/ prog'[t] = "none" /\ call'[t].id = 0 /\ counted' = counted \cup {ops + 1}
        /\ DOMAIN call' = Threads /\ DOMAIN prog' = Threads
    BY <1>1, <1>2, <1>3 DEF NoCall
  <1>5. IdInv'
    BY <1>1, <1>3, <1>4 DEF KernelInv, IdInv
  <1>6. t \in DOMAIN pending_opens => detached >= 3 /\ ~Live(t)'
    <2>1. t \in DOMAIN pending_opens => ~Live(t)
      BY <1>1 DEF KernelInv, PendingInv
    <2>2. detached \in Nat
      BY DEF KernelInv, AttachInv
    <2> QED
      BY <1>1, <1>4, <2>1, <2>2 DEF Live
  <1>7. AttachInv'
    BY <1>1, <1>4 DEF KernelInv, AttachInv, Opening
  <1>8. PendingInv'
    <2>1. \A u \in Threads \ {t} : Live(u)' => Live(u)
      BY <1>1, <1>4 DEF Live
    <2>2. \A u \in Threads : prog'[u] = "fill_open" => prog[u] = "fill_open"
      BY <1>1, <1>4
    <2>3. \A u \in Threads \ {t} : call[u].id \notin counted => call[u].id \notin counted'
      BY <1>3, <1>4
    <2> HIDE DEF Live
    <2> QED
      BY <1>1, <1>4, <1>6, <2>1, <2>2, <2>3 DEF KernelInv, PendingInv
  <1>9. ProgramInv'
    BY <1>1, <1>3, <1>4 DEF KernelInv, ProgramInv, ProgramSteps, Filling
  <1>10. Accounted' /\ NoPhantomRecord'
    BY <1>1, <1>3, <1>4 DEF KernelInv, Accounted, NoPhantomRecord
  <1> QED
    BY <1>5, <1>7, <1>8, <1>9, <1>10 DEF KernelInv

\* observe_openat_enter leaves an entry, is about to count, or has nothing to do.
LEMMA EnterFacts ==
    ASSUME NEW t \in Threads, NEW c,
           IF Attached("openat_enter") THEN observe_openat_enter(t, c)
           ELSE UNCHANGED << prog, pending_opens, drops >>
    PROVE  \/ /\ prog' = prog /\ pending_opens' = pending_opens
              /\ ~(inTarget[t] /\ Attached("openat_enter") /\ OpenKind(c) # "none")
           \/ /\ prog' = [ prog EXCEPT ![t] = "count_enter" ]
              /\ pending_opens' = pending_opens
              /\ inTarget[t] /\ Attached("openat_enter")
           \/ /\ prog' = prog /\ pending_opens' = Pending(t, c)
              /\ inTarget[t] /\ OpenKind(c) # "none" /\ Attached("openat_enter")
  <1>1. OpenKind(c) # "none" => Captured(c)
    BY FollowedUpIsCaptured
  <1>2. CASE Attached("openat_enter")
    BY <1>1, <1>2 DEF observe_openat_enter, CountCause
  <1>3. CASE ~Attached("openat_enter")
    BY <1>3
  <1> QED
    BY <1>2, <1>3

\* The first half of an open.
LEMMA EnterKeeps ==
    ASSUME KernelInv, NEW t \in Threads, OpenatEnter(t)
    PROVE  KernelInv'
  <1> DEFINE started == inTarget[t] /\ Attached("openat_enter")
  <1>1. PICK path \in Paths, write \in BOOLEAN, readable \in BOOLEAN :
            LET c == [ id |-> ops + 1, path |-> path, write |-> write, readable |-> readable ]
            IN  /\ call' = [ call EXCEPT ![t] =
                               [ id |-> c.id, kind |-> OpenKind(c), started |-> started ] ]
                /\ IF Attached("openat_enter") THEN observe_openat_enter(t, c)
                   ELSE UNCHANGED << prog, pending_opens, drops >>
    BY DEF OpenatEnter
  <1> DEFINE c == [ id |-> ops + 1, path |-> path, write |-> write, readable |-> readable ]
             next == [ id |-> ops + 1, kind |-> OpenKind(c), started |-> started ]
  <1>2. /\ c.id = ops + 1 /\ c.path \in Paths
        /\ next.id = ops + 1 /\ next.kind = OpenKind(c) /\ next.started = started
    OBVIOUS
  <1>3. /\ call' = [ call EXCEPT ![t] = next ]
        /\ IF Attached("openat_enter") THEN observe_openat_enter(t, c)
           ELSE UNCHANGED << prog, pending_opens, drops >>
    BY <1>1
  <1> HIDE DEF c, next
  <1>4. /\ prog[t] = "none" /\ call[t].id = 0 /\ ops' = ops + 1
        /\ UNCHANGED << attached, detached, phase, inTarget, owed, submitted, counted >>
    BY DEF OpenatEnter, Begin, sensor
  <1>5. /\ ops \in Nat /\ DOMAIN call = Threads /\ DOMAIN prog = Threads
        /\ ops + 1 \notin owed \cup submitted \cup counted
        /\ \A u \in Threads : call[u].id # ops + 1
        /\ attached \in 0..4 /\ detached \in 0..4
    BY DEF KernelInv, IdInv, AttachInv
  <1>6. /\ \A u \in Threads \ {t} : call'[u] = call[u]
        /\ call'[t] = next
        /\ DOMAIN call' = Threads
    BY <1>3, <1>5
  <1>7. t \in DOMAIN pending_opens => ~(detached < 3)
    BY <1>4 DEF KernelInv, PendingInv, Live
  <1>8. /\ Attached("openat_enter") => phase # "closed" /\ detached < 2
        /\ started => attached = 4 /\ detached < 2
    BY AttachFacts DEF KernelInv, AttachInv
  <1>9. \/ /\ prog' = prog /\ pending_opens' = pending_opens
           /\ ~(started /\ OpenKind(c) # "none")
        \/ /\ prog' = [ prog EXCEPT ![t] = "count_enter" ]
           /\ pending_opens' = pending_opens
           /\ started
        \/ /\ prog' = prog /\ pending_opens' = Pending(t, c)
           /\ started /\ OpenKind(c) # "none"
    BY <1>3, EnterFacts
  <1> HIDE DEF started
  <1>10. /\ DOMAIN prog' = Threads
         /\ \A u \in Threads \ {t} : prog'[u] = prog[u]
         /\ prog'[t] \in { "none", "count_enter" }
    BY <1>4, <1>5, <1>9
  <1>11. IdInv'
    BY <1>2, <1>4, <1>5, <1>6, <1>10 DEF KernelInv, IdInv
  <1>12. started => phase # "closed"
    BY <1>8 DEF started
  <1>13. AttachInv'
    BY <1>2, <1>4, <1>5, <1>6, <1>8, <1>9, <1>10, <1>12
       DEF KernelInv, AttachInv, Opening
  <1>14. \A u \in Threads \ {t} : Live(u)' <=> Live(u)
    BY <1>4, <1>10 DEF Live
  <1>15. PendingInv'
    <2>1. CASE pending_opens' = pending_opens
      <3>1. t \in DOMAIN pending_opens => ~Live(t)'
        BY <1>4, <1>7, <1>10 DEF Live
      <3> QED
        BY <1>4, <1>6, <1>10, <1>14, <2>1, <3>1 DEF KernelInv, PendingInv
    <2>2. CASE /\ prog' = prog /\ pending_opens' = Pending(t, c)
               /\ started /\ OpenKind(c) # "none"
      <3>0. attached = 4 /\ t \notin DOMAIN pending_opens
        BY <1>5, <1>7, <1>8, <2>2
      <3>1. /\ DOMAIN pending_opens' = DOMAIN pending_opens \cup {t}
            /\ pending_opens'[t] = [ id |-> c.id, kind |-> OpenKind(c), path |-> c.path ]
            /\ \A u \in DOMAIN pending_opens : pending_opens'[u] = pending_opens[u]
        BY <2>2, <3>0 DEF Pending
      <3>2. OpenKind(c) \in { "open", "sensitive" }
        BY <2>2 DEF OpenKind
      <3>3. ASSUME NEW u \in DOMAIN pending_opens'
            PROVE  /\ u \in Threads /\ attached' = 4
                   /\ pending_opens'[u].kind \in { "open", "sensitive" }
                   /\ pending_opens'[u].path \in Paths
        <4>1. CASE u = t
          BY <1>2, <1>4, <3>0, <3>1, <3>2, <4>1
        <4>2. CASE u \in DOMAIN pending_opens
          BY <1>4, <3>1, <4>2 DEF KernelInv, PendingInv
        <4> QED
          BY <3>1, <4>1, <4>2
      <3>4. ASSUME NEW u \in DOMAIN pending_opens', Live(u)'
            PROVE  /\ pending_opens'[u].id = call'[u].id
                   /\ call'[u].id # 0 /\ call'[u].id \notin counted'
                   /\ call'[u].started /\ call'[u].kind # "none"
                   /\ prog'[u] \in { "none", "fill_open", "count_exit" }
        <4>1. CASE u = t
          <5>1. call'[t].id = ops + 1 /\ call'[t].kind = OpenKind(c) /\ call'[t].started = started
            BY <1>2, <1>6
          <5>2. pending_opens'[t].id = ops + 1
            BY <1>2, <3>1
          <5>3. ops + 1 # 0 /\ ops + 1 \notin counted'
            BY <1>4, <1>5
          <5>4. prog'[t] = "none"
            BY <1>4, <2>2
          <5>5. call'[t].started /\ call'[t].kind # "none"
            BY <2>2, <5>1
          <5> QED
            BY <4>1, <5>1, <5>2, <5>3, <5>4, <5>5
        <4>2. CASE u \in DOMAIN pending_opens
          BY <1>4, <1>6, <1>14, <2>2, <3>0, <3>1, <3>4, <4>2 DEF KernelInv, PendingInv
        <4> QED
          BY <3>1, <4>1, <4>2
      <3>5. \A u \in Threads : prog'[u] = "fill_open" => u \in DOMAIN pending_opens'
        BY <2>2, <3>1 DEF KernelInv, PendingInv
      <3> QED
        BY <3>3, <3>4, <3>5 DEF PendingInv
    <2> QED
      BY <1>9, <2>1, <2>2
  <1>16. ProgramInv'
    <2>1. /\ \A u \in Threads : prog'[u] \in ProgramSteps
          /\ \A u \in Threads : prog'[u] # "none" => call'[u].id # 0 /\ call'[u].id \notin counted'
          /\ \A u \in Threads : Filling(u)' => call'[u].id \in owed'
      BY <1>2, <1>4, <1>5, <1>6, <1>10 DEF KernelInv, ProgramInv, ProgramSteps, Filling
    <2>2. ASSUME NEW u \in Threads, prog'[u] = "none", call'[u].id # 0, call'[u].started,
                 call'[u].kind # "none", detached' < 3
          PROVE  u \in DOMAIN pending_opens' \/ call'[u].id \in counted'
      <3>1. DOMAIN pending_opens \subseteq DOMAIN pending_opens'
        BY <1>9 DEF Pending
      <3>2. CASE u # t
        BY <1>4, <1>6, <1>10, <2>2, <3>1, <3>2 DEF KernelInv, ProgramInv
      <3>3. CASE u = t
        <4>1. started /\ OpenKind(c) # "none"
          BY <1>2, <1>6, <2>2, <3>3
        <4> QED
          BY <1>5, <1>9, <2>2, <3>3, <4>1 DEF Pending
      <3> QED
        BY <3>2, <3>3
    <2> QED
      BY <2>1, <2>2 DEF ProgramInv, Filling
  <1>17. Accounted' /\ NoPhantomRecord'
    BY <1>4, <1>6, <1>10 DEF KernelInv, Accounted, NoPhantomRecord
  <1> QED
    BY <1>11, <1>13, <1>15, <1>16, <1>17 DEF KernelInv

\* Submission: the operation leaves its program for the records.
LEMMA SubmitKeeps ==
    ASSUME KernelInv, NEW t \in Threads, Submit(t)
    PROVE  KernelInv'
  <1>1. /\ prog[t] \in { "fill_exec", "fill_open", "fill_connect4" }
        /\ submitted' = submitted \cup {call[t].id}
        /\ prog' = [ prog EXCEPT ![t] = "none" ] /\ call' = [ call EXCEPT ![t] = NoCall ]
        /\ pending_opens' = Forget(t) \/ (prog[t] # "fill_open" /\ pending_opens' = pending_opens)
        /\ UNCHANGED << attached, detached, phase, inTarget, ops, owed, counted >>
    BY DEF Submit, Filling, Ends, sensor
  <1>2. DOMAIN call = Threads /\ DOMAIN prog = Threads
    BY DEF KernelInv, IdInv
  <1>3. /\ \A u \in Threads \ {t} : call'[u] = call[u] /\ prog'[u] = prog[u]
        /\ call'[t].id = 0 /\ prog'[t] = "none"
        /\ DOMAIN call' = Threads /\ DOMAIN prog' = Threads
    BY <1>1, <1>2 DEF NoCall
  <1>4. call[t].id # 0 /\ call[t].id \in owed \ counted /\ call[t].id \in 1..ops
    BY <1>1 DEF KernelInv, ProgramInv, Filling, IdInv
  <1>5. /\ t \in DOMAIN pending_opens' => ~(detached < 3)
        /\ DOMAIN pending_opens' \subseteq DOMAIN pending_opens
        /\ \A u \in DOMAIN pending_opens \ {t} :
               u \in DOMAIN pending_opens' /\ pending_opens'[u] = pending_opens[u]
    <2>1. CASE pending_opens' = Forget(t)
      BY <2>1 DEF Forget
    <2>2. CASE prog[t] \notin { "none", "fill_open", "count_exit" } /\ pending_opens' = pending_opens
      BY <2>2 DEF KernelInv, PendingInv, Live
    <2> QED
      BY <1>1, <2>1, <2>2
  <1>6. IdInv'
    BY <1>1, <1>3, <1>4 DEF KernelInv, IdInv
  <1>7. AttachInv' /\ PendingInv'
    <2>1. AttachInv'
      BY <1>1, <1>3, <1>5 DEF KernelInv, AttachInv, Opening
    <2>2. \A u \in Threads \ {t} : Live(u)' <=> Live(u)
      BY <1>1, <1>3 DEF Live
    <2>3. t \in DOMAIN pending_opens' => ~Live(t)'
      BY <1>1, <1>3, <1>5 DEF Live
    <2> HIDE DEF Live
    <2>4. ASSUME NEW u \in DOMAIN pending_opens'
          PROVE  /\ u \in Threads /\ attached' = 4
                 /\ pending_opens'[u].kind \in { "open", "sensitive" }
                 /\ pending_opens'[u].path \in Paths
      <3>1. pending_opens'[u] = pending_opens[u] /\ u \in DOMAIN pending_opens
        BY <1>1, <1>5 DEF Forget
      <3> QED
        BY <1>1, <3>1 DEF KernelInv, PendingInv
    <2>5. ASSUME NEW u \in DOMAIN pending_opens', Live(u)'
          PROVE  /\ pending_opens'[u].id = call'[u].id
                 /\ call'[u].id # 0 /\ call'[u].id \notin counted'
                 /\ call'[u].started /\ call'[u].kind # "none"
                 /\ prog'[u] \in { "none", "fill_open", "count_exit" }
      <3>1. u \in DOMAIN pending_opens \ {t} /\ u \in Threads /\ Live(u)
        BY <1>5, <2>2, <2>3, <2>4, <2>5
      <3>2. /\ call'[u] = call[u] /\ prog'[u] = prog[u] /\ pending_opens'[u] = pending_opens[u]
            /\ call[u].id \notin counted => call[u].id \notin counted'
        BY <1>1, <1>3, <1>5, <3>1
      <3> QED
        BY <3>1, <3>2 DEF KernelInv, PendingInv
    <2>6. \A u \in Threads : prog'[u] = "fill_open" => u \in DOMAIN pending_opens'
      BY <1>3, <1>5 DEF KernelInv, PendingInv
    <2>7. PendingInv'
      BY <2>4, <2>5, <2>6 DEF PendingInv
    <2> QED
      BY <2>1, <2>7
  <1>8. ProgramInv'
    BY <1>1, <1>3, <1>5 DEF KernelInv, ProgramInv, ProgramSteps, Filling
  <1>9. Accounted' /\ NoPhantomRecord'
    BY <1>1, <1>3, <1>4 DEF KernelInv, Accounted, NoPhantomRecord
  <1> QED
    BY <1>6, <1>7, <1>8, <1>9 DEF KernelInv

\* The aggregate counter: the operation leaves its program for the losses.
LEMMA CountKeeps ==
    ASSUME KernelInv, NEW t \in Threads, CountCorrelation(t)
    PROVE  KernelInv'
  <1>1. /\ prog[t] \in { "count_enter", "count_exit" }
        /\ counted' = counted \cup {call[t].id}
        /\ prog' = [ prog EXCEPT ![t] = "none" ]
        /\ \/ pending_opens' = Forget(t) /\ call' = [ call EXCEPT ![t] = NoCall ]
           \/ prog[t] = "count_enter" /\ pending_opens' = pending_opens /\ call' = call
        /\ UNCHANGED << attached, detached, phase, inTarget, ops, owed, submitted >>
    BY DEF CountCorrelation, Counting, Ends, sensor
  <1>2. DOMAIN call = Threads /\ DOMAIN prog = Threads
    BY DEF KernelInv, IdInv
  <1>3. /\ \A u \in Threads \ {t} : call'[u] = call[u] /\ prog'[u] = prog[u]
        /\ (call'[t] = call[t] \/ call'[t].id = 0) /\ prog'[t] = "none"
        /\ DOMAIN call' = Threads /\ DOMAIN prog' = Threads
    BY <1>1, <1>2 DEF NoCall
  <1>4. call[t].id # 0 /\ call[t].id \in 1..ops /\ call[t].id \notin submitted
    BY <1>1 DEF KernelInv, ProgramInv, IdInv
  <1>5. /\ t \in DOMAIN pending_opens' => ~(detached < 3)
        /\ DOMAIN pending_opens' \subseteq DOMAIN pending_opens
        /\ \A u \in DOMAIN pending_opens \ {t} :
               u \in DOMAIN pending_opens' /\ pending_opens'[u] = pending_opens[u]
    <2>1. CASE pending_opens' = Forget(t)
      BY <2>1 DEF Forget
    <2>2. CASE prog[t] \notin { "none", "fill_open", "count_exit" } /\ pending_opens' = pending_opens
      BY <2>2 DEF KernelInv, PendingInv, Live
    <2> QED
      BY <1>1, <2>1, <2>2
  <1>6. \A u \in Threads \ {t} : call[u].id # call[t].id
    BY <1>4 DEF KernelInv, IdInv
  <1>7. IdInv'
    BY <1>1, <1>3, <1>4 DEF KernelInv, IdInv
  <1>8. AttachInv' /\ PendingInv'
    <2>1. AttachInv'
      BY <1>1, <1>3, <1>5, <1>6 DEF KernelInv, AttachInv, Opening
    <2>2. \A u \in Threads \ {t} : Live(u)' <=> Live(u)
      BY <1>1, <1>3 DEF Live
    <2>3. t \in DOMAIN pending_opens' => ~Live(t)'
      BY <1>1, <1>3, <1>5 DEF Live
    <2> HIDE DEF Live
    <2>4. ASSUME NEW u \in DOMAIN pending_opens'
          PROVE  /\ u \in Threads /\ attached' = 4
                 /\ pending_opens'[u].kind \in { "open", "sensitive" }
                 /\ pending_opens'[u].path \in Paths
      <3>1. pending_opens'[u] = pending_opens[u] /\ u \in DOMAIN pending_opens
        BY <1>1, <1>5 DEF Forget
      <3> QED
        BY <1>1, <3>1 DEF KernelInv, PendingInv
    <2>5. ASSUME NEW u \in DOMAIN pending_opens', Live(u)'
          PROVE  /\ pending_opens'[u].id = call'[u].id
                 /\ call'[u].id # 0 /\ call'[u].id \notin counted'
                 /\ call'[u].started /\ call'[u].kind # "none"
                 /\ prog'[u] \in { "none", "fill_open", "count_exit" }
      <3>1. u \in DOMAIN pending_opens \ {t} /\ u \in Threads /\ Live(u)
        BY <1>5, <2>2, <2>3, <2>4, <2>5
      <3>2. /\ call'[u] = call[u] /\ prog'[u] = prog[u] /\ pending_opens'[u] = pending_opens[u]
            /\ call[u].id \notin counted => call[u].id \notin counted'
        BY <1>1, <1>3, <1>5, <1>6, <3>1
      <3> QED
        BY <3>1, <3>2 DEF KernelInv, PendingInv
    <2>6. \A u \in Threads : prog'[u] = "fill_open" => u \in DOMAIN pending_opens'
      BY <1>3, <1>5 DEF KernelInv, PendingInv
    <2>7. PendingInv'
      BY <2>4, <2>5, <2>6 DEF PendingInv
    <2> QED
      BY <2>1, <2>7
  <1>9. ProgramInv'
    BY <1>1, <1>3, <1>5, <1>6 DEF KernelInv, ProgramInv, ProgramSteps, Filling
  <1>10. Accounted' /\ NoPhantomRecord'
    BY <1>1, <1>3, <1>4 DEF KernelInv, Accounted, NoPhantomRecord
  <1> QED
    BY <1>7, <1>8, <1>9, <1>10 DEF KernelInv

\* The ways observe_openat_exit may go, and what is owed afterwards.
LEMMA ExitFacts ==
    ASSUME KernelInv, NEW t \in Threads, OpenatExit(t)
    PROVE  /\ prog[t] = "none" /\ call[t].id # 0
           /\ UNCHANGED << attached, detached, phase, inTarget, ops, submitted >>
           /\ owed' \in { owed, owed \cup {call[t].id} }
           /\ \/ /\ t \notin DOMAIN pending_opens \/ ~(detached < 3)
                 /\ call' = [ call EXCEPT ![t] = NoCall ]
                 /\ UNCHANGED << prog, pending_opens, counted >>
                 /\ owed' # owed => call[t].id \in counted
              \/ /\ t \in DOMAIN pending_opens /\ detached < 3
                 /\ prog' = [ prog EXCEPT ![t] = "count_exit" ]
                 /\ UNCHANGED << call, pending_opens, counted >>
              \/ /\ t \in DOMAIN pending_opens /\ detached < 3
                 /\ call' = [ call EXCEPT ![t] = NoCall ] /\ pending_opens' = Forget(t)
                 /\ UNCHANGED << prog, counted >>
                 /\ owed' = owed
              \/ /\ t \in DOMAIN pending_opens /\ detached < 3
                 /\ prog' = [ prog EXCEPT ![t] = "fill_open" ]
                 /\ UNCHANGED << call, pending_opens, counted >>
                 /\ owed' = owed \cup {call[t].id}
              \/ /\ t \in DOMAIN pending_opens /\ detached < 3
                 /\ call' = [ call EXCEPT ![t] = NoCall ] /\ pending_opens' = Forget(t)
                 /\ prog' = prog
                 /\ counted' = counted \cup {call[t].id}
  <1>1. PICK ok \in BOOLEAN :
          /\ IF Attached("openat_exit")
             THEN observe_openat_exit(t, ok)
             ELSE Ends(t) /\ UNCHANGED << prog, pending_opens, ring, drops, counted >>
          /\ owed' = IF /\ Attached("openat_exit") /\ call[t].started
                        /\ call[t].kind # "none" /\ (ok \/ ~inTarget[t])
                     THEN owed \cup {call[t].id} ELSE owed
    BY DEF OpenatExit
  <1>2. /\ prog[t] = "none" /\ call[t].id # 0
        /\ UNCHANGED << attached, detached, phase, inTarget, ops, submitted >>
    BY DEF OpenatExit, sensor
  <1>3. owed' \in { owed, owed \cup {call[t].id} }
    BY <1>1
  <1>4. t \in DOMAIN pending_opens /\ detached < 3 =>
            Attached("openat_exit") /\ call[t].started /\ call[t].kind # "none"
    BY AttachFacts DEF KernelInv, PendingInv, Live
  <1>5. Attached("openat_exit") => detached < 3
    BY AttachFacts DEF KernelInv
  <1>50. owed' # owed => Attached("openat_exit") /\ call[t].started /\ call[t].kind # "none"
    BY <1>1
  <1>51. t \notin DOMAIN pending_opens \/ ~(detached < 3) =>
            (owed' # owed => call[t].id \in counted)
    BY <1>2, <1>5, <1>50 DEF KernelInv, ProgramInv
  <1>6. prog[t] # "fill_open" /\ DOMAIN prog = Threads
    BY <1>2 DEF KernelInv, IdInv
  <1>7. CASE t \notin DOMAIN pending_opens \/ ~(detached < 3)
    <2>1. Ends(t) /\ UNCHANGED << prog, pending_opens, counted >>
      BY <1>1, <1>5, <1>7 DEF observe_openat_exit
    <2> QED
      BY <1>2, <1>3, <1>51, <1>7, <2>1 DEF Ends
  <1>8. CASE t \in DOMAIN pending_opens /\ detached < 3 /\ ~inTarget[t]
    BY <1>1, <1>2, <1>3, <1>4, <1>8 DEF observe_openat_exit, CountCause
  <1>9. CASE t \in DOMAIN pending_opens /\ detached < 3 /\ inTarget[t] /\ ~ok
    BY <1>1, <1>2, <1>3, <1>4, <1>9 DEF observe_openat_exit, Ends
  <1>10. CASE t \in DOMAIN pending_opens /\ detached < 3 /\ inTarget[t] /\ ok
    <2>1. /\ owed' = owed \cup {call[t].id}
          /\ ReserveOr(t, call[t].id, "fill_open")
          /\ IF prog'[t] = "fill_open"
             THEN UNCHANGED << call, pending_opens >>
             ELSE pending_opens' = Forget(t) /\ Ends(t)
      BY <1>1, <1>4, <1>10 DEF observe_openat_exit
    <2>2. CASE prog' = [ prog EXCEPT ![t] = "fill_open" ] /\ counted' = counted
      BY <1>2, <1>3, <1>6, <1>10, <2>1, <2>2
    <2>3. CASE prog' = prog /\ counted' = counted \cup {call[t].id}
      BY <1>2, <1>3, <1>6, <1>10, <2>1, <2>3 DEF Ends
    <2> QED
      BY <2>1, <2>2, <2>3, ReserveFacts
  <1> QED
    BY <1>7, <1>8, <1>9, <1>10

\* The second half of an open, one case per early return.
LEMMA ExitKeeps ==
    ASSUME KernelInv, NEW t \in Threads, OpenatExit(t)
    PROVE  KernelInv'
  <1>1. /\ prog[t] = "none" /\ call[t].id # 0
        /\ UNCHANGED << attached, detached, phase, inTarget, ops, submitted >>
        /\ owed' \in { owed, owed \cup {call[t].id} }
    BY ExitFacts
  <1>2. /\ DOMAIN call = Threads /\ DOMAIN prog = Threads
        /\ call[t].id \in 1..ops /\ call[t].id \notin submitted
        /\ \A u \in Threads \ {t} : call[u].id # call[t].id
    BY <1>1 DEF KernelInv, IdInv
  <1>3. CASE \* the program has a second step
             /\ t \in DOMAIN pending_opens /\ detached < 3
             /\ UNCHANGED << call, pending_opens, counted >>
             /\ \/ prog' = [ prog EXCEPT ![t] = "count_exit" ]
                \/ prog' = [ prog EXCEPT ![t] = "fill_open" ] /\ owed' = owed \cup {call[t].id}
    <2>1. /\ DOMAIN prog' = Threads
          /\ \A u \in Threads \ {t} : prog'[u] = prog[u]
          /\ \/ prog'[t] = "count_exit"
             \/ prog'[t] = "fill_open" /\ owed' = owed \cup {call[t].id}
      BY <1>2, <1>3
    <2>2. /\ attached = 4 /\ call[t].id \notin counted /\ call[t].id = pending_opens[t].id
          /\ call[t].started /\ call[t].kind # "none" /\ phase # "closed"
      BY <1>3 DEF KernelInv, PendingInv, AttachInv, Live
    <2>3. IdInv'
      BY <1>1, <1>2, <1>3, <2>1 DEF KernelInv, IdInv
    <2>4. AttachInv'
      BY <1>1, <1>3, <2>1, <2>2 DEF KernelInv, AttachInv, Opening
    <2>40. PendingInv'
      <3>1. \A u \in Threads \ {t} : Live(u)' <=> Live(u)
        BY <1>1, <2>1 DEF Live
      <3> QED
        BY <1>1, <1>3, <2>1, <2>2, <3>1 DEF KernelInv, PendingInv
    <2>5. ProgramInv'
      BY <1>1, <1>3, <2>1, <2>2 DEF KernelInv, ProgramInv, ProgramSteps, Filling
    <2>6. Accounted' /\ NoPhantomRecord'
      BY <1>1, <1>3, <2>1 DEF KernelInv, Accounted, NoPhantomRecord
    <2> QED
      BY <2>3, <2>4, <2>40, <2>5, <2>6 DEF KernelInv
  <1>4. CASE \* the call ends here
             /\ call' = [ call EXCEPT ![t] = NoCall ] /\ prog' = prog
             /\ \/ /\ t \notin DOMAIN pending_opens \/ ~(detached < 3)
                   /\ pending_opens' = pending_opens
                \/ pending_opens' = Forget(t)
             /\ counted' \in { counted, counted \cup {call[t].id} }
             /\ owed' # owed => call[t].id \in counted'
    <2>1. /\ \A u \in Threads \ {t} : call'[u] = call[u]
          /\ call'[t].id = 0
          /\ DOMAIN call' = Threads
      BY <1>2, <1>4 DEF NoCall
    <2>2. /\ t \in DOMAIN pending_opens' => ~(detached < 3)
          /\ DOMAIN pending_opens' \subseteq DOMAIN pending_opens
          /\ \A u \in DOMAIN pending_opens \ {t} :
                 u \in DOMAIN pending_opens' /\ pending_opens'[u] = pending_opens[u]
      BY <1>4 DEF Forget
    <2>3. IdInv'
      BY <1>1, <1>2, <1>4, <2>1 DEF KernelInv, IdInv
    <2>4. AttachInv'
      BY <1>1, <1>4, <2>1, <2>2 DEF KernelInv, AttachInv, Opening
    <2>5. PendingInv'
      <3>1. t \in DOMAIN pending_opens' => ~Live(t)'
        BY <1>1, <1>4, <2>2 DEF Live
      <3>2. \A u \in Threads \ {t} : Live(u)' <=> Live(u)
        BY <1>1, <1>4 DEF Live
      <3>3. ASSUME NEW u \in DOMAIN pending_opens'
            PROVE  u \in Threads /\ pending_opens'[u] = pending_opens[u]
        BY <1>4, <2>2 DEF KernelInv, PendingInv, Forget
      <3>4. \A u \in Threads \ {t} : call[u].id \notin counted => call[u].id \notin counted'
        BY <1>2, <1>4
      <3>5. prog'[t] # "fill_open"
        BY <1>1, <1>4
      <3> QED
        BY <1>1, <1>4, <2>1, <2>2, <3>1, <3>2, <3>3, <3>4, <3>5 DEF KernelInv, PendingInv
    <2>6. ProgramInv'
      BY <1>1, <1>2, <1>4, <2>1, <2>2 DEF KernelInv, ProgramInv, ProgramSteps, Filling
    <2>7. Accounted' /\ NoPhantomRecord'
      BY <1>1, <1>2, <1>4, <2>1 DEF KernelInv, Accounted, NoPhantomRecord
    <2> QED
      BY <2>3, <2>4, <2>5, <2>6, <2>7 DEF KernelInv
  <1> QED
    BY <1>1, <1>3, <1>4, ExitFacts

\* The reader touches the ring only.
LEMMA ConsumeKeeps ==
    ASSUME KernelInv, UNCHANGED << attached, detached, phase, inTarget, call, prog, pending_opens, ops,
                                   owed, submitted, counted >>
    PROVE  KernelInv'
  BY DEF KernelInv, IdInv, AttachInv, PendingInv, ProgramInv, Accounted, NoPhantomRecord,
         Opening, Filling, Live

\* One case per program step, and those of the loader and the reader.
LEMMA KernelInvNext == KernelInv /\ [Next]_vars => KernelInv'
  <1> SUFFICES ASSUME KernelInv, [Next]_vars PROVE KernelInv'
    OBVIOUS
  <1>1. CASE Attach \/ BeginClose \/ CloseLink \/ FreeCollection
    BY <1>1, AttachKeeps, CloseLinkKeeps, FreeKeeps
  <1>2. CASE Consume
    BY <1>2, ConsumeKeeps DEF Consume, sensor
  <1>3. CASE \E t \in Threads : ThreadStep(t)
    <2>1. PICK t \in Threads : ThreadStep(t)
      BY <1>3
    <2>2. \A program : Attached(program) => phase # "closed"
      BY AttachFacts DEF KernelInv
    <2>3. CASE Exec(t) \/ Connect4(t)
      BY <2>2, <2>3, ImmediateKeeps DEF Exec, Connect4
    <2> QED
      BY <2>1, <2>3, MigrateKeeps, EnterKeeps, ExitKeeps, SubmitKeeps, CountKeeps DEF ThreadStep
  <1>4. CASE UNCHANGED vars
    BY <1>4, ConsumeKeeps DEF vars, sensor
  <1> QED
    BY <1>1, <1>2, <1>3, <1>4 DEF Next

-----------------------------------------------------------------------------
\* observe_openat_exit never makes a record from the arguments of an earlier call: as
\* long as it is attached, and while it runs after its link was closed, the entry it
\* finds was left by the open that is just ending.
THEOREM PendingIsCurrent == Spec => []PendingMatchesCall
  <1>1. KernelInv => PendingMatchesCall
    BY AttachFacts DEF KernelInv, PendingInv, PendingMatchesCall, Live
  <1> QED
    BY <1>1, KernelInvInit, KernelInvNext, PTL DEF Spec

\* However full the ring and pending_opens are and however programs of different
\* CPUs and cgroup moves interleave, a relevant operation is submitted or counted.
THEOREM LossIsNeverSilent == Spec => []NoSilentLoss
  <1>1. KernelInv => NoSilentLoss
    <2> SUFFICES ASSUME KernelInv, NEW id \in owed, id \notin submitted \cup counted
                 PROVE  id \in InFlight
      BY DEF NoSilentLoss
    <2>1. PICK t \in Threads : prog[t] # "none" /\ call[t].id = id
      BY DEF KernelInv, Accounted
    <2>2. Filling(t) \/ Counting(t)
      BY <2>1 DEF KernelInv, ProgramInv, ProgramSteps, Filling, Counting
    <2> QED
      BY <2>1, <2>2 DEF InFlight
  <1> QED
    BY <1>1, KernelInvInit, KernelInvNext, PTL DEF Spec

\* A failed open, one that began outside the target and an operation counted as
\* lost leave no record.
THEOREM RecordsAreReal == Spec => []NoPhantomRecord
  <1>1. KernelInv => NoPhantomRecord
    BY DEF KernelInv
  <1> QED
    BY <1>1, KernelInvInit, KernelInvNext, PTL DEF Spec

-----------------------------------------------------------------------------
(* The contract of RecordSource, and counters that agree with the losses   *)

CountingThreads == { t \in Threads : Counting(t) }

\* A step of the counters and the ring, told apart by what the programs do next.
SameThreads == \A t \in Threads : (Filling(t)' <=> Filling(t)) /\ (Counting(t)' <=> Counting(t))

OthersSame(t) ==
    \A u \in Threads \ {t} : (Filling(u)' <=> Filling(u)) /\ (Counting(u)' <=> Counting(u))

Quiet == UNCHANGED << ring, drops, counted >> /\ SameThreads

Reserving(t) ==
    /\ Len(ring) < RingSlots /\ ring' = Append(ring, Source!Busy(t))
    /\ UNCHANGED << drops, counted >>
    /\ OthersSame(t) /\ ~Filling(t) /\ ~Counting(t) /\ Filling(t)' /\ ~Counting(t)'

Losing(id) ==
    /\ Len(ring) = RingSlots /\ ring' = ring
    /\ Bump("ringbuf_drops") /\ id \notin counted /\ counted' = counted \cup {id}
    /\ SameThreads

CountingCause(t, cause) ==
    /\ UNCHANGED << ring, counted >> /\ Bump(cause)
    /\ OthersSame(t) /\ ~Filling(t) /\ ~Counting(t) /\ ~Filling(t)' /\ Counting(t)'

CountingAggregate(t) ==
    /\ ring' = ring /\ Bump("correlation_drops")
    /\ call[t].id \notin counted /\ counted' = counted \cup {call[t].id}
    /\ OthersSame(t) /\ ~Filling(t) /\ Counting(t) /\ ~Filling(t)' /\ ~Counting(t)'

Submitting(t) ==
    /\ ring' = [ i \in 1..Len(ring) |->
                   IF ring[i] = Source!Busy(t) THEN Filled(t) ELSE ring[i] ]
    /\ Filled(t) \in Records
    /\ UNCHANGED << drops, counted >>
    /\ OthersSame(t) /\ Filling(t) /\ ~Filling(t)' /\ ~Counting(t) /\ ~Counting(t)'

Reading == Source!Consume /\ counted' = counted /\ SameThreads

Resetting == Source!Reset /\ counted' = {} /\ \A t \in Threads : ~Filling(t)' /\ ~Counting(t)'

KernelStep ==
    \/ Quiet \/ Reading \/ Resetting
    \/ \E id : Losing(id)
    \/ \E t \in Threads : \/ Reserving(t) \/ CountingAggregate(t) \/ Submitting(t)
                          \/ \E cause \in Source!Causes : CountingCause(t, cause)

-----------------------------------------------------------------------------
\* What a program writes into its slot is a record.
LEMMA FilledIsRecord ==
    ASSUME KernelInv, NEW t \in Threads, Filling(t)
    PROVE  Filled(t) \in Records
  <1>1. CASE prog[t] = "fill_open"
    <2>1. pending_opens[t].kind \in { "open", "sensitive" } /\ pending_opens[t].path \in Paths
      BY <1>1 DEF KernelInv, PendingInv
    <2>2. Filled(t) = [ kind |-> pending_opens[t].kind, pid |-> t, path |-> pending_opens[t].path,
                        tgid |-> LeaderOf[t], start_time |-> StartTime[t] ]
      BY <1>1 DEF Filled
    <2> QED
      BY <2>1, <2>2, LeaderAssumption DEF Records
  <1>2. CASE prog[t] = "fill_exec"
    <2>1. Filled(t) = [ kind |-> "exec", pid |-> t, path |-> NoPath,
                        tgid |-> LeaderOf[t], start_time |-> StartTime[t] ]
      BY <1>2 DEF Filled
    <2> QED
      BY <2>1, LeaderAssumption DEF Records
  <1>3. CASE prog[t] = "fill_connect4"
    <2>1. Filled(t) = [ kind |-> "connect4", pid |-> t, path |-> NoPath,
                        tgid |-> LeaderOf[t], start_time |-> StartTime[t] ]
      BY <1>3 DEF Filled
    <2> QED
      BY <2>1, LeaderAssumption DEF Records
  <1> QED
    BY <1>1, <1>2, <1>3 DEF Filling

\* Every action is such a step.
LEMMA KernelSteps == KernelInv /\ [Next]_vars => KernelStep
  <1> SUFFICES ASSUME KernelInv, [Next]_vars PROVE KernelStep
    OBVIOUS
  <1>0. DOMAIN prog = Threads
    BY DEF KernelInv, IdInv
  <1>1. CASE Attach \/ BeginClose \/ CloseLink
    BY <1>1 DEF Attach, BeginClose, CloseLink, KernelStep, Quiet, SameThreads, Filling, Counting
  <1>2. CASE FreeCollection
    BY <1>2 DEF FreeCollection, KernelStep, Resetting, Filling, Counting
  <1>3. CASE Consume
    BY <1>3 DEF Consume, KernelStep, Reading, SameThreads, Filling, Counting
  <1>4. CASE UNCHANGED vars
    BY <1>4 DEF vars, KernelStep, Quiet, SameThreads, Filling, Counting
  <1>5. ASSUME NEW t \in Threads, ThreadStep(t)
        PROVE  KernelStep
    <2>1. CASE Migrate(t)
      BY <2>1 DEF Migrate, KernelStep, Quiet, SameThreads, Filling, Counting
    <2>2. ASSUME NEW id, NEW step \in { "fill_exec", "fill_open", "fill_connect4" },
                 prog[t] = "none", id \notin counted, ReserveOr(t, id, step)
          PROVE  KernelStep
      <3>1. CASE /\ Len(ring) < RingSlots
                 /\ ring' = Append(ring, Source!Busy(t))
                 /\ prog' = [ prog EXCEPT ![t] = step ]
                 /\ UNCHANGED << drops, counted >>
        <4>1. Reserving(t)
          BY <1>0, <2>2, <3>1 DEF Reserving, OthersSame, Filling, Counting
        <4> QED
          BY <4>1 DEF KernelStep
      <3>2. CASE /\ Len(ring) = RingSlots
                 /\ Bump("ringbuf_drops")
                 /\ counted' = counted \cup {id}
                 /\ UNCHANGED << ring, prog >>
        <4>1. Losing(id)
          BY <2>2, <3>2 DEF Losing, SameThreads, Filling, Counting
        <4> QED
          BY <4>1 DEF KernelStep
      <3> QED
        BY <2>2, <3>1, <3>2 DEF ReserveOr
    <2>3. ASSUME NEW cause \in Source!Causes, NEW step \in { "count_enter", "count_exit" },
                 prog[t] = "none", CountCause(t, cause, step), UNCHANGED << ring, counted >>
          PROVE  KernelStep
      <3>1. CountingCause(t, cause)
        BY <1>0, <2>3 DEF CountCause, CountingCause, OthersSame, Filling, Counting
      <3> QED
        BY <3>1 DEF KernelStep
    <2>4. CASE Exec(t) \/ Connect4(t)
      <3>1. ops + 1 \notin counted
        BY DEF KernelInv, IdInv
      <3> QED
        BY <2>2, <2>4, <3>1 DEF Exec, Connect4, Immediate, Begin
    <2>5. CASE UNCHANGED << prog, ring, drops, counted >>
      BY <2>5 DEF KernelStep, Quiet, SameThreads, Filling, Counting
    <2>6. CASE OpenatEnter(t)
      <3>1. PICK c : IF Attached("openat_enter") THEN observe_openat_enter(t, c)
                     ELSE UNCHANGED << prog, pending_opens, drops >>
        BY <2>6 DEF OpenatEnter
      <3>2. prog[t] = "none" /\ UNCHANGED << ring, counted >>
        BY <2>6 DEF OpenatEnter, Begin
      <3>3. \/ UNCHANGED << prog, drops >>
            \/ CountCause(t, "path_read_drops", "count_enter")
            \/ CountCause(t, "map_update_drops", "count_enter")
        BY <3>1 DEF observe_openat_enter
      <3> QED
        BY <2>3, <2>5, <3>2, <3>3 DEF Source!Causes
    <2>7. CASE OpenatExit(t)
      <3>1. prog[t] = "none" /\ \E ok \in BOOLEAN :
                IF Attached("openat_exit") THEN observe_openat_exit(t, ok)
                ELSE Ends(t) /\ UNCHANGED << prog, pending_opens, ring, drops, counted >>
        BY <2>7 DEF OpenatExit
      <3>2. \/ UNCHANGED << prog, ring, drops, counted >>
            \/ CountCause(t, "cgroup_mismatch_drops", "count_exit") /\ UNCHANGED << ring, counted >>
            \/ /\ t \in DOMAIN pending_opens /\ Attached("openat_exit")
               /\ ReserveOr(t, call[t].id, "fill_open")
        BY <3>1 DEF observe_openat_exit
      <3>3. t \in DOMAIN pending_opens /\ Attached("openat_exit") => call[t].id \notin counted
        BY AttachFacts DEF KernelInv, PendingInv, Live
      <3> QED
        BY <2>2, <2>3, <2>5, <3>1, <3>2, <3>3 DEF Source!Causes
    <2>8. CASE Submit(t)
      <3>1. Submitting(t)
        BY <1>0, <2>8, FilledIsRecord DEF Submit, Submitting, OthersSame, Filling, Counting
      <3> QED
        BY <3>1 DEF KernelStep
    <2>9. CASE CountCorrelation(t)
      <3>1. call[t].id \notin counted
        BY <2>9 DEF CountCorrelation, Counting, KernelInv, ProgramInv
      <3>2. CountingAggregate(t)
        BY <1>0, <2>9, <3>1 DEF CountCorrelation, CountingAggregate, OthersSame, Filling, Counting
      <3> QED
        BY <3>2 DEF KernelStep
    <2> QED
      BY <1>5, <2>1, <2>4, <2>6, <2>7, <2>8, <2>9 DEF ThreadStep
  <1> QED
    BY <1>1, <1>2, <1>3, <1>4, <1>5 DEF Next

-----------------------------------------------------------------------------
(* The counters                                                            *)

CountInv ==
    /\ drops \in [ Source!Counters -> Nat ]
    /\ IsFiniteSet(counted) /\ LossCountedOnce
    /\ IsFiniteSet(CountingThreads)
    /\ Source!CausesCounted = drops["correlation_drops"] + Cardinality(CountingThreads)

\* One increment of one counter.
LEMMA BumpFacts ==
    ASSUME drops \in [ Source!Counters -> Nat ], NEW c \in Source!Counters, Bump(c)
    PROVE  /\ drops' \in [ Source!Counters -> Nat ]
           /\ drops'[c] = drops[c] + 1
           /\ \A d \in Source!Counters \ {c} : drops'[d] = drops[d]
  BY DEF Bump

\* The set of threads between their two increments, after any kind of step.
LEMMA CountingSets ==
    /\ SameThreads => CountingThreads' = CountingThreads
    /\ \A t \in Threads : OthersSame(t) =>
           /\ (Counting(t)' <=> Counting(t)) => CountingThreads' = CountingThreads
           /\ Counting(t)' => CountingThreads' = CountingThreads \cup {t}
           /\ ~Counting(t)' => CountingThreads' = CountingThreads \ {t}
  <1>1. SameThreads => CountingThreads' = CountingThreads
    BY DEF SameThreads, CountingThreads
  <1>2. ASSUME NEW t \in Threads, OthersSame(t)
        PROVE  /\ (Counting(t)' <=> Counting(t)) => CountingThreads' = CountingThreads
               /\ Counting(t)' => CountingThreads' = CountingThreads \cup {t}
               /\ ~Counting(t)' => CountingThreads' = CountingThreads \ {t}
    BY <1>2 DEF OthersSame, CountingThreads
  <1> QED
    BY <1>1, <1>2

\* Before the first program runs all counters are zero.
LEMMA CountInvInit == Init => CountInv
  <1> SUFFICES ASSUME Init PROVE CountInv
    OBVIOUS
  <1>1. drops = [ c \in Source!Counters |-> 0 ] /\ counted = {} /\ CountingThreads = {}
    BY DEF Init, Source!Fresh, CountingThreads, Counting
  <1> QED
    BY <1>1, FS_EmptySet DEF CountInv, LossCountedOnce, Source!CausesCounted, Source!Counters,
                             Source!Causes

\* Each kind of step moves the counters and the sets together.
LEMMA CountInvNext == CountInv /\ KernelStep => CountInv'
  <1> SUFFICES ASSUME CountInv, KernelStep PROVE CountInv'
    OBVIOUS
  <1>0. /\ drops \in [ Source!Counters -> Nat ]
        /\ IsFiniteSet(counted) /\ IsFiniteSet(CountingThreads)
        /\ drops["ringbuf_drops"] + drops["correlation_drops"] = Cardinality(counted)
        /\ drops["path_read_drops"] + drops["map_update_drops"] + drops["cgroup_mismatch_drops"]
               = drops["correlation_drops"] + Cardinality(CountingThreads)
        /\ Cardinality(counted) \in Nat /\ Cardinality(CountingThreads) \in Nat
    BY FS_CardinalityType DEF CountInv, LossCountedOnce, Source!CausesCounted
  <1>00. /\ \A c \in Source!Counters : drops[c] \in Nat
         /\ { "ringbuf_drops", "correlation_drops", "path_read_drops", "map_update_drops",
              "cgroup_mismatch_drops" } = Source!Counters
    BY <1>0 DEF Source!Counters, Source!Causes
  <1> USE DEF CountInv, LossCountedOnce, Source!CausesCounted
  <1>1. CASE Quiet \/ Reading
    <2>1. UNCHANGED << drops, counted >> /\ CountingThreads' = CountingThreads
      BY <1>1, CountingSets DEF Quiet, Reading, Source!Consume
    <2> QED
      BY <1>0, <2>1
  <1>2. CASE Resetting
    <2>1. drops' = [ c \in Source!Counters |-> 0 ] /\ counted' = {} /\ CountingThreads' = {}
      BY <1>2 DEF Resetting, Source!Reset, CountingThreads
    <2> QED
      BY <1>00, <2>1, FS_EmptySet
  <1>3. ASSUME NEW id, Losing(id) PROVE CountInv'
    <2>1. CountingThreads' = CountingThreads /\ Bump("ringbuf_drops")
      BY <1>3, CountingSets DEF Losing
    <2>2. IsFiniteSet(counted') /\ Cardinality(counted') = Cardinality(counted) + 1
      BY <1>0, <1>3, FS_AddElement DEF Losing
    <2>3. /\ drops' \in [ Source!Counters -> Nat ]
          /\ drops'["ringbuf_drops"] = drops["ringbuf_drops"] + 1
          /\ \A d \in Source!Counters \ {"ringbuf_drops"} : drops'[d] = drops[d]
      BY <1>0, <1>00, <2>1, BumpFacts
    <2> QED
      BY <1>0, <1>00, <2>1, <2>2, <2>3
  <1>4. ASSUME NEW t \in Threads, Reserving(t) \/ Submitting(t) PROVE CountInv'
    <2>1. UNCHANGED << drops, counted >> /\ CountingThreads' = CountingThreads
      BY <1>4, CountingSets DEF Reserving, Submitting
    <2> QED
      BY <1>0, <2>1
  <1>5. ASSUME NEW t \in Threads, NEW cause \in Source!Causes, CountingCause(t, cause)
        PROVE  CountInv'
    <2>1. /\ counted' = counted /\ Bump(cause)
          /\ CountingThreads' = CountingThreads \cup {t} /\ t \notin CountingThreads
      BY <1>5, CountingSets DEF CountingCause, CountingThreads
    <2>2. /\ IsFiniteSet(CountingThreads')
          /\ Cardinality(CountingThreads') = Cardinality(CountingThreads) + 1
      BY <1>0, <2>1, FS_AddElement
    <2>3. /\ drops' \in [ Source!Counters -> Nat ]
          /\ drops'[cause] = drops[cause] + 1
          /\ \A d \in Source!Counters \ {cause} : drops'[d] = drops[d]
      BY <1>0, <2>1, BumpFacts DEF Source!Counters
    <2> QED
      BY <1>0, <1>00, <2>1, <2>2, <2>3 DEF Source!Causes
  <1>6. ASSUME NEW t \in Threads, CountingAggregate(t)
        PROVE  CountInv'
    <2>1. /\ Bump("correlation_drops")
          /\ call[t].id \notin counted /\ counted' = counted \cup {call[t].id}
          /\ CountingThreads' = CountingThreads \ {t} /\ t \in CountingThreads
      BY <1>6, CountingSets DEF CountingAggregate, CountingThreads
    <2>2. /\ IsFiniteSet(CountingThreads')
          /\ Cardinality(CountingThreads') = Cardinality(CountingThreads) - 1
      BY <1>0, <2>1, FS_RemoveElement
    <2>3. IsFiniteSet(counted') /\ Cardinality(counted') = Cardinality(counted) + 1
      BY <1>0, <2>1, FS_AddElement
    <2>4. /\ drops' \in [ Source!Counters -> Nat ]
          /\ drops'["correlation_drops"] = drops["correlation_drops"] + 1
          /\ \A d \in Source!Counters \ {"correlation_drops"} : drops'[d] = drops[d]
      BY <1>0, <1>00, <2>1, BumpFacts
    <2> QED
      BY <1>0, <1>00, <2>1, <2>2, <2>3, <2>4
  <1> QED
    BY <1>1, <1>2, <1>3, <1>4, <1>5, <1>6 DEF KernelStep

-----------------------------------------------------------------------------
(* The ring                                                                *)

RingValues == Records \cup { Source!Busy(t) : t \in Threads }

\* A busy slot belongs to one program, which is about to fill it.
RingInv ==
    /\ ring \in Seq(RingValues)
    /\ \A t \in Threads : Filling(t) => \E i \in 1..Len(ring) : ring[i] = Source!Busy(t)
    /\ \A t \in Threads : \A i \in 1..Len(ring) : ring[i] = Source!Busy(t) => Filling(t)
    /\ \A t \in Threads : \A i, j \in 1..Len(ring) :
           ring[i] = Source!Busy(t) /\ ring[j] = Source!Busy(t) => i = j

\* A busy slot is not a record, and names its thread.
LEMMA BusyFacts ==
    /\ \A t, u : Source!Busy(t) = Source!Busy(u) => t = u
    /\ \A t : Source!Busy(t).kind = "busy" /\ Source!Busy(t).pid = t
    /\ \A r \in Records : r.kind # "busy"
  BY DEF Source!Busy, Records

\* The ring is empty at first.
LEMMA RingInvInit == Init => RingInv
  BY DEF Init, Source!Fresh, RingInv, Filling

\* Only the program of a busy slot fills it, and only submitted slots are read.
LEMMA RingInvNext == RingInv /\ KernelStep => RingInv'
  <1> SUFFICES ASSUME RingInv, KernelStep PROVE RingInv'
    OBVIOUS
  <1>0. ring \in Seq(RingValues) /\ Len(ring) \in Nat
    BY DEF RingInv
  <1>1. CASE ring' = ring /\ SameThreads
    BY <1>1 DEF RingInv, SameThreads
  <1>2. ASSUME NEW t \in Threads, ring' = ring, OthersSame(t), ~Filling(t), ~Filling(t)'
        PROVE  RingInv'
    BY <1>2 DEF RingInv, OthersSame
  <1>3. CASE Reading
    <2>1. ring # << >> /\ ring[1].kind # "busy" /\ ring' = Tail(ring) /\ SameThreads
      BY <1>3 DEF Reading, Source!Consume, Source!HeadReady
    <2>2. /\ ring' \in Seq(RingValues)
          /\ Len(ring') = Len(ring) - 1
          /\ \A i \in 1..Len(ring') : ring'[i] = ring[i + 1]
      BY <1>0, <2>1
    <2>3. \A t \in Threads : ring[1] # Source!Busy(t)
      BY <2>1, BusyFacts
    <2>4. ASSUME NEW t \in Threads, NEW i \in 1..Len(ring), ring[i] = Source!Busy(t)
          PROVE  i - 1 \in 1..Len(ring') /\ ring'[i - 1] = Source!Busy(t)
      BY <1>0, <2>2, <2>3, <2>4
    <2>5. \A t \in Threads : Filling(t)' => \E i \in 1..Len(ring') : ring'[i] = Source!Busy(t)
      BY <2>1, <2>4 DEF RingInv, SameThreads
    <2>6. \A t \in Threads : \A i \in 1..Len(ring') : ring'[i] = Source!Busy(t) => Filling(t)'
      BY <1>0, <2>1, <2>2 DEF RingInv, SameThreads
    <2>7. \A t \in Threads : \A i, j \in 1..Len(ring') :
              ring'[i] = Source!Busy(t) /\ ring'[j] = Source!Busy(t) => i = j
      <3> SUFFICES ASSUME NEW t \in Threads, NEW i \in 1..Len(ring'), NEW j \in 1..Len(ring'),
                          ring'[i] = Source!Busy(t), ring'[j] = Source!Busy(t)
                   PROVE  i = j
        OBVIOUS
      <3>1. i + 1 \in 1..Len(ring) /\ j + 1 \in 1..Len(ring)
        BY <1>0, <2>2
      <3>2. i + 1 = j + 1
        BY <2>2, <3>1 DEF RingInv
      <3> QED
        BY <1>0, <2>2, <3>2
    <2> QED
      BY <2>2, <2>5, <2>6, <2>7 DEF RingInv, Source!Busy
  <1>4. CASE Resetting
    BY <1>4 DEF Resetting, Source!Reset, RingInv
  <1>5. ASSUME NEW t \in Threads, Reserving(t)
        PROVE  RingInv'
    <2>1. /\ ring' = Append(ring, Source!Busy(t))
          /\ ~Filling(t) /\ Filling(t)' /\ OthersSame(t)
      BY <1>5 DEF Reserving
    <2>2. /\ ring' \in Seq(RingValues)
          /\ Len(ring') = Len(ring) + 1
          /\ \A i \in 1..Len(ring) : ring'[i] = ring[i]
          /\ ring'[Len(ring) + 1] = Source!Busy(t)
      BY <1>0, <2>1 DEF RingValues
    <2>3. ASSUME NEW u \in Threads, NEW i \in 1..Len(ring'), ring'[i] = Source!Busy(u)
          PROVE  \/ u = t /\ i = Len(ring) + 1
                 \/ u # t /\ i \in 1..Len(ring) /\ ring[i] = Source!Busy(u)
      <3>1. CASE i = Len(ring) + 1
        BY <2>2, <2>3, <3>1, BusyFacts
      <3>2. CASE i \in 1..Len(ring)
        BY <2>1, <2>2, <2>3, <3>2 DEF RingInv
      <3> QED
        BY <1>0, <2>2, <3>1, <3>2
    <2>4. \A u \in Threads : Filling(u)' => \E i \in 1..Len(ring') : ring'[i] = Source!Busy(u)
      <3> SUFFICES ASSUME NEW u \in Threads, Filling(u)'
                   PROVE  \E i \in 1..Len(ring') : ring'[i] = Source!Busy(u)
        OBVIOUS
      <3>1. CASE u = t
        BY <1>0, <2>2, <3>1
      <3>2. CASE u # t
        <4>1. PICK i \in 1..Len(ring) : ring[i] = Source!Busy(u)
          BY <2>1, <3>2 DEF RingInv, OthersSame
        <4> QED
          BY <1>0, <2>2, <4>1
      <3> QED
        BY <3>1, <3>2
    <2>5. \A u \in Threads : \A i \in 1..Len(ring') : ring'[i] = Source!Busy(u) => Filling(u)'
      BY <2>1, <2>3 DEF RingInv, OthersSame
    <2>6. \A u \in Threads : \A i, j \in 1..Len(ring') :
              ring'[i] = Source!Busy(u) /\ ring'[j] = Source!Busy(u) => i = j
      BY <2>3 DEF RingInv
    <2> QED
      BY <2>2, <2>4, <2>5, <2>6 DEF RingInv, Source!Busy
  <1>6. ASSUME NEW t \in Threads, Submitting(t)
        PROVE  RingInv'
    <2>1. /\ ring' = [ i \in 1..Len(ring) |->
                         IF ring[i] = Source!Busy(t) THEN Filled(t) ELSE ring[i] ]
          /\ Filled(t) \in Records
          /\ OthersSame(t) /\ ~Filling(t)'
      BY <1>6 DEF Submitting
    <2>2. ring' \in Seq(RingValues) /\ Len(ring') = Len(ring)
      <3>1. ring' \in [ 1..Len(ring) -> RingValues ]
        BY <1>0, <2>1 DEF RingValues
      <3> QED
        BY <1>0, <3>1
    <2>3. ASSUME NEW u \in Threads, NEW i \in 1..Len(ring)
          PROVE  ring'[i] = Source!Busy(u) <=> u # t /\ ring[i] = Source!Busy(u)
      BY <2>1, BusyFacts
    <2>4. \A u \in Threads : Filling(u)' => \E i \in 1..Len(ring') : ring'[i] = Source!Busy(u)
      BY <2>1, <2>2, <2>3 DEF RingInv, OthersSame
    <2>5. \A u \in Threads : \A i \in 1..Len(ring') : ring'[i] = Source!Busy(u) => Filling(u)'
      BY <2>1, <2>2, <2>3 DEF RingInv, OthersSame
    <2>6. \A u \in Threads : \A i, j \in 1..Len(ring') :
              ring'[i] = Source!Busy(u) /\ ring'[j] = Source!Busy(u) => i = j
      BY <2>2, <2>3 DEF RingInv
    <2> QED
      BY <2>2, <2>4, <2>5, <2>6 DEF RingInv, Source!Busy
  <1> QED
    BY <1>1, <1>2, <1>3, <1>4, <1>5, <1>6
       DEF KernelStep, Quiet, Losing, CountingCause, CountingAggregate

-----------------------------------------------------------------------------
(* The contract                                                            *)

\* Each kind of step is one of the contract.
LEMMA StepKeepsContract ==
    CountInv /\ RingInv /\ KernelStep => [Source!Next]_<< ring, drops >>
  <1> SUFFICES ASSUME CountInv, RingInv, KernelStep PROVE [Source!Next]_<< ring, drops >>
    OBVIOUS
  <1> USE DEF Source!Next
  <1>1. CASE Quiet
    BY <1>1 DEF Quiet
  <1>2. CASE Reading \/ Resetting
    BY <1>2 DEF Reading, Resetting
  <1>3. ASSUME NEW id, Losing(id) PROVE Source!Next
    BY <1>3 DEF Losing, Bump, Source!DropFull
  <1>4. ASSUME NEW t \in Threads, Reserving(t) PROVE Source!Next
    <2>1. \A i \in 1..Len(ring) : ring[i] # Source!Busy(t)
      BY <1>4 DEF Reserving, RingInv
    <2> QED
      BY <1>4, <2>1 DEF Reserving, Source!Reserve
  <1>5. ASSUME NEW t \in Threads, Submitting(t) PROVE Source!Next
    <2>1. PICK i \in 1..Len(ring) : ring[i] = Source!Busy(t)
      BY <1>5 DEF Submitting, RingInv
    <2>2. Filled(t).pid = t /\ Filled(t) \in Records /\ drops' = drops
      BY <1>5 DEF Submitting, Filled
    <2>3. ring' = [ ring EXCEPT ![i] = Filled(t) ]
      <3>1. DOMAIN ring = 1..Len(ring) /\ ring = [ j \in 1..Len(ring) |-> ring[j] ]
        BY DEF RingInv
      <3>2. \A j \in 1..Len(ring) : ring[j] = Source!Busy(t) <=> j = i
        BY <2>1 DEF RingInv
      <3> QED
        BY <1>5, <3>1, <3>2 DEF Submitting
    <2>4. Source!Submit(i, Filled(t))
      BY <2>1, <2>2, <2>3 DEF Source!Submit
    <2> QED
      BY <2>2, <2>4
  <1>6. ASSUME NEW t \in Threads, NEW cause \in Source!Causes, CountingCause(t, cause)
        PROVE  Source!Next
    BY <1>6 DEF CountingCause, Bump, Source!CauseDrop
  <1>7. ASSUME NEW t \in Threads, CountingAggregate(t) PROVE Source!Next
    <2>1. t \in CountingThreads
      BY <1>7 DEF CountingAggregate, CountingThreads
    <2>2. Cardinality(CountingThreads) \in Nat /\ Cardinality(CountingThreads) # 0
      BY <2>1, FS_CardinalityType, FS_EmptySet DEF CountInv
    <2>3. drops["correlation_drops"] \in Nat
      BY DEF CountInv, Source!Counters
    <2>4. drops["correlation_drops"] < Source!CausesCounted
      BY <2>2, <2>3 DEF CountInv
    <2> QED
      BY <1>7, <2>4 DEF CountingAggregate, Bump, Source!CorrelationDrop
  <1> QED
    BY <1>1, <1>2, <1>3, <1>4, <1>5, <1>6, <1>7 DEF KernelStep

\* The collector may rely on RecordSource: whatever threads run on whatever CPUs, the
\* programs reserve, fill and count as it says.
THEOREM ProgramsKeepContract == Spec => KeepsContract
  <1>1. Init => Source!Fresh
    BY DEF Init
  <1>2. KernelInv /\ CountInv /\ RingInv /\ [Next]_vars =>
            CountInv' /\ RingInv' /\ [Source!Next]_<< ring, drops >>
    BY KernelSteps, CountInvNext, RingInvNext, StepKeepsContract
  <1> QED
    BY <1>1, <1>2, KernelInvInit, KernelInvNext, CountInvInit, RingInvInit, PTL
       DEF Spec, KeepsContract, Source!Spec

\* ringbuf_drops and correlation_drops, the two counters the verifier looks at, add
\* up to the operations lost.
THEOREM EveryLossCountedOnce == Spec => []LossCountedOnce
  <1>1. CountInv => LossCountedOnce
    BY DEF CountInv
  <1> QED
    BY <1>1, KernelSteps, KernelInvInit, KernelInvNext, CountInvInit, CountInvNext, PTL DEF Spec

\* The causes of correlation losses add up to their aggregate but for programs that
\* stand between the two increments.
THEOREM CausesAreComplete == Spec => []CausesAddUp
  <1>1. CountInv => CausesAddUp
    BY DEF CountInv, CausesAddUp, Source!CausesCounted, CountingThreads
  <1> QED
    BY <1>1, KernelSteps, KernelInvInit, KernelInvNext, CountInvInit, CountInvNext, PTL DEF Spec

-----------------------------------------------------------------------------
(* Types and limits                                                        *)

\* What the other invariants do not say of the types.
LimitInv ==
    /\ inTarget \in [ Threads -> BOOLEAN ]
    /\ prog \in [ Threads -> ProgramSteps ]
    /\ IsFiniteSet(DOMAIN pending_opens) /\ Cardinality(DOMAIN pending_opens) <= MaxPending
    /\ Len(ring) <= RingSlots

\* The map of pending opens grows by one entry when it has room, shrinks, or stays.
LEMMA PendingSteps ==
    [Next]_vars => \/ pending_opens' = pending_opens
                   \/ \E t \in Threads : pending_opens' = Forget(t)
                   \/ DOMAIN pending_opens' = {}
                   \/ \E t \in Threads : /\ ~MapFull(t)
                                         /\ DOMAIN pending_opens' = DOMAIN pending_opens \cup {t}
  <1> SUFFICES ASSUME [Next]_vars
               PROVE  \/ pending_opens' = pending_opens
                      \/ \E t \in Threads : pending_opens' = Forget(t)
                      \/ DOMAIN pending_opens' = {}
                      \/ \E t \in Threads : /\ ~MapFull(t)
                                            /\ DOMAIN pending_opens' = DOMAIN pending_opens \cup {t}
    OBVIOUS
  <1>1. CASE Attach \/ BeginClose \/ CloseLink \/ FreeCollection \/ Consume \/ UNCHANGED vars
    BY <1>1 DEF Attach, BeginClose, CloseLink, FreeCollection, Consume, vars
  <1>2. ASSUME NEW t \in Threads, Migrate(t) \/ Exec(t) \/ Connect4(t)
        PROVE  pending_opens' = pending_opens
    BY <1>2 DEF Migrate, Exec, Connect4, Immediate
  <1>3. ASSUME NEW t \in Threads, OpenatEnter(t)
        PROVE  \/ pending_opens' = pending_opens
               \/ ~MapFull(t) /\ DOMAIN pending_opens' = DOMAIN pending_opens \cup {t}
    BY <1>3 DEF OpenatEnter, observe_openat_enter, Pending
  <1>4. ASSUME NEW t \in Threads, OpenatExit(t) \/ Submit(t) \/ CountCorrelation(t)
        PROVE  pending_opens' \in { pending_opens, Forget(t) }
    BY <1>4 DEF OpenatExit, observe_openat_exit, Submit, CountCorrelation
  <1> QED
    BY <1>1, <1>2, <1>3, <1>4 DEF Next, ThreadStep

\* All that is empty is within its limit.
LEMMA LimitInvInit == Init => LimitInv
  <1> SUFFICES ASSUME Init PROVE LimitInv
    OBVIOUS
  <1>2. DOMAIN pending_opens = {} /\ Len(ring) = 0 /\ inTarget \in [ Threads -> BOOLEAN ]
    BY DEF Init, Source!Fresh
  <1>3. prog \in [ Threads -> ProgramSteps ]
    BY DEF Init, ProgramSteps
  <1> QED
    BY <1>2, <1>3, FS_EmptySet, BoundsAssumption DEF LimitInv

\* No program exceeds the ring or the map.
LEMMA LimitInvNext == RingInv /\ LimitInv /\ KernelStep /\ [Next]_vars => LimitInv'
  <1> SUFFICES ASSUME RingInv, LimitInv, KernelStep, [Next]_vars PROVE LimitInv'
    OBVIOUS
  <1>2. inTarget' \in [ Threads -> BOOLEAN ]
    <2>1. inTarget' = inTarget \/ \E t \in Threads : Migrate(t)
      BY DEF Next, ThreadStep, Attach, BeginClose, CloseLink, FreeCollection, Consume, Exec, Connect4, Immediate,
             OpenatEnter, OpenatExit, Submit, CountCorrelation, vars
    <2> QED
      BY <2>1 DEF Migrate, LimitInv
  <1>3. IsFiniteSet(DOMAIN pending_opens') /\ Cardinality(DOMAIN pending_opens') <= MaxPending
    <2>0. /\ IsFiniteSet(DOMAIN pending_opens) /\ Cardinality(DOMAIN pending_opens) <= MaxPending
          /\ Cardinality(DOMAIN pending_opens) \in Nat /\ MaxPending \in Nat
      BY FS_CardinalityType, BoundsAssumption DEF LimitInv
    <2>1. CASE pending_opens' = pending_opens
      BY <2>0, <2>1
    <2>2. ASSUME NEW t \in Threads, pending_opens' = Forget(t)
          PROVE  IsFiniteSet(DOMAIN pending_opens') /\ Cardinality(DOMAIN pending_opens') <= MaxPending
      <3>1. DOMAIN pending_opens' \subseteq DOMAIN pending_opens
        BY <2>2 DEF Forget
      <3>2. /\ IsFiniteSet(DOMAIN pending_opens')
            /\ Cardinality(DOMAIN pending_opens') <= Cardinality(DOMAIN pending_opens)
        BY <2>0, <3>1, FS_Subset
      <3>3. Cardinality(DOMAIN pending_opens') \in Nat
        BY <3>2, FS_CardinalityType
      <3> QED
        BY <2>0, <3>2, <3>3
    <2>3. CASE DOMAIN pending_opens' = {}
      BY <2>0, <2>3, FS_EmptySet
    <2>4. ASSUME NEW t \in Threads, ~MapFull(t), DOMAIN pending_opens' = DOMAIN pending_opens \cup {t}
          PROVE  IsFiniteSet(DOMAIN pending_opens') /\ Cardinality(DOMAIN pending_opens') <= MaxPending
      <3>1. CASE t \in DOMAIN pending_opens
        <4>1. DOMAIN pending_opens' = DOMAIN pending_opens
          BY <2>4, <3>1
        <4> QED
          BY <2>0, <4>1
      <3>2. CASE t \notin DOMAIN pending_opens
        <4>1. Cardinality(DOMAIN pending_opens) < MaxPending
          BY <2>0, <2>4, <3>2 DEF MapFull
        <4>2. /\ IsFiniteSet(DOMAIN pending_opens')
              /\ Cardinality(DOMAIN pending_opens') = Cardinality(DOMAIN pending_opens) + 1
          BY <2>0, <2>4, <3>2, FS_AddElement
        <4> QED
          BY <2>0, <4>1, <4>2
      <3> QED
        BY <3>1, <3>2
    <2> QED
      BY <2>1, <2>2, <2>3, <2>4, PendingSteps
  <1>4. Len(ring') <= RingSlots
    <2>0. ring \in Seq(RingValues) /\ Len(ring) \in Nat /\ Len(ring) <= RingSlots /\ RingSlots \in Nat
      BY BoundsAssumption DEF RingInv, LimitInv
    <2>1. CASE ring' = ring
      BY <2>0, <2>1
    <2>2. CASE Reading
      BY <2>0, <2>2 DEF Reading, Source!Consume, Source!HeadReady
    <2>3. CASE Resetting
      BY <2>0, <2>3 DEF Resetting, Source!Reset
    <2>4. ASSUME NEW t \in Threads, Reserving(t) PROVE Len(ring') <= RingSlots
      BY <2>0, <2>4 DEF Reserving
    <2>5. ASSUME NEW t \in Threads, Submitting(t) PROVE Len(ring') <= RingSlots
      BY <2>0, <2>5 DEF Submitting
    <2> QED
      BY <2>1, <2>2, <2>3, <2>4, <2>5 DEF KernelStep, Quiet, Losing, CountingCause, CountingAggregate
  <1>5. prog' \in [ Threads -> ProgramSteps ]
    <2>1. \/ prog' = prog
          \/ \E t \in Threads : \E step \in ProgramSteps : prog' = [ prog EXCEPT ![t] = step ]
      <3>1. CASE Attach \/ BeginClose \/ CloseLink \/ FreeCollection \/ Consume \/ UNCHANGED vars
        BY <3>1 DEF Attach, BeginClose, CloseLink, FreeCollection, Consume, vars
      <3>2. ASSUME NEW t \in Threads, ThreadStep(t)
            PROVE  \/ prog' = prog
                   \/ \E step \in ProgramSteps : prog' = [ prog EXCEPT ![t] = step ]
        <4>1. CASE Migrate(t) \/ Submit(t) \/ CountCorrelation(t)
          BY <4>1 DEF Migrate, Submit, CountCorrelation, ProgramSteps
        <4>2. CASE Exec(t) \/ Connect4(t)
          BY <4>2 DEF Exec, Connect4, Immediate, ReserveOr, ProgramSteps
        <4>3. CASE OpenatEnter(t)
          BY <4>3 DEF OpenatEnter, observe_openat_enter, CountCause, ProgramSteps
        <4>4. CASE OpenatExit(t)
          BY <4>4 DEF OpenatExit, observe_openat_exit, CountCause, ReserveOr, ProgramSteps
        <4> QED
          BY <3>2, <4>1, <4>2, <4>3, <4>4 DEF ThreadStep
      <3> QED
        BY <3>1, <3>2 DEF Next
    <2> QED
      BY <2>1 DEF LimitInv
  <1> QED
    BY <1>2, <1>3, <1>4, <1>5 DEF LimitInv

\* The ring and pending_opens stay within the sizes the programs declare for them,
\* and every counted operation is one that began.
THEOREM KernelTypes == Spec => []TypeOK
  <1>1. KernelInv /\ CountInv /\ LimitInv => TypeOK
    <2> SUFFICES ASSUME KernelInv, CountInv, LimitInv PROVE TypeOK
      OBVIOUS
    <2>1. prog \in [ Threads -> ProgramSteps ]
      BY DEF LimitInv
    <2>2. UNION { owed, submitted, counted } \subseteq 1..ops
      BY DEF KernelInv, IdInv
    <2>3. /\ attached \in 0..Len(AttachOrder) /\ detached \in 0..attached
          /\ phase \in { "open", "closing", "closed" } /\ DOMAIN call = Threads
      BY AttachFacts DEF KernelInv, AttachInv, IdInv
    <2>4. DOMAIN pending_opens \subseteq Threads
      BY DEF KernelInv, PendingInv
    <2>5. drops \in [ Source!Counters -> Nat ]
      BY DEF CountInv
    <2> QED
      BY <2>1, <2>2, <2>3, <2>4, <2>5, Zenon DEF TypeOK, LimitInv
  <1>2. KernelInv /\ CountInv /\ RingInv /\ LimitInv /\ [Next]_vars => CountInv' /\ RingInv' /\ LimitInv'
    BY KernelSteps, CountInvNext, RingInvNext, LimitInvNext
  <1> QED
    BY <1>1, <1>2, KernelInvInit, KernelInvNext, CountInvInit, RingInvInit, LimitInvInit, PTL DEF Spec
=============================================================================
