--------------------------- MODULE CollectorProofs ---------------------------
(***************************************************************************)
(* Proofs about the collector, for every set of command lines, records and *)
(* digests and for every bound.                                            *)
(***************************************************************************)
EXTENDS Collector, SequenceTheorems, FiniteSetTheorems, TLAPS

\* A finite sequence, whatever its elements are.
IsSequence(s) == \E S : s \in Seq(S)

\* The empty sequence is the one of length zero.
LEMMA ZeroLength ==
    ASSUME NEW s, IsSequence(s)
    PROVE  Len(s) \in Nat /\ (s = << >> <=> Len(s) = 0)
  <1>1. PICK S : s \in Seq(S)
    BY DEF IsSequence
  <1> QED
    BY <1>1

\* What appending an event to any sequence yields.
LEMMA AppendFacts ==
    ASSUME NEW s, NEW e, IsSequence(s)
    PROVE  /\ IsSequence(Append(s, e))
           /\ Len(s) \in Nat
           /\ Len(Append(s, e)) = Len(s) + 1
           /\ \A i \in 1..Len(s) : Append(s, e)[i] = s[i]
           /\ Append(s, e)[Len(s) + 1] = e
           /\ Append(s, e) # << >>
  <1>1. PICK S : s \in Seq(S)
    BY DEF IsSequence
  <1>2. s \in Seq(S \cup {e}) /\ e \in S \cup {e}
    BY <1>1
  <1>3. Append(s, e) \in Seq(S \cup {e})
    BY <1>2
  <1>4. IsSequence(Append(s, e))
    BY <1>3 DEF IsSequence
  <1> QED
    BY <1>2, <1>3, <1>4

\* The event Append seals carries the digest of its own body.
LEMMA SealedEvent ==
    ASSUME NEW c, NEW b, NEW s, NEW d
    PROVE  LET e == ChainEvent(c, b, s, d)
           IN  /\ e.sequence = c.sequence + 1
               /\ e.build = b
               /\ e.sensor = s
               /\ e.previous_event_hash = c.previous
               /\ e.event_hash = eventDigest(e)
               /\ e.operation = d.operation
  <1> DEFINE W(h) == WithHash(c, b, s, d, h)
  <1>1. ASSUME NEW h
        PROVE  /\ W(h).sequence = c.sequence + 1
               /\ W(h).build = b
               /\ W(h).sensor = s
               /\ W(h).previous_event_hash = c.previous
               /\ W(h).operation = d.operation
               /\ W(h).event_hash = h
               /\ Body(W(h)) = Body(W(Missing))
    BY DEF WithHash, Body
  <1>2. ASSUME NEW h PROVE eventDigest(W(h)) = eventDigest(W(Missing))
    BY <1>1 DEF eventDigest
  <1> HIDE DEF W
  <1>3. ChainEvent(c, b, s, d) = W(eventDigest(W(Missing)))
    BY DEF ChainEvent, W
  <1> QED
    BY <1>1, <1>2, <1>3

-----------------------------------------------------------------------------
(* The chain                                                               *)

\* A valid event that continues a chained sequence leaves it chained.
LEMMA ChainedAppend ==
    ASSUME NEW s, NEW e, IsSequence(s), Chained(s), validateEvent(e),
           e.sequence = Len(s) + 1,
           e.event_hash = eventDigest(e),
           e.previous_event_hash = IF s = << >> THEN zeroHash ELSE s[Len(s)].event_hash,
           s # << >> => e.build = s[1].build /\ e.sensor = s[1].sensor
    PROVE  Chained(Append(s, e))
  <1> DEFINE t == Append(s, e)
  <1>1. /\ Len(s) \in Nat
        /\ Len(t) = Len(s) + 1
        /\ \A i \in 1..Len(s) : t[i] = s[i]
        /\ t[Len(s) + 1] = e
    BY AppendFacts
  <1>2. s = << >> <=> Len(s) = 0
    BY ZeroLength DEF IsSequence
  <1> HIDE DEF t
  <1>3. \A i \in 1..Len(t) : validateEvent(t[i])
    BY <1>1 DEF Chained
  <1>4. SequenceContiguous(t)
    BY <1>1 DEF Chained, SequenceContiguous
  <1>5. ScopeConstant(t)
    <2>1. CASE Len(s) = 0
      BY <2>1, <1>1 DEF ScopeConstant
    <2>2. CASE Len(s) > 0
      <3>1. t[1] = s[1]
        BY <2>2, <1>1
      <3> QED
        BY <3>1, <2>2, <1>1, <1>2 DEF Chained, ScopeConstant
    <2> QED
      BY <2>1, <2>2, <1>1
  <1>6. HashLinked(t)
    <2> SUFFICES ASSUME NEW i \in 1..Len(t)
                 PROVE  /\ t[i].previous_event_hash =
                              IF i = 1 THEN zeroHash ELSE t[i-1].event_hash
                        /\ t[i].event_hash = eventDigest(t[i])
      BY DEF HashLinked
    <2>1. CASE i \in 1..Len(s)
      <3>1. t[i] = s[i] /\ (i # 1 => t[i-1] = s[i-1])
        BY <2>1, <1>1
      <3>2. /\ s[i].previous_event_hash = IF i = 1 THEN zeroHash ELSE s[i-1].event_hash
            /\ s[i].event_hash = eventDigest(s[i])
        BY <2>1 DEF Chained, HashLinked
      <3> QED
        BY <3>1, <3>2
    <2>2. CASE i = Len(s) + 1
      <3>1. t[i] = e /\ (i # 1 => t[i-1] = s[Len(s)])
        BY <2>2, <1>1
      <3>2. i = 1 <=> s = << >>
        BY <2>2, <1>1, <1>2
      <3> QED
        BY <3>1, <3>2
    <2> QED
      BY <2>1, <2>2, <1>1
  <1> QED
    BY <1>3, <1>4, <1>5, <1>6 DEF Chained, t

\* The inductive invariant: the chain in memory and the file on disk agree
\* while, and only while, one process holds the file it created.
ChainInv ==
    /\ pc \in Running \cup Ended
    /\ IsSequence(stream)
    /\ StreamChained
    /\ ~exists => stream = << >> /\ ~torn
    /\ pc \in Writing => exists
    /\ pc \in { "open", "create", "started" } => chain = NewEventChain
    /\ pc = "started" => stream = << >> /\ ~torn
    /\ WriterOwnsStream
    /\ pc \in Writing /\ stream # << >> =>
           /\ stream[1].build = flags.build
           /\ stream[1].sensor = digestSensorConfiguration(flags)

\* Before the first run there is no evidence file, so nothing has to be chained.
LEMMA ChainInvInit == Init => ChainInv
  <1> SUFFICES ASSUME Init PROVE ChainInv
    OBVIOUS
  <1>1. << >> \in Seq({}) /\ Len(<< >>) = 0
    OBVIOUS
  <1>2. IsSequence(stream) /\ stream = << >> /\ pc = "flags" /\ ~torn
    BY <1>1 DEF Init, IsSequence
  <1>3. StreamChained
    BY <1>1, <1>2 DEF StreamChained, Chained, SequenceContiguous, ScopeConstant, HashLinked
  <1> QED
    BY <1>2, <1>3 DEF ChainInv, WriterOwnsStream, Running, Writing, Monitoring, Ended

\* writeEvent keeps the invariant from every place that may write.
LEMMA WriteEventKeepsChain ==
    ASSUME ChainInv, pc \in Writing, flags' = flags,
           NEW draft, NEW next \in Monitoring \cup Ended,
           writeEvent(draft, next)
    PROVE  ChainInv'
  <1> DEFINE event == Seal(draft)
  <1>1. /\ event.sequence = chain.sequence + 1
        /\ event.build = flags.build
        /\ event.sensor = digestSensorConfiguration(flags)
        /\ event.previous_event_hash = chain.previous
        /\ event.event_hash = eventDigest(event)
    BY SealedEvent DEF Seal
  <1> HIDE DEF event
  <1>2. /\ IsSequence(stream) /\ Chained(stream) /\ ~torn
        /\ exists
        /\ chain.sequence = Len(stream)
        /\ chain.previous = IF stream = << >> THEN zeroHash
                            ELSE stream[Len(stream)].event_hash
        /\ stream # << >> => /\ stream[1].build = flags.build
                            /\ stream[1].sensor = digestSensorConfiguration(flags)
    BY DEF ChainInv, WriterOwnsStream, StreamChained
  <1>3. /\ chain' = ChainAppend(chain, event)
        /\ exists' = exists
        /\ pc' \in Monitoring \cup Ended
    BY DEF writeEvent, event, Ended
  <1>4. CASE /\ validateEvent(event)
             /\ stream' = Append(stream, event) /\ torn' = torn
    <2>1. /\ IsSequence(stream') /\ stream' # << >>
          /\ Len(stream) \in Nat
          /\ Len(stream') = Len(stream) + 1
          /\ \A i \in 1..Len(stream) : stream'[i] = stream[i]
          /\ stream'[Len(stream')] = event
      BY <1>2, <1>4, AppendFacts
    <2>2. Chained(stream')
      BY <1>1, <1>2, <1>4, ChainedAppend
    <2>3. chain'.sequence = Len(stream') /\ chain'.previous = stream'[Len(stream')].event_hash
      BY <1>1, <1>2, <1>3, <1>4, <2>1 DEF ChainAppend
    <2>4. stream'[1].build = flags.build /\ stream'[1].sensor = digestSensorConfiguration(flags)
      <3>1. CASE stream = << >>
        BY <3>1, <1>1, <2>1, ZeroLength, <1>2
      <3>2. CASE stream # << >>
        <4>1. 1 \in 1..Len(stream)
          BY <3>2, <1>2, ZeroLength
        <4> QED
          BY <4>1, <3>2, <1>2, <2>1
      <3> QED
        BY <3>1, <3>2
    <2>5. digestSensorConfiguration(flags)' = digestSensorConfiguration(flags)
      BY DEF digestSensorConfiguration
    <2>6. WriterOwnsStream'
      BY <1>2, <1>4, <2>1, <2>3 DEF WriterOwnsStream
    <2>7. exists'
      BY <1>2, <1>3
    <2> QED
      BY <1>3, <2>1, <2>2, <2>4, <2>5, <2>6, <2>7
         DEF ChainInv, StreamChained, Running, Writing, Monitoring, Ended
  <1>5. CASE stream' = stream /\ pc' = "fatal"
    BY <1>2, <1>3, <1>5 DEF ChainInv, WriterOwnsStream, StreamChained,
                            Running, Writing, Monitoring, Ended
  <1> QED
    BY <1>4, <1>5 DEF writeEvent, event

\* A step that touches neither the chain nor the file, and that neither takes
\* nor gives up the file except by ending, keeps the invariant.
LEMMA QuietStepKeepsChain ==
    ASSUME ChainInv, UNCHANGED << chain, file >>,
           pc' \in Running \cup Ended,
           pc' \in Writing => pc \in Writing /\ flags' = flags,
           pc' \in { "open", "create", "started" } => pc' = pc \/ pc = "open"
    PROVE  ChainInv'
  <1>1. UNCHANGED << chain, exists, stream, torn >>
    BY DEF file
  <1>2. pc' = "started" => pc = "started"
    BY DEF Writing, Monitoring
  <1>3. WriterOwnsStream'
    BY <1>1 DEF ChainInv, WriterOwnsStream
  <1>4. pc' \in Writing => digestSensorConfiguration(flags)' = digestSensorConfiguration(flags)
    BY DEF digestSensorConfiguration
  <1> QED
    BY <1>1, <1>2, <1>3, <1>4 DEF ChainInv, StreamChained

\* writeEvent extends the chain by a linked event and every other step of main, of
\* the kernel and of the host leaves file and chain position alone.
LEMMA ChainInvNext == ChainInv /\ [Next]_vars => ChainInv'
  <1> SUFFICES ASSUME ChainInv, [Next]_vars PROVE ChainInv'
    OBVIOUS
  <1> USE DEF Running, Writing, Monitoring, Ended
  <1>1. CASE ParseFlags
    <2>1. UNCHANGED << exists, stream, torn >> /\ pc = "flags" /\ pc' \in { "open", "fatal" }
          /\ chain' = NewEventChain
      BY <1>1 DEF ParseFlags, file
    <2> QED
      BY <2>1 DEF ChainInv, StreamChained, WriterOwnsStream
  <1>2. CASE OpenSensor
    BY <1>2, QuietStepKeepsChain DEF OpenSensor
  <1>3. CASE CreateEvidence
    <2>1. CASE ~exists /\ exists' = TRUE /\ pc' = "started"
      <3>1. /\ stream = << >> /\ stream' = << >> /\ ~torn /\ ~torn' /\ pc = "create"
            /\ chain = NewEventChain /\ chain' = chain /\ flags' = flags
        BY <1>3, <2>1 DEF CreateEvidence, ChainInv
      <3>2. WriterOwnsStream'
        BY <3>1 DEF WriterOwnsStream, NewEventChain
      <3> QED
        BY <2>1, <3>1, <3>2 DEF ChainInv, StreamChained
    <2>2. CASE exists' = exists /\ pc' = "fatal"
      <3>1. UNCHANGED << chain, file >>
        BY <1>3, <2>2 DEF CreateEvidence, file
      <3> QED
        BY <2>2, <3>1, QuietStepKeepsChain
    <2> QED
      BY <1>3, <2>1, <2>2 DEF CreateEvidence
  <1>4. CASE WriteStarted
    BY <1>4, WriteEventKeepsChain DEF WriteStarted
  <1>5. CASE CheckContext \/ PollDeadline \/ ReadError \/ ReadMalformed \/ AfterReadError
    BY <1>5, QuietStepKeepsChain
       DEF CheckContext, PollDeadline, ReadError, ReadMalformed, AfterReadError
  <1>6. CASE HandleExec
    BY <1>6, WriteEventKeepsChain DEF HandleExec, TakeRecord
  <1>7. CASE HandleOpen \/ HandleSensitive \/ HandleConnect
    <2>1. pc = "poll" /\ flags' = flags
      BY <1>7 DEF HandleOpen, HandleSensitive, HandleConnect, TakeRecord
    <2>2. CASE SkipRecord
      BY <2>1, <2>2, QuietStepKeepsChain DEF SkipRecord
    <2>3. CASE \E draft : writeEvent(draft, "check")
      BY <2>1, <2>3, WriteEventKeepsChain
    <2> QED
      BY <1>7, <2>2, <2>3 DEF HandleOpen, HandleSensitive, HandleConnect
  <1>8. CASE FinalizeArtifact
    <2>1. pc = "artifact" /\ flags' = flags
      BY <1>8 DEF FinalizeArtifact
    <2>2. CASE pc' = "fatal" /\ UNCHANGED << chain, file >>
      BY <2>1, <2>2, QuietStepKeepsChain
    <2>3. CASE \E draft : writeEvent(draft, "loss")
      BY <2>1, <2>3, WriteEventKeepsChain
    <2> QED
      BY <1>8, <2>2, <2>3 DEF FinalizeArtifact
  <1>9. CASE ReadCounter
    BY <1>9, QuietStepKeepsChain DEF ReadCounter
  <1>10. CASE WriteFinalized
    BY <1>10, WriteEventKeepsChain DEF WriteFinalized
  <1>11. CASE Signal \/ Crash
    BY <1>11, QuietStepKeepsChain DEF Signal, Crash
  <1>12. CASE Restart
    BY <1>12, QuietStepKeepsChain DEF Restart
  <1>13. CASE KernelReserve \/ KernelSubmit \/ KernelCauseDrop \/ KernelCorrelationDrop
    BY <1>13, QuietStepKeepsChain
       DEF KernelReserve, KernelSubmit, KernelCauseDrop, KernelCorrelationDrop, KernelActive
  <1>14. CASE Tick \/ Suspend
    BY <1>14, QuietStepKeepsChain DEF Tick, Suspend
  <1>15. CASE UNCHANGED vars
    BY <1>15, QuietStepKeepsChain DEF vars, ChainInv
  <1> QED
    BY <1>1, <1>2, <1>3, <1>4, <1>5, <1>6, <1>7, <1>8, <1>9, <1>10, <1>11, <1>12, <1>13,
       <1>14, <1>15 DEF Next, CollectorStep, Environment

\* In every behaviour of the collector, with any number of crashes, failed
\* writes and restarts for any builds, the evidence file is chained: numbered,
\* of one build and sensor, and hash linked from its first line to its last.
THEOREM EvidenceIsChained == Spec => []StreamChained
  <1>1. ChainInv => StreamChained
    BY DEF ChainInv
  <1> QED
    BY <1>1, ChainInvInit, ChainInvNext, PTL DEF Spec

\* No process ever writes to evidence another one has left, and no event is
\* written behind a cut line.
THEOREM EvidenceHasOneWriter == Spec => []WriterOwnsStream
  <1>1. ChainInv => WriterOwnsStream
    BY DEF ChainInv
  <1> QED
    BY <1>1, ChainInvInit, ChainInvNext, PTL DEF Spec

-----------------------------------------------------------------------------
(* The evidence file only grows                                            *)

\* A sequence is a prefix of itself and of itself with one more element.
LEMMA PrefixFacts ==
    ASSUME NEW s, IsSequence(s)
    PROVE  /\ Len(s) >= Len(s) /\ SubSeq(s, 1, Len(s)) = s
           /\ \A e : /\ Len(Append(s, e)) >= Len(s)
                     /\ SubSeq(Append(s, e), 1, Len(s)) = s
  <1>1. PICK S : s \in Seq(S)
    BY DEF IsSequence
  <1>2. Len(s) >= Len(s) /\ SubSeq(s, 1, Len(s)) = s
    BY <1>1, SubSeqProperties, LenProperties
  <1>3. ASSUME NEW e
        PROVE  Len(Append(s, e)) >= Len(s) /\ SubSeq(Append(s, e), 1, Len(s)) = s
    <2>1. s \in Seq(S \cup {e}) /\ Append(s, e) \in Seq(S \cup {e})
      BY <1>1
    <2>2. Len(s) \in Nat /\ Len(Append(s, e)) = Len(s) + 1
          /\ \A i \in 1..Len(s) : Append(s, e)[i] = s[i]
      BY AppendFacts
    <2> QED
      BY <2>1, <2>2, SubSeqProperties, LenProperties
  <1> QED
    BY <1>2, <1>3

\* writeEvent changes the file by at most one more line or a cut one.
StreamGrows ==
    \/ UNCHANGED << stream, torn >>
    \/ pc \in Writing /\ (stream' = stream \/ \E e : stream' = Append(stream, e))

\* O_EXCL|O_APPEND in one step: the file is as before or has lines added at its end.
LEMMA NextGrowsStream == [Next]_vars => StreamGrows
  <1> SUFFICES ASSUME [Next]_vars PROVE StreamGrows
    OBVIOUS
  <1> USE DEF StreamGrows, Writing, Monitoring
  <1>1. ASSUME NEW draft, NEW next, writeEvent(draft, next)
        PROVE  stream' = stream \/ \E e : stream' = Append(stream, e)
    BY <1>1 DEF writeEvent
  <1>2. CASE WriteStarted \/ HandleExec \/ FinalizeArtifact \/ WriteFinalized
    BY <1>1, <1>2 DEF WriteStarted, HandleExec, TakeRecord, FinalizeArtifact, WriteFinalized, file
  <1>3. CASE HandleOpen \/ HandleSensitive \/ HandleConnect
    BY <1>1, <1>3 DEF HandleOpen, HandleSensitive, HandleConnect, TakeRecord, SkipRecord, file
  <1>4. CASE ParseFlags \/ OpenSensor \/ CreateEvidence \/ CheckContext \/ PollDeadline
             \/ ReadError \/ ReadMalformed \/ AfterReadError \/ ReadCounter
    BY <1>4 DEF ParseFlags, OpenSensor, CreateEvidence, CheckContext, PollDeadline,
                ReadError, ReadMalformed, AfterReadError, ReadCounter, file
  <1>5. CASE Environment
    BY <1>5 DEF Environment, Signal, Crash, Restart, KernelReserve, KernelSubmit,
                KernelCauseDrop, KernelCorrelationDrop, Tick, Suspend, file
  <1>6. CASE UNCHANGED vars
    BY <1>6 DEF vars, file
  <1> QED
    BY <1>2, <1>3, <1>4, <1>5, <1>6 DEF Next, CollectorStep

\* No step of any process changes or removes a line of the evidence file, and a
\* cut line stays the last one.
THEOREM EvidenceOnlyGrows == Spec => EvidenceAppendOnly
  <1> DEFINE Grows == /\ Len(stream') >= Len(stream)
                      /\ SubSeq(stream', 1, Len(stream)) = stream
                      /\ torn => torn' /\ stream' = stream
  <1>1. ChainInv /\ [Next]_vars => Grows
    <2> SUFFICES ASSUME ChainInv, [Next]_vars PROVE Grows
      OBVIOUS
    <2>1. IsSequence(stream) /\ (pc \in Writing => ~torn)
      BY DEF ChainInv, WriterOwnsStream
    <2>2. StreamGrows
      BY NextGrowsStream
    <2> QED
      BY <2>1, <2>2, PrefixFacts DEF StreamGrows
  <1> HIDE DEF Grows
  <1>2. Spec => [][Grows]_vars
    BY <1>1, ChainInvInit, ChainInvNext, PTL DEF Spec
  <1> QED
    BY <1>2 DEF EvidenceAppendOnly, Grows

-----------------------------------------------------------------------------
(* Type correctness                                                        *)

\* TypeOK with what its bounds rest on: Loss() has read all its maps only in
\* "final", and the process map has a finite domain.
TypeInv ==
    /\ TypeOK
    /\ IsSequence(ring)
    /\ IsSequence(snapshot)
    /\ pc \in Running \ { "final" } => Len(snapshot) < Len(LossMaps)
    /\ IsFiniteSet(DOMAIN processes)

\* Loss() reads five maps.
LEMMA FiveLossMaps == Len(LossMaps) = 5
  BY DEF LossMaps

\* When a map cannot be read, Loss() returns one zero per map.
LEMMA NoLossFacts == IsSequence(NoLoss) /\ Len(NoLoss) = Len(LossMaps)
  <1>1. NoLoss \in Seq(Nat) /\ Len(NoLoss) = 5
    BY FiveLossMaps DEF NoLoss
  <1> QED
    BY <1>1, FiveLossMaps DEF IsSequence

\* Taking the head off a ring, or filling one of its slots, keeps its bound.
LEMMA RingFacts ==
    ASSUME NEW s, IsSequence(s)
    PROVE  /\ s # << >> => IsSequence(Tail(s)) /\ Len(Tail(s)) <= Len(s)
           /\ \A e : \A i \in 1..Len(s) :
                  IsSequence([ s EXCEPT ![i] = e ]) /\ Len([ s EXCEPT ![i] = e ]) = Len(s)
  <1>1. PICK S : s \in Seq(S)
    BY DEF IsSequence
  <1>2. s # << >> => IsSequence(Tail(s)) /\ Len(Tail(s)) <= Len(s)
    BY <1>1 DEF IsSequence
  <1>3. ASSUME NEW e, NEW i \in 1..Len(s)
        PROVE  IsSequence([ s EXCEPT ![i] = e ]) /\ Len([ s EXCEPT ![i] = e ]) = Len(s)
    <2>1. s \in Seq(S \cup {e})
      BY <1>1
    <2>2. [ s EXCEPT ![i] = e ] \in Seq(S \cup {e}) /\ Len([ s EXCEPT ![i] = e ]) = Len(s)
      BY <2>1
    <2> QED
      BY <2>2 DEF IsSequence
  <1> QED
    BY <1>2, <1>3

\* The uint64 decode counter stays below its modulus when it is incremented.
LEMMA DecodeLossFacts ==
    ASSUME NEW n \in 0..(Wrap - 1)
    PROVE  (n + 1) % Wrap \in 0..(Wrap - 1)
  BY WrapAssumption

\* The initial state of a run has the types the type invariant lists.
LEMMA TypeInvInit == Init => TypeInv
  <1> SUFFICES ASSUME Init PROVE TypeInv
    OBVIOUS
  <1>1. << >> \in Seq({}) /\ Len(<< >>) = 0
    OBVIOUS
  <1>2. DOMAIN processes = {} /\ IsFiniteSet({}) /\ Cardinality({}) = 0
    BY FS_EmptySet DEF Init, NoResource
  <1>3. IsSequence(ring) /\ IsSequence(snapshot) /\ Len(ring) = 0 /\ Len(snapshot) = 0
    BY <1>1 DEF Init, Source!Fresh, IsSequence
  <1>4. DOMAIN drops = Source!Counters
    BY DEF Init, Source!Fresh
  <1>5. stop \in BOOLEAN /\ counterReadError \in BOOLEAN /\ exists \in BOOLEAN /\ torn \in BOOLEAN
    BY Zenon DEF Init
  <1>6. pc \in Running /\ flags \in FlagSets /\ decodeLoss = 0 /\ chain.sequence = 0
    BY DEF Init, NewEventChain, Running
  <1> HIDE DEF Init
  <1> QED
    BY <1>2, <1>3, <1>4, <1>5, <1>6, FiveLossMaps, BoundsAssumption, WrapAssumption
       DEF TypeInv, TypeOK

\* Which steps write to the evidence file, and where they go from there.
LEMMA WritingSteps ==
    [Next]_vars =>
        \/ UNCHANGED << chain, file >>
        \/ ParseFlags \/ CreateEvidence
        \/ pc \in Writing /\ \E draft, next : next \in Monitoring \cup Ended /\ writeEvent(draft, next)
  <1> SUFFICES ASSUME [Next]_vars
               PROVE  \/ UNCHANGED << chain, file >>
                      \/ ParseFlags \/ CreateEvidence
                      \/ /\ pc \in Writing
                         /\ \E draft, next : next \in Monitoring \cup Ended /\ writeEvent(draft, next)
    OBVIOUS
  <1> USE DEF Writing, Monitoring, Ended
  <1>1. CASE WriteStarted \/ HandleExec \/ FinalizeArtifact \/ WriteFinalized
    BY <1>1 DEF WriteStarted, HandleExec, TakeRecord, FinalizeArtifact, WriteFinalized
  <1>2. CASE HandleOpen \/ HandleSensitive \/ HandleConnect
    BY <1>2 DEF HandleOpen, HandleSensitive, HandleConnect, TakeRecord, SkipRecord
  <1>3. CASE OpenSensor \/ CheckContext \/ PollDeadline \/ ReadError \/ ReadMalformed \/ AfterReadError \/ ReadCounter
    BY <1>3 DEF OpenSensor, CheckContext, PollDeadline, ReadError, ReadMalformed, AfterReadError, ReadCounter
  <1>4. CASE Environment
    BY <1>4 DEF Environment, Signal, Crash, Restart, KernelReserve, KernelSubmit,
                KernelCauseDrop, KernelCorrelationDrop, Tick, Suspend
  <1>5. CASE UNCHANGED vars
    BY <1>5 DEF vars
  <1> QED
    BY <1>1, <1>2, <1>3, <1>4, <1>5 DEF Next, CollectorStep

\* Which steps change the remaining variables that TypeOK bounds.
LEMMA Frames ==
    [Next]_vars =>
        /\ flags' = flags \/ Restart
        /\ stop' = stop \/ Signal \/ Restart
        /\ UNCHANGED loss \/ ReadCounter \/ Restart
        /\ UNCHANGED << ring, drops >> \/ OpenSensor \/ ReadMalformed
           \/ (\E kind : TakeRecord(kind) /\ drops' = drops)
           \/ KernelReserve \/ KernelSubmit \/ KernelCauseDrop \/ KernelCorrelationDrop
        /\ UNCHANGED << processes, decodeLoss >> \/ HandleExec \/ SkipRecord \/ Restart
  <1> SUFFICES ASSUME [Next]_vars
               PROVE  /\ flags' = flags \/ Restart
                      /\ stop' = stop \/ Signal \/ Restart
                      /\ UNCHANGED loss \/ ReadCounter \/ Restart
                      /\ UNCHANGED << ring, drops >> \/ OpenSensor \/ ReadMalformed
                         \/ (\E kind : TakeRecord(kind) /\ drops' = drops)
                         \/ KernelReserve \/ KernelSubmit \/ KernelCauseDrop \/ KernelCorrelationDrop
                      /\ UNCHANGED << processes, decodeLoss >> \/ HandleExec \/ SkipRecord \/ Restart
    OBVIOUS
  <1> USE DEF locals, kernel
  <1>1. CASE ParseFlags \/ OpenSensor \/ CreateEvidence \/ WriteStarted \/ CheckContext
             \/ PollDeadline \/ ReadError \/ ReadMalformed \/ AfterReadError
    BY <1>1 DEF ParseFlags, OpenSensor, CreateEvidence, WriteStarted, CheckContext,
                PollDeadline, ReadError, ReadMalformed, AfterReadError
  <1>2. ASSUME NEW kind, TakeRecord(kind)
        PROVE  flags' = flags /\ stop' = stop /\ UNCHANGED loss /\ drops' = drops
    BY <1>2 DEF TakeRecord, Source!Consume
  <1>3. CASE HandleExec
    BY <1>2, <1>3 DEF HandleExec
  <1>4. CASE HandleOpen \/ HandleSensitive \/ HandleConnect
    <2>1. \E kind : TakeRecord(kind)
      BY <1>4 DEF HandleOpen, HandleSensitive, HandleConnect
    <2>2. UNCHANGED << processes, decodeLoss >> \/ SkipRecord
      BY <1>4 DEF HandleOpen, HandleSensitive, HandleConnect
    <2> QED
      BY <1>2, <2>1, <2>2
  <1>5. CASE FinalizeArtifact \/ ReadCounter \/ WriteFinalized
    BY <1>5 DEF FinalizeArtifact, ReadCounter, WriteFinalized
  <1>6. CASE Environment
    BY <1>6 DEF Environment, Signal, Crash, Restart, KernelReserve, KernelSubmit,
                KernelCauseDrop, KernelCorrelationDrop, Tick, Suspend
  <1>7. CASE UNCHANGED vars
    BY <1>7 DEF vars
  <1> QED
    BY <1>1, <1>3, <1>4, <1>5, <1>6, <1>7 DEF Next, CollectorStep

\* Every step of main ends at another step of main or ends the process.
LEMMA PcType == TypeInv /\ [Next]_vars => pc' \in Running \cup Ended
  <1> SUFFICES ASSUME TypeInv, [Next]_vars PROVE pc' \in Running \cup Ended
    OBVIOUS
  <1>0. pc \in Running \cup Ended
    BY DEF TypeInv, TypeOK
  <1> USE DEF Running, Writing, Monitoring, Ended
  <1>1. ASSUME NEW draft, NEW next, next \in Monitoring \cup Ended, writeEvent(draft, next)
        PROVE  pc' \in Monitoring \cup Ended
    BY <1>1 DEF writeEvent
  <1>2. CASE ParseFlags \/ OpenSensor \/ CreateEvidence \/ CheckContext \/ PollDeadline
             \/ ReadError \/ ReadMalformed \/ AfterReadError \/ ReadCounter
    BY <1>2 DEF ParseFlags, OpenSensor, CreateEvidence, CheckContext, PollDeadline,
                ReadError, ReadMalformed, AfterReadError, ReadCounter
  <1>3. CASE HandleOpen \/ HandleSensitive \/ HandleConnect
    BY <1>1, <1>3 DEF HandleOpen, HandleSensitive, HandleConnect, SkipRecord
  <1>4. CASE WriteStarted \/ HandleExec \/ FinalizeArtifact \/ WriteFinalized
    BY <1>1, <1>4 DEF WriteStarted, HandleExec, FinalizeArtifact, WriteFinalized
  <1>5. CASE Environment
    BY <1>5, <1>0 DEF Environment, Signal, Crash, Restart, KernelReserve, KernelSubmit,
                      KernelCauseDrop, KernelCorrelationDrop, Tick, Suspend
  <1>6. CASE UNCHANGED vars
    BY <1>6, <1>0 DEF vars
  <1> QED
    BY <1>2, <1>3, <1>4, <1>5, <1>6 DEF Next, CollectorStep

\* The file's flags stay Boolean and the chain counts in the naturals.
LEMMA FileTypes ==
    TypeInv /\ [Next]_vars => exists' \in BOOLEAN /\ torn' \in BOOLEAN /\ chain'.sequence \in Nat
  <1> SUFFICES ASSUME TypeInv, [Next]_vars
               PROVE  exists' \in BOOLEAN /\ torn' \in BOOLEAN /\ chain'.sequence \in Nat
    OBVIOUS
  <1>0. exists \in BOOLEAN /\ torn \in BOOLEAN /\ chain.sequence \in Nat
    BY DEF TypeInv, TypeOK
  <1>1. CASE UNCHANGED << chain, file >>
    BY <1>0, <1>1 DEF file
  <1>2. CASE ParseFlags \/ CreateEvidence
    <2>1. exists' \in BOOLEAN /\ torn' \in BOOLEAN
      BY <1>0, <1>2, Zenon DEF ParseFlags, CreateEvidence, file
    <2>2. chain' = chain \/ chain' = NewEventChain
      BY <1>2 DEF ParseFlags, CreateEvidence
    <2> QED
      BY <2>1, <2>2, <1>0 DEF NewEventChain
  <1>3. ASSUME NEW draft, NEW next, writeEvent(draft, next)
        PROVE  exists' \in BOOLEAN /\ torn' \in BOOLEAN /\ chain'.sequence \in Nat
    <2>1. exists' \in BOOLEAN /\ torn' \in BOOLEAN
      BY <1>0, <1>3, Zenon DEF writeEvent
    <2>2. Seal(draft).sequence = chain.sequence + 1
      BY SealedEvent DEF Seal
    <2>3. chain' = ChainAppend(chain, Seal(draft))
      BY <1>3 DEF writeEvent
    <2> HIDE DEF Seal
    <2> QED
      BY <2>1, <2>2, <2>3, <1>0 DEF ChainAppend
  <1> QED
    BY <1>1, <1>2, <1>3, WritingSteps

\* Programs reserve a slot only while the ring has room, and Read frees slots.
LEMMA RingType ==
    TypeInv /\ [Next]_vars => IsSequence(ring)' /\ Len(ring') <= RingSlots /\ DOMAIN drops' = Source!Counters
  <1> SUFFICES ASSUME TypeInv, [Next]_vars
               PROVE  IsSequence(ring') /\ Len(ring') <= RingSlots /\ DOMAIN drops' = Source!Counters
    BY DEF IsSequence
  <1>0. IsSequence(ring) /\ Len(ring) \in Nat /\ Len(ring) <= RingSlots /\ DOMAIN drops = Source!Counters
    BY ZeroLength DEF TypeInv, TypeOK
  <1>1. CASE OpenSensor
    <2>1. ring' = << >> /\ DOMAIN drops' = Source!Counters
      BY <1>1 DEF OpenSensor, Source!Reset
    <2>2. << >> \in Seq({}) /\ Len(<< >>) = 0
      OBVIOUS
    <2> QED
      BY <2>1, <2>2, BoundsAssumption DEF IsSequence
  <1>2. CASE ReadMalformed \/ \E kind : TakeRecord(kind) /\ drops' = drops
    <2>1. ring # << >> /\ ring' = Tail(ring) /\ drops' = drops
      BY <1>2 DEF ReadMalformed, TakeRecord, Source!Consume, Source!HeadReady
    <2>2. IsSequence(ring') /\ Len(ring') <= Len(ring) /\ Len(ring') \in Nat
      BY <2>1, <1>0, RingFacts, ZeroLength
    <2> QED
      BY <2>1, <2>2, <1>0, BoundsAssumption
  <1>3. CASE KernelReserve
    <2>1. CASE ring' = ring /\ drops' = [ drops EXCEPT !["ringbuf_drops"] = @ + 1 ]
      BY <2>1, <1>0
    <2>2. CASE /\ Len(ring) < RingSlots /\ drops' = drops
               /\ \E pid : ring' = Append(ring, Source!Busy(pid))
      BY <2>2, <1>0, AppendFacts, BoundsAssumption
    <2> QED
      BY <1>3, <2>1, <2>2 DEF KernelReserve, Source!Reserve, Source!DropFull
  <1>4. CASE KernelSubmit
    <2>1. PICK i \in 1..Len(ring), r \in KernelRecords :
            ring' = [ ring EXCEPT ![i] = [ r EXCEPT !.monotonic_ns = ktime ] ]
      BY <1>4 DEF KernelSubmit, Source!Submit
    <2>2. drops' = drops
      BY <1>4 DEF KernelSubmit, Source!Submit
    <2> QED
      BY <2>1, <2>2, <1>0, RingFacts
  <1>5. CASE KernelCauseDrop \/ KernelCorrelationDrop
    BY <1>5, <1>0 DEF KernelCauseDrop, KernelCorrelationDrop, Source!CauseDrop, Source!CorrelationDrop
  <1> QED
    BY <1>0, <1>1, <1>2, <1>3, <1>4, <1>5, Frames

\* Loss() never holds more values than there are maps.
LEMMA SnapshotType ==
    TypeInv /\ [Next]_vars =>
        /\ IsSequence(snapshot)' /\ Len(snapshot') <= Len(LossMaps)
        /\ pc' \in Running \ { "final" } => Len(snapshot') < Len(LossMaps)
        /\ counterReadError' \in BOOLEAN
  <1> SUFFICES ASSUME TypeInv, [Next]_vars
               PROVE  /\ IsSequence(snapshot') /\ Len(snapshot') <= Len(LossMaps)
                      /\ pc' \in Running \ { "final" } => Len(snapshot') < Len(LossMaps)
                      /\ counterReadError' \in BOOLEAN
    BY DEF IsSequence
  <1>0. /\ IsSequence(snapshot) /\ Len(snapshot) \in Nat /\ Len(snapshot) <= Len(LossMaps)
        /\ pc \in Running \ { "final" } => Len(snapshot) < Len(LossMaps)
        /\ counterReadError \in BOOLEAN
    BY ZeroLength DEF TypeInv, TypeOK
  <1>1. CASE ReadCounter
    <2>1. pc = "loss" /\ pc' = IF Len(snapshot') = Len(LossMaps) THEN "final" ELSE "loss"
      BY <1>1 DEF ReadCounter
    <2>2. counterReadError' \in BOOLEAN
      BY <1>1, Zenon DEF ReadCounter
    <2>3. CASE snapshot' = NoLoss
      BY <2>1, <2>2, <2>3, NoLossFacts, FiveLossMaps
    <2>4. CASE \E n : snapshot' = Append(snapshot, n)
      <3>1. IsSequence(snapshot') /\ Len(snapshot') = Len(snapshot) + 1
        BY <2>4, <1>0, AppendFacts
      <3>2. Len(snapshot) < Len(LossMaps)
        BY <2>1, <1>0 DEF Running, Writing, Monitoring
      <3> QED
        BY <2>1, <2>2, <3>1, <3>2, <1>0, FiveLossMaps
    <2> QED
      BY <1>1, <2>3, <2>4 DEF ReadCounter
  <1>2. CASE Restart
    <2>1. snapshot' = << >>
      BY <1>2 DEF Restart
    <2>2. << >> \in Seq({}) /\ Len(<< >>) = 0
      OBVIOUS
    <2>3. counterReadError' \in BOOLEAN
      BY <1>2, Zenon DEF Restart
    <2> QED
      BY <2>1, <2>2, <2>3, FiveLossMaps DEF IsSequence
  <1>3. CASE UNCHANGED loss /\ ~ReadCounter /\ ~Restart
    <2>1. pc' \in Running \ { "final" } => pc \in Running \ { "final" }
      <3> USE DEF Running, Writing, Monitoring, Ended
      <3>1. CASE CollectorStep
        BY <3>1, <1>3 DEF CollectorStep, ParseFlags, OpenSensor, CreateEvidence, WriteStarted,
              CheckContext, PollDeadline, ReadError, ReadMalformed, AfterReadError, HandleExec, HandleOpen,
              HandleSensitive, HandleConnect, FinalizeArtifact, TakeRecord, WriteFinalized, writeEvent
      <3>2. CASE Environment
        BY <3>2, <1>3 DEF Environment, Signal, Crash, KernelReserve, KernelSubmit,
                          KernelCauseDrop, KernelCorrelationDrop, Tick, Suspend
      <3> QED
        BY <3>1, <3>2 DEF Next, vars
    <2>2. snapshot' = snapshot /\ counterReadError' = counterReadError
      BY <1>3 DEF loss
    <2> QED
      BY <2>1, <2>2, <1>0
  <1> QED
    BY <1>1, <1>2, <1>3, Frames

\* The process map stays within its limit and the loss counter within a uint64.
LEMMA ProcessesType ==
    TypeInv /\ [Next]_vars =>
        /\ IsFiniteSet(DOMAIN processes') /\ Cardinality(DOMAIN processes') <= maxTrackedProcesses
        /\ decodeLoss' \in 0..(Wrap - 1)
  <1> SUFFICES ASSUME TypeInv, [Next]_vars
               PROVE  /\ IsFiniteSet(DOMAIN processes')
                      /\ Cardinality(DOMAIN processes') <= maxTrackedProcesses
                      /\ decodeLoss' \in 0..(Wrap - 1)
    OBVIOUS
  <1>0. /\ IsFiniteSet(DOMAIN processes) /\ Cardinality(DOMAIN processes) \in Nat
        /\ Cardinality(DOMAIN processes) <= maxTrackedProcesses
        /\ decodeLoss \in 0..(Wrap - 1)
    BY FS_CardinalityType DEF TypeInv, TypeOK
  <1>1. CASE HandleExec
    <2> DEFINE key == Head1.process_key
    <2>1. CASE ~Tracked /\ processes' = processes /\ CountDecodeLoss
      BY <2>1, <1>0, DecodeLossFacts DEF CountDecodeLoss
    <2>2. CASE Tracked /\ DOMAIN processes' = DOMAIN processes \cup { key } /\ decodeLoss' = decodeLoss
      <3>1. IsFiniteSet(DOMAIN processes')
            /\ Cardinality(DOMAIN processes') =
                  IF key \in DOMAIN processes THEN Cardinality(DOMAIN processes)
                  ELSE Cardinality(DOMAIN processes) + 1
        BY <2>2, <1>0, FS_AddElement
      <3>2. key \in DOMAIN processes \/ Cardinality(DOMAIN processes) < maxTrackedProcesses
        BY <2>2 DEF Tracked, Attributable
      <3> HIDE DEF key
      <3> QED
        BY <2>2, <3>1, <3>2, <1>0, BoundsAssumption
    <2> QED
      BY <1>1, <2>1, <2>2 DEF HandleExec
  <1>2. CASE SkipRecord
    BY <1>2, <1>0, DecodeLossFacts DEF SkipRecord, CountDecodeLoss
  <1>3. CASE Restart
    <2>1. processes' = NoResource /\ decodeLoss' = 0
      BY <1>3 DEF Restart
    <2>2. DOMAIN processes' = {} /\ IsFiniteSet({}) /\ Cardinality({}) = 0
      BY <2>1, FS_EmptySet DEF NoResource
    <2> QED
      BY <2>1, <2>2, BoundsAssumption, WrapAssumption
  <1>4. CASE UNCHANGED << processes, decodeLoss >>
    BY <1>4, <1>0
  <1> QED
    BY <1>1, <1>2, <1>3, <1>4, Frames

\* The typing lemmas together: every step keeps the type invariant.
LEMMA TypeInvNext == TypeInv /\ [Next]_vars => TypeInv'
  <1> SUFFICES ASSUME TypeInv, [Next]_vars PROVE TypeInv'
    OBVIOUS
  <1>1. flags' \in FlagSets
    BY Frames DEF Restart, TypeInv, TypeOK
  <1>2. stop' \in BOOLEAN
    BY Frames, Zenon DEF Restart, Signal, TypeInv, TypeOK
  <1> QED
    BY <1>1, <1>2, PcType, FileTypes, RingType, SnapshotType, ProcessesType DEF TypeInv, TypeOK

\* Type correctness for every instance: in particular the process map never
\* exceeds maxTrackedProcesses and Loss() never reads past its five maps.
THEOREM CollectorTypes == Spec => []TypeOK
  <1>1. TypeInv => TypeOK
    BY DEF TypeInv
  <1> QED
    BY <1>1, TypeInvInit, TypeInvNext, PTL DEF Spec
=============================================================================
