--------------------------- MODULE FirewallProofs ---------------------------
(***************************************************************************)
(* Proofs about the rpf command: what a command holds at each of its       *)
(* calls, what an ALLOW means whatever happens to the files around it, and *)
(* what assemblers that share a directory leave behind.                    *)
(***************************************************************************)
EXTENDS Firewall, VerifierProofs, FiniteSetTheorems, SequenceTheorems

-----------------------------------------------------------------------------
(* Types                                                                   *)

Version == UNION { Contents(file) : file \in Files }

Handle == [ part : PartNames, inode : Inodes ]

Decisions == { "ALLOW", "REVIEW", "REJECT", "ERROR" }

Process ==
    [ at : Places, got : Seq(Version), todo : SUBSET PartNames, fd : {NoFile} \cup Handle,
      loaded : Seq(InputVersions), outcome : {NoFile} \cup Decisions ]

TypeInv ==
    /\ scenario \in DOMAIN Scenarios
    /\ disk \in [ Files -> Version ] /\ \A file \in Files : disk[file] \in Contents(file)
    /\ owner \in [ Files -> Others \cup {NoFile} ]
    /\ proc \in [ Processes -> Process ]
    /\ final \in [ PartNames -> Inodes \cup {NoFile} ]
    /\ temp \in [ PartNames -> Inodes \cup {NoFile} ]
    /\ content \in [ Inodes -> InputVersions \cup {Torn} ]
    /\ replaced \in 0..Scenarios[scenario].replacements
    /\ assembled \subseteq InputVersions

\* A name of the directory stands for an inode that was created under it.
NamesInv ==
    /\ \A n \in PartNames : final[n] # NoFile => final[n][2] = n
    /\ \A n \in PartNames : temp[n] # NoFile => temp[n][2] = n

Holding == { "opened", "filled" }
Writing == { "write" } \cup Holding
Judging == { "load", "decide" }
Creating == {"create"} \cup Exclusive

\* What a command has read so far.
ReadStage(p) ==
    /\ Len(proc[p].got) <= Len(ReadOrder(p))
    /\ \A i \in 1..Len(proc[p].got) : proc[p].got[i] \in Contents(ReadOrder(p)[i]) \ {NoFile}
    /\ proc[p].at = "read" => Len(proc[p].got) < Len(ReadOrder(p))
    /\ proc[p].at \in {"assemble"} \cup Writing \cup Judging => proc[p].got \in InputVersions
    /\ proc[p].at \in Creating => proc[p].got \in Made(OutputOf(p))

\* What an assembler still has to write.
WriteStage(p) ==
    /\ proc[p].at \notin Writing => proc[p].todo = {}
    /\ proc[p].at \in Holding => /\ proc[p].fd \in Handle
                                 /\ proc[p].fd.part \in proc[p].todo
                                 /\ proc[p].fd.inode[2] = proc[p].fd.part
    /\ proc[p].at \in Writing => p \in Assemblers
    /\ p \in Assemblers /\ proc[p].at \in Writing \cup {"ok"} => proc[p].got \in assembled

\* What a verifier has loaded, and what it made of it.
JudgeStage(p) ==
    /\ Len(proc[p].loaded) <= 3
    /\ proc[p].at = "read" => proc[p].loaded = << >>
    /\ proc[p].at = "load" => Len(proc[p].loaded) < 3
    /\ proc[p].at = "decide" \/ proc[p].outcome # NoFile => Len(proc[p].loaded) = 3
    /\ \A k \in 1..Len(proc[p].loaded) : proc[p].loaded[k] \in assembled
    /\ proc[p].outcome # NoFile =>
          /\ proc[p].at = "ok"
          /\ proc[p].got \in InputVersions
          /\ proc[p].outcome =
                Verify(InputsOf(proc[p].got), LoadedBundle(proc[p].loaded)).decision

StageInv == \A p \in Processes : ReadStage(p) /\ WriteStage(p) /\ JudgeStage(p)

\* Documents of the directory are those of an assembly.
ContentInv == \A i \in Inodes : content[i] # Torn => content[i] \in assembled

CommandInv == TypeInv /\ NamesInv /\ StageInv /\ ContentInv

-----------------------------------------------------------------------------
(* Lemmas about the operators                                              *)

\* Every file a command reads has contents.
LEMMA ReadOrderFacts ==
    ASSUME NEW p \in Processes
    PROVE  /\ ReadOrder(p) \in Seq(Files)
           /\ Len(ReadOrder(p)) \in Nat /\ Len(ReadOrder(p)) > 0
           /\ CommandOf(p) \in { "assemble", "verify-fixture" } =>
                 ReadOrder(p) = << "artifact", "events", "provenance", "policy" >>
           /\ CommandOf(p) = "create-local-provenance" => ReadOrder(p) = << "artifact", "events" >>
           /\ CommandOf(p) \in { "validate-events", "graph-events" } => ReadOrder(p) = << "events" >>
           /\ CommandOf(p) \in { "assemble", "verify-fixture", "validate-events", "graph-events",
                                 "create-local-provenance" }
           /\ CommandOf(p) = "assemble" <=> p \in Assemblers
  <1>1. /\ CommandOf(p) \in { "assemble", "verify-fixture", "validate-events", "graph-events",
                              "create-local-provenance" }
        /\ CommandOf(p) = "assemble" <=> p \in Assemblers
    BY CommandAssumption DEF CommandOf, Processes, Others
  <1>2. CASE CommandOf(p) \in { "assemble", "verify-fixture" }
    <2>1. ReadOrder(p) = << "artifact", "events", "provenance", "policy" >>
      BY <1>2 DEF ReadOrder
    <2> QED
      BY <1>1, <1>2, <2>1 DEF Files
  <1>3. CASE CommandOf(p) = "create-local-provenance"
    <2>1. ReadOrder(p) = << "artifact", "events" >>
      BY <1>3 DEF ReadOrder
    <2> QED
      BY <1>1, <1>3, <2>1 DEF Files
  <1>4. CASE CommandOf(p) \in { "validate-events", "graph-events" }
    <2>1. ReadOrder(p) = << "events" >>
      BY <1>4 DEF ReadOrder
    <2> QED
      BY <1>1, <1>4, <2>1 DEF Files
  <1> QED
    BY <1>1, <1>2, <1>3, <1>4

\* The place a command comes to once it has read its files.
LEMMA AfterReadFacts ==
    ASSUME NEW p \in Processes
    PROVE  /\ AfterRead(p) \in Places \ (Ended \cup Writing \cup Exclusive \cup { "read", "decide" })
           /\ AfterRead(p) \in { "assemble", "load" } =>
                 CommandOf(p) \in { "assemble", "verify-fixture" }
           /\ AfterRead(p) = "create" =>
                 CommandOf(p) \in { "graph-events", "create-local-provenance" }
  <1>1. CommandOf(p) \in { "assemble", "verify-fixture", "validate-events", "graph-events",
                           "create-local-provenance" }
    BY ReadOrderFacts
  <1>2. /\ CommandOf(p) = "assemble" => AfterRead(p) = "assemble"
        /\ CommandOf(p) = "verify-fixture" => AfterRead(p) = "load"
        /\ CommandOf(p) = "validate-events" => AfterRead(p) = "validate"
        /\ CommandOf(p) = "graph-events" => AfterRead(p) = "create"
        /\ CommandOf(p) = "create-local-provenance" => AfterRead(p) = "create"
    BY DEF AfterRead
  <1> QED
    BY <1>1, <1>2 DEF Places, Ended, Exclusive, Writing, Holding

\* Names of the parts.
LEMMA PartFacts ==
    /\ PartNames = { "graph", "manifest", "trace" }
    /\ Len(Parts) = 3
    /\ \A i \in 1..3 : Parts[i] \in PartNames
  <1>1. Len(Parts) = 3 /\ Parts[1] = "graph" /\ Parts[2] = "manifest" /\ Parts[3] = "trace"
    BY DEF Parts
  <1>2. 1..3 = { 1, 2, 3 }
    OBVIOUS
  <1> QED
    BY <1>1, <1>2 DEF PartNames

\* Verify gives one of four decisions.
LEMMA VerifyDecides ==
    ASSUME NEW inputs, NEW b
    PROVE  Verify(inputs, b).decision \in Decisions
  <1>1. \A reasons : DecisionOf(reasons) \in Decisions
    BY DEF DecisionOf, Decisions
  <1> DEFINE
        substituted == b.manifest.artifact.sha256 # Digest(inputs.artifact)
        state   == ManifestCompleteness(b.manifest)
        reasons == UNION { integrityReasons(b, Assemble(inputs)),
                           identityReasons(inputs.provenance.identity, b.manifest, inputs.policy),
                           evidenceReasons(b.manifest, inputs.policy),
                           behaviorReasons(inputs.events.lines, inputs.policy) }
  <1>2. Verify(inputs, b) =
          CASE ~Decoded(inputs) -> VerifyError
            [] Decoded(inputs) /\ substituted ->
                   Outcome("REJECT", state, { Reason("RPF-ARTIFACT-001", "REJECT", 0) })
            [] Decoded(inputs) /\ ~substituted /\ ~AssembleAccepts(inputs) -> VerifyError
            [] OTHER -> Outcome(DecisionOf(reasons), state, reasons)
    BY DEF Verify
  <1> HIDE DEF reasons, state, substituted
  <1>3. \/ Verify(inputs, b).decision \in { "ERROR", "REJECT" }
        \/ Verify(inputs, b).decision = DecisionOf(reasons)
    BY <1>2 DEF VerifyError, Outcome
  <1> QED
    BY <1>1, <1>3 DEF Decisions

\* Four versions of the right kinds, read in order.
LEMMA FourVersions ==
    ASSUME NEW got \in Seq(Version), Len(got) = 4,
           NEW order, order = << "artifact", "events", "provenance", "policy" >>,
           \A i \in 1..4 : got[i] \in Contents(order[i]) \ {NoFile}
    PROVE  got \in InputVersions
  <1>1. got = << got[1], got[2], got[3], got[4] >>
    OBVIOUS
  <1>2. /\ got[1] \in DOMAIN Artifacts
        /\ got[2] \in DOMAIN EventDocs
        /\ got[3] \in DOMAIN Provenances \cup Made("provenance") \cup {Torn}
        /\ got[4] \in DOMAIN Policies
    <2>1. got[1] \in Contents("artifact") /\ got[1] # NoFile
      OBVIOUS
    <2>2. got[2] \in Contents("events") /\ got[2] # NoFile
      OBVIOUS
    <2>3. got[3] \in Contents("provenance") /\ got[3] # NoFile
      OBVIOUS
    <2>4. got[4] \in Contents("policy") /\ got[4] # NoFile
      OBVIOUS
    <2> QED
      BY <2>1, <2>2, <2>3, <2>4 DEF Contents
  <1> QED
    BY <1>1, <1>2 DEF InputVersions

\* The versions behind a created file.
LEMMA MadeVersions ==
    ASSUME NEW p \in Processes, NEW got \in Seq(Version),
           CommandOf(p) \in { "graph-events", "create-local-provenance" },
           Len(got) = Len(ReadOrder(p)),
           \A i \in 1..Len(got) : got[i] \in Contents(ReadOrder(p)[i]) \ {NoFile}
    PROVE  got \in Made(OutputOf(p))
  <1>1. CASE CommandOf(p) = "graph-events"
    <2>1. ReadOrder(p) = << "events" >> /\ OutputOf(p) = "graph"
      BY <1>1, ReadOrderFacts DEF OutputOf
    <2>2. Len(got) = 1
      BY <2>1
    <2>3. got[1] \in Contents("events") \ {NoFile}
      BY <2>1, <2>2
    <2>4. got = << got[1] >>
      BY <2>2
    <2>5. got[1] \in DOMAIN EventDocs
      BY <2>3 DEF Contents
    <2> QED
      BY <2>1, <2>4, <2>5 DEF Made
  <1>2. CASE CommandOf(p) = "create-local-provenance"
    <2>1. ReadOrder(p) = << "artifact", "events" >> /\ OutputOf(p) = "provenance"
      BY <1>2, ReadOrderFacts DEF OutputOf
    <2>2. Len(got) = 2
      BY <2>1
    <2>3. got[1] \in Contents("artifact") \ {NoFile} /\ got[2] \in Contents("events") \ {NoFile}
      BY <2>1, <2>2
    <2>4. got = << got[1], got[2] >>
      BY <2>2
    <2>5. got[1] \in DOMAIN Artifacts /\ got[2] \in DOMAIN EventDocs
      BY <2>3 DEF Contents
    <2> QED
      BY <2>1, <2>4, <2>5 DEF Made
  <1> QED
    BY <1>1, <1>2

-----------------------------------------------------------------------------
(* One process moves                                                       *)

\* p takes a step to the state r, and the others stay where they are.
Moves(p, r) ==
    /\ r \in Process
    /\ proc' = [ proc EXCEPT ![p] = r ]

LEMMA MoveFacts ==
    ASSUME NEW p \in Processes, NEW r, Moves(p, r), proc \in [ Processes -> Process ]
    PROVE  /\ proc' \in [ Processes -> Process ]
           /\ proc'[p] = r
           /\ \A q \in Processes \ {p} : proc'[q] = proc[q]
  BY DEF Moves

\* A process that did not move keeps its stage: assemblies are never forgotten.
LEMMA StageFrame ==
    ASSUME NEW q \in Processes, ReadStage(q), WriteStage(q), JudgeStage(q),
           proc'[q] = proc[q], assembled \subseteq assembled'
    PROVE  (ReadStage(q) /\ WriteStage(q) /\ JudgeStage(q))'
  <1>1. ReadStage(q)'
    BY DEF ReadStage
  <1>2. WriteStage(q)'
    BY DEF WriteStage
  <1>3. JudgeStage(q)'
    BY DEF JudgeStage
  <1> QED
    BY <1>1, <1>2, <1>3

LEMMA StageStep ==
    ASSUME StageInv, TypeInv, NEW p \in Processes, NEW r, Moves(p, r),
           assembled \subseteq assembled',
           (ReadStage(p) /\ WriteStage(p) /\ JudgeStage(p))'
    PROVE  StageInv'
  <1>1. \A q \in Processes \ {p} : proc'[q] = proc[q]
    BY MoveFacts DEF TypeInv
  <1> QED
    BY <1>1, StageFrame DEF StageInv

\* A failed command holds nothing.
LEMMA FailFacts ==
    ASSUME TypeInv, NEW p \in Processes, Fail(p)
    PROVE  /\ Moves(p, Fresh("failed"))
           /\ proc'[p] = Fresh("failed")
           /\ (ReadStage(p) /\ WriteStage(p) /\ JudgeStage(p))'
  <1>1. Fresh("failed") \in Process
    BY DEF Fresh, Process, Places, Ended
  <1>2. Moves(p, Fresh("failed"))
    BY <1>1 DEF Moves, Fail
  <1>3. proc'[p] = Fresh("failed")
    BY <1>2, MoveFacts DEF TypeInv
  <1>4. /\ proc'[p].at = "failed" /\ proc'[p].got = << >> /\ proc'[p].todo = {}
        /\ proc'[p].loaded = << >> /\ proc'[p].outcome = NoFile
    BY <1>3 DEF Fresh
  <1>5. ReadStage(p)'
    <2>1. Len(ReadOrder(p)) \in Nat
      BY ReadOrderFacts
    <2> QED
      BY <1>4, <2>1 DEF ReadStage, Writing, Holding, Judging, Creating, Exclusive
  <1>6. WriteStage(p)'
    BY <1>4 DEF WriteStage, Writing, Holding
  <1>7. JudgeStage(p)'
    BY <1>4 DEF JudgeStage
  <1> QED
    BY <1>2, <1>3, <1>5, <1>6, <1>7

\* A process of the right type is the record of its members.
LEMMA ProcessFacts ==
    ASSUME TypeInv, NEW p \in Processes
    PROVE  /\ proc[p] \in Process
           /\ proc[p].at \in Places
           /\ proc[p].got \in Seq(Version)
           /\ proc[p].todo \subseteq PartNames
           /\ proc[p].loaded \in Seq(InputVersions)
           /\ Len(proc[p].got) \in Nat /\ Len(proc[p].loaded) \in Nat
           /\ proc[p].outcome \in {NoFile} \cup Decisions
  <1>1. proc[p] \in Process
    BY DEF TypeInv
  <1> QED
    BY <1>1 DEF Process

-----------------------------------------------------------------------------
(* CommandInv                                                              *)

LEMMA CommandInit == Init => CommandInv
  <1> SUFFICES ASSUME Init PROVE CommandInv
    OBVIOUS
  <1>1. scenario \in DOMAIN Scenarios /\ disk \in Scenarios[scenario].disks
    BY DEF Init
  <1>2. /\ disk = [ file \in Files |-> disk[file] ]
        /\ \A file \in Files : disk[file] \in Contents(file)
    BY <1>1, ScenariosAssumption
  <1>3. disk \in [ Files -> Version ]
    BY <1>2 DEF Version
  <1>4. Fresh("read") \in Process /\ Fresh("idle") \in Process
    BY DEF Fresh, Process, Places, Ended
  <1>5. proc \in [ Processes -> { Fresh("read"), Fresh("idle") } ]
    BY DEF Init
  <1>6. proc \in [ Processes -> Process ]
    BY <1>4, <1>5
  <1>7. replaced \in 0..Scenarios[scenario].replacements
    BY <1>1, ScenariosAssumption DEF Init
  <1>8. TypeInv
    BY <1>1, <1>2, <1>3, <1>6, <1>7 DEF TypeInv, Init
  <1>9. NamesInv
    BY DEF NamesInv, Init
  <1>10. ASSUME NEW p \in Processes PROVE ReadStage(p) /\ WriteStage(p) /\ JudgeStage(p)
    <2>1. /\ proc[p].at \in { "read", "idle" } /\ proc[p].got = << >> /\ proc[p].todo = {}
          /\ proc[p].loaded = << >> /\ proc[p].outcome = NoFile
      BY <1>5 DEF Fresh
    <2>2. Len(ReadOrder(p)) \in Nat /\ Len(ReadOrder(p)) > 0
      BY ReadOrderFacts
    <2>3. ReadStage(p)
      BY <2>1, <2>2 DEF ReadStage, Writing, Holding, Judging, Creating, Exclusive
    <2>4. WriteStage(p)
      BY <2>1 DEF WriteStage, Writing, Holding
    <2>5. JudgeStage(p)
      BY <2>1 DEF JudgeStage
    <2> QED
      BY <2>3, <2>4, <2>5
  <1>11. ContentInv
    BY DEF ContentInv, Init
  <1> QED
    BY <1>8, <1>9, <1>10, <1>11 DEF CommandInv, StageInv

\* A step of one process that leaves all files alone.
LEMMA ProcessMoves ==
    ASSUME CommandInv, NEW p \in Processes, NEW r, Moves(p, r),
           (ReadStage(p) /\ WriteStage(p) /\ JudgeStage(p))',
           UNCHANGED << scenario, disk, owner, final, temp, content, replaced, assembled >>
    PROVE  CommandInv'
  <1>1. TypeInv /\ NamesInv /\ StageInv /\ ContentInv
    BY DEF CommandInv
  <1>2. TypeInv'
    <2>1. proc' \in [ Processes -> Process ]
      BY <1>1, MoveFacts DEF TypeInv
    <2> QED
      BY <1>1, <2>1 DEF TypeInv
  <1>3. StageInv'
    BY <1>1, StageStep
  <1>4. NamesInv' /\ ContentInv'
    BY <1>1 DEF NamesInv, ContentInv
  <1> QED
    BY <1>2, <1>3, <1>4 DEF CommandInv

\* A command that fails changes nothing else.
LEMMA CommandFails ==
    ASSUME CommandInv, NEW p \in Processes, Fail(p),
           UNCHANGED << scenario, disk, owner, final, temp, content, replaced, assembled >>
    PROVE  CommandInv'
  BY FailFacts, ProcessMoves DEF CommandInv

\* A command that goes on to another call.
LEMMA AtFacts ==
    ASSUME TypeInv, NEW p \in Processes, NEW place \in Places, At(p, place)
    PROVE  /\ Moves(p, [ proc[p] EXCEPT !.at = place ])
           /\ proc'[p].at = place
           /\ proc'[p].got = proc[p].got /\ proc'[p].todo = proc[p].todo
           /\ proc'[p].fd = proc[p].fd /\ proc'[p].loaded = proc[p].loaded
           /\ proc'[p].outcome = proc[p].outcome
  <1> DEFINE r == [ proc[p] EXCEPT !.at = place ]
  <1>1. proc[p] \in Process
    BY ProcessFacts
  <1>2. r \in Process
    BY <1>1 DEF Process
  <1>3. Moves(p, r)
    <2>1. proc' = [ proc EXCEPT ![p] = r ]
      BY DEF At, TypeInv
    <2> QED
      BY <1>2, <2>1 DEF Moves
  <1>4. proc'[p] = r
    BY <1>3, MoveFacts DEF TypeInv
  <1> QED
    BY <1>1, <1>3, <1>4 DEF Process

LEMMA CommandRead ==
    ASSUME CommandInv, NEW p \in Processes, ReadInput(p)
    PROVE  CommandInv'
  <1> DEFINE count == Len(proc[p].got) + 1
             version == disk[ReadOrder(p)[count]]
             place == IF count = Len(ReadOrder(p)) THEN AfterRead(p) ELSE "read"
             r == [ proc[p] EXCEPT !.got = Append(@, version), !.at = place ]
  <1>1. /\ TypeInv /\ NamesInv /\ StageInv /\ ContentInv
        /\ UNCHANGED << scenario, disk, owner, final, temp, content, replaced, assembled >>
        /\ proc[p].at = "read"
    BY DEF CommandInv, ReadInput, directory
  <1>2. CASE Fail(p)
    BY <1>1, <1>2, CommandFails
  <1>3. CASE /\ version # NoFile
             /\ proc' = [ proc EXCEPT ![p].got = Append(@, version), ![p].at = place ]
    <2>1. /\ proc[p] \in Process /\ proc[p].got \in Seq(Version)
          /\ Len(proc[p].got) \in Nat
      BY <1>1, ProcessFacts
    <2>2. /\ ReadStage(p) /\ WriteStage(p) /\ JudgeStage(p)
      BY <1>1 DEF StageInv
    <2>3. /\ ReadOrder(p) \in Seq(Files) /\ Len(ReadOrder(p)) \in Nat
          /\ count \in 1..Len(ReadOrder(p))
      BY <1>1, <2>1, <2>2, ReadOrderFacts DEF ReadStage
    <2>4. ReadOrder(p)[count] \in Files
      BY <2>3
    <2>5. version \in Contents(ReadOrder(p)[count]) \ {NoFile} /\ version \in Version
      BY <1>1, <1>3, <2>4 DEF TypeInv
    <2>6. place \in Places
      BY AfterReadFacts DEF Places, Ended
    <2>7. /\ Append(proc[p].got, version) \in Seq(Version)
          /\ Len(Append(proc[p].got, version)) = count
          /\ \A i \in 1..Len(proc[p].got) : Append(proc[p].got, version)[i] = proc[p].got[i]
          /\ Append(proc[p].got, version)[count] = version
      BY <2>1, <2>5
    <2> HIDE DEF version, count, place
    <2>8. r \in Process
      BY <2>1, <2>6, <2>7 DEF Process
    <2>9. Moves(p, r)
      <3>1. proc' = [ proc EXCEPT ![p] = r ]
        BY <1>1, <1>3 DEF TypeInv
      <3> QED
        BY <2>8, <3>1 DEF Moves
    <2>10. proc'[p] = r
      BY <1>1, <2>9, MoveFacts DEF TypeInv
    <2>11. /\ proc'[p].at = place /\ proc'[p].got = Append(proc[p].got, version)
           /\ proc'[p].todo = proc[p].todo /\ proc'[p].loaded = proc[p].loaded
           /\ proc'[p].outcome = proc[p].outcome
      BY <2>1, <2>10 DEF Process
    <2>12. /\ Len(proc'[p].got) = count
           /\ \A i \in 1..count : proc'[p].got[i] \in Contents(ReadOrder(p)[i]) \ {NoFile}
      <3>1. Len(proc'[p].got) = count
        BY <2>7, <2>11
      <3>2. ASSUME NEW i \in 1..count
            PROVE  proc'[p].got[i] \in Contents(ReadOrder(p)[i]) \ {NoFile}
        <4>1. CASE i = count
          BY <2>5, <2>7, <2>11, <4>1
        <4>2. CASE i # count
          <5>1. i \in 1..Len(proc[p].got)
            BY <2>1, <4>2 DEF count
          <5> QED
            BY <2>2, <2>7, <2>11, <5>1 DEF ReadStage
        <4> QED
          BY <4>1, <4>2
      <3> QED
        BY <3>1, <3>2
    <2>13. place # "read" => count = Len(ReadOrder(p)) /\ place = AfterRead(p)
      BY DEF place
    <2>14. ReadStage(p)'
      <3>1. Len(proc'[p].got) <= Len(ReadOrder(p))
        BY <2>3, <2>12
      <3>2. proc'[p].at = "read" => Len(proc'[p].got) < Len(ReadOrder(p))
        <4>1. count = Len(ReadOrder(p)) => place # "read"
          BY AfterReadFacts DEF place
        <4> QED
          BY <2>3, <2>11, <2>12, <4>1
      <3>3. ASSUME proc'[p].at \in {"assemble"} \cup Writing \cup Judging
            PROVE  proc'[p].got \in InputVersions
        <4>1. place \in { "assemble", "load" } /\ count = Len(ReadOrder(p)) /\ place = AfterRead(p)
          BY <2>11, <2>13, <3>3, AfterReadFacts DEF Writing, Holding, Judging
        <4>2. ReadOrder(p) = << "artifact", "events", "provenance", "policy" >>
          BY <4>1, AfterReadFacts, ReadOrderFacts
        <4>3. count = 4
          BY <4>1, <4>2
        <4>4. proc'[p].got \in Seq(Version) /\ Len(proc'[p].got) = 4
          BY <2>7, <2>11, <4>3
        <4> QED
          BY <2>12, <4>2, <4>3, <4>4, FourVersions
      <3>4. ASSUME proc'[p].at \in Creating
            PROVE  proc'[p].got \in Made(OutputOf(p))
        <4>1. place = "create" /\ count = Len(ReadOrder(p)) /\ place = AfterRead(p)
          BY <2>11, <2>13, <3>4, AfterReadFacts DEF Creating, Exclusive
        <4>2. CommandOf(p) \in { "graph-events", "create-local-provenance" }
          BY <4>1, AfterReadFacts
        <4>3. proc'[p].got \in Seq(Version) /\ Len(proc'[p].got) = Len(ReadOrder(p))
          BY <2>7, <2>11, <4>1
        <4> QED
          BY <2>12, <4>2, <4>3, MadeVersions
      <3> QED
        BY <2>12, <3>1, <3>2, <3>3, <3>4 DEF ReadStage
    <2>15. proc'[p].at \notin Ended \cup Writing \cup {"decide"}
      BY <2>11, AfterReadFacts DEF place, Ended, Writing, Holding
    <2>16. WriteStage(p)'
      BY <1>1, <2>2, <2>11, <2>15 DEF WriteStage, Writing, Holding, Ended
    <2>17. JudgeStage(p)'
      <3>1. proc[p].outcome = NoFile /\ proc[p].loaded = << >>
        BY <1>1, <2>2 DEF JudgeStage
      <3> QED
        BY <1>1, <2>2, <2>11, <2>15, <3>1 DEF JudgeStage
    <2> QED
      BY <1>1, <2>9, <2>14, <2>16, <2>17, ProcessMoves
  <1> QED
    BY <1>2, <1>3 DEF ReadInput

LEMMA CommandAssemble ==
    ASSUME CommandInv, NEW a \in Assemblers, AssembleCommand(a)
    PROVE  CommandInv'
  <1> DEFINE got == proc[a].got
             r == [ proc[a] EXCEPT !.at = "write", !.todo = PartNames ]
  <1>1. /\ TypeInv /\ NamesInv /\ StageInv /\ ContentInv /\ a \in Processes
        /\ UNCHANGED << scenario, disk, owner, final, temp, content, replaced >>
        /\ proc[a].at = "assemble"
    BY DEF CommandInv, AssembleCommand, directory, Processes
  <1>2. CASE Fail(a) /\ UNCHANGED assembled
    BY <1>1, <1>2, CommandFails
  <1>3. CASE /\ proc' = [ proc EXCEPT ![a].at = "write", ![a].todo = PartNames ]
             /\ assembled' = assembled \cup {got}
    <2>1. proc[a] \in Process /\ ReadStage(a) /\ WriteStage(a) /\ JudgeStage(a)
      BY <1>1, ProcessFacts DEF StageInv
    <2>2. got \in InputVersions
      BY <1>1, <2>1 DEF ReadStage
    <2>3. r \in Process
      BY <2>1 DEF Process, Places
    <2>4. Moves(a, r)
      <3>1. proc' = [ proc EXCEPT ![a] = r ]
        BY <1>1, <1>3 DEF TypeInv
      <3> QED
        BY <2>3, <3>1 DEF Moves
    <2>5. proc'[a] = r
      BY <1>1, <2>4, MoveFacts DEF TypeInv
    <2>6. /\ proc'[a].at = "write" /\ proc'[a].got = got /\ proc'[a].todo = PartNames
          /\ proc'[a].loaded = proc[a].loaded /\ proc'[a].outcome = proc[a].outcome
      BY <2>1, <2>5 DEF Process
    <2>7. assembled \subseteq assembled' /\ got \in assembled'
      BY <1>3
    <2>8. ReadStage(a)'
      BY <1>1, <2>1, <2>2, <2>6 DEF ReadStage, Creating, Exclusive
    <2>9. WriteStage(a)'
      BY <2>6, <2>7 DEF WriteStage, Writing, Holding
    <2>10. JudgeStage(a)'
      BY <1>1, <2>1, <2>6, <2>7 DEF JudgeStage
    <2>11. StageInv'
      BY <1>1, <2>4, <2>7, <2>8, <2>9, <2>10, StageStep
    <2>12. TypeInv'
      <3>1. proc' \in [ Processes -> Process ] /\ assembled' \subseteq InputVersions
        BY <1>1, <1>3, <2>2, <2>4, MoveFacts DEF TypeInv
      <3> QED
        BY <1>1, <3>1 DEF TypeInv
    <2>13. NamesInv' /\ ContentInv'
      BY <1>1, <2>7 DEF NamesInv, ContentInv
    <2> QED
      BY <2>11, <2>12, <2>13 DEF CommandInv
  <1> QED
    BY <1>2, <1>3 DEF AssembleCommand

\* What an assembler opens: a new inode, or the one another assembler created.
LEMMA OpenFacts ==
    ASSUME CommandInv, NEW a \in Assemblers, OpenTemp(a)
    PROVE  \E part \in proc[a].todo, inode \in Inodes :
              /\ part \in PartNames
              /\ inode = IF temp[part] = NoFile THEN << a, part >> ELSE temp[part]
              /\ inode[2] = part
              /\ temp' = [ temp EXCEPT ![part] = inode ]
              /\ content' = [ content EXCEPT ![inode] = Torn ]
              /\ Moves(a, [ proc[a] EXCEPT !.at = "opened",
                                           !.fd = [ part |-> part, inode |-> inode ] ])
              /\ proc'[a].at = "opened"
              /\ proc'[a].fd = [ part |-> part, inode |-> inode ]
              /\ proc'[a].got = proc[a].got /\ proc'[a].todo = proc[a].todo
              /\ proc'[a].loaded = proc[a].loaded /\ proc'[a].outcome = proc[a].outcome
  <1>1. TypeInv /\ NamesInv /\ a \in Processes
    BY DEF CommandInv, Processes
  <1>2. PICK part \in proc[a].todo :
          LET inode == IF temp[part] = NoFile THEN << a, part >> ELSE temp[part]
          IN  /\ temp' = [ temp EXCEPT ![part] = inode ]
              /\ content' = [ content EXCEPT ![inode] = Torn ]
              /\ Opened(a, part, inode)
    BY DEF OpenTemp
  <1> DEFINE inode == IF temp[part] = NoFile THEN << a, part >> ELSE temp[part]
             r == [ proc[a] EXCEPT !.at = "opened", !.fd = [ part |-> part, inode |-> inode ] ]
  <1>3. proc[a] \in Process /\ part \in PartNames
    BY <1>1, ProcessFacts
  <1>4. inode \in Inodes /\ inode[2] = part
    <2>1. CASE temp[part] = NoFile
      BY <1>3, <2>1 DEF Inodes
    <2>2. CASE temp[part] # NoFile
      BY <1>1, <1>3, <2>2 DEF TypeInv, NamesInv
    <2> QED
      BY <2>1, <2>2
  <1>5. /\ temp' = [ temp EXCEPT ![part] = inode ]
        /\ content' = [ content EXCEPT ![inode] = Torn ]
        /\ Opened(a, part, inode)
    BY <1>2
  <1>6. inode = IF temp[part] = NoFile THEN << a, part >> ELSE temp[part]
    OBVIOUS
  <1> HIDE DEF inode
  <1>7. [ part |-> part, inode |-> inode ] \in Handle
    BY <1>3, <1>4 DEF Handle
  <1>8. r \in Process
    BY <1>3, <1>7 DEF Process, Places
  <1>9. Moves(a, r)
    <2>1. proc' = [ proc EXCEPT ![a] = r ]
      BY <1>1, <1>5 DEF TypeInv, Opened
    <2> QED
      BY <1>8, <2>1 DEF Moves
  <1>10. proc'[a] = r
    BY <1>1, <1>9, MoveFacts DEF TypeInv
  <1>11. /\ proc'[a].at = "opened"
         /\ proc'[a].fd = [ part |-> part, inode |-> inode ]
         /\ proc'[a].got = proc[a].got /\ proc'[a].todo = proc[a].todo
         /\ proc'[a].loaded = proc[a].loaded /\ proc'[a].outcome = proc[a].outcome
    BY <1>3, <1>10 DEF Process
  <1> QED
    BY <1>3, <1>4, <1>5, <1>6, <1>9, <1>11

LEMMA CommandOpen ==
    ASSUME CommandInv, NEW a \in Assemblers, OpenTemp(a)
    PROVE  CommandInv'
  <1>1. /\ TypeInv /\ NamesInv /\ StageInv /\ ContentInv /\ a \in Processes
        /\ UNCHANGED << scenario, disk, owner, final, replaced, assembled >>
        /\ proc[a].at = "write"
    BY DEF CommandInv, OpenTemp, Processes
  <1>2. PICK part \in proc[a].todo, inode \in Inodes :
          /\ part \in PartNames
          /\ inode = IF temp[part] = NoFile THEN << a, part >> ELSE temp[part]
          /\ inode[2] = part
          /\ temp' = [ temp EXCEPT ![part] = inode ]
          /\ content' = [ content EXCEPT ![inode] = Torn ]
          /\ Moves(a, [ proc[a] EXCEPT !.at = "opened",
                                       !.fd = [ part |-> part, inode |-> inode ] ])
          /\ proc'[a].at = "opened"
          /\ proc'[a].fd = [ part |-> part, inode |-> inode ]
          /\ proc'[a].got = proc[a].got /\ proc'[a].todo = proc[a].todo
          /\ proc'[a].loaded = proc[a].loaded /\ proc'[a].outcome = proc[a].outcome
    BY OpenFacts
  <1>3. ReadStage(a) /\ WriteStage(a) /\ JudgeStage(a)
    BY <1>1 DEF StageInv
  <1>4. ReadStage(a)'
    BY <1>1, <1>2, <1>3 DEF ReadStage, Writing, Holding, Creating, Exclusive
  <1>5. WriteStage(a)'
    <2>1. [ part |-> part, inode |-> inode ] \in Handle
      BY <1>2 DEF Handle
    <2>2. proc[a].got \in assembled
      BY <1>1, <1>3 DEF WriteStage, Writing
    <2> QED
      BY <1>1, <1>2, <2>1, <2>2 DEF WriteStage, Writing, Holding
  <1>6. JudgeStage(a)'
    BY <1>1, <1>2, <1>3 DEF JudgeStage
  <1>7. StageInv'
    BY <1>1, <1>2, <1>4, <1>5, <1>6, StageStep
  <1>8. TypeInv'
    <2>1. proc' \in [ Processes -> Process ]
      BY <1>1, <1>2, MoveFacts DEF TypeInv
    <2>2. temp' \in [ PartNames -> Inodes \cup {NoFile} ]
      BY <1>1, <1>2 DEF TypeInv
    <2>3. content' \in [ Inodes -> InputVersions \cup {Torn} ]
      BY <1>1, <1>2 DEF TypeInv
    <2> QED
      BY <1>1, <2>1, <2>2, <2>3 DEF TypeInv
  <1>9. NamesInv'
    BY <1>1, <1>2 DEF NamesInv, TypeInv
  <1>10. ContentInv'
    BY <1>1, <1>2 DEF ContentInv, TypeInv
  <1> QED
    BY <1>7, <1>8, <1>9, <1>10 DEF CommandInv

LEMMA CommandFill ==
    ASSUME CommandInv, NEW a \in Assemblers, FillTemp(a)
    PROVE  CommandInv'
  <1> DEFINE inode == proc[a].fd.inode
             got == proc[a].got
  <1>1. /\ TypeInv /\ NamesInv /\ StageInv /\ ContentInv /\ a \in Processes
        /\ UNCHANGED << scenario, disk, owner, final, temp, replaced, assembled >>
        /\ proc[a].at = "opened"
        /\ At(a, "filled")
    BY DEF CommandInv, FillTemp, Processes
  <1>2. ReadStage(a) /\ WriteStage(a) /\ JudgeStage(a)
    BY <1>1 DEF StageInv
  <1>3. PICK result \in { got, Torn } : content' = [ content EXCEPT ![inode] = result ]
    BY DEF FillTemp
  <1>4. got \in assembled /\ got \in InputVersions /\ inode \in Inodes
    BY <1>1, <1>2 DEF WriteStage, Writing, Holding, Handle, TypeInv
  <1>5. /\ Moves(a, [ proc[a] EXCEPT !.at = "filled" ])
        /\ proc'[a].at = "filled"
        /\ proc'[a].got = proc[a].got /\ proc'[a].todo = proc[a].todo
        /\ proc'[a].fd = proc[a].fd /\ proc'[a].loaded = proc[a].loaded
        /\ proc'[a].outcome = proc[a].outcome
    <2>1. "filled" \in Places
      BY DEF Places
    <2> QED
      BY <1>1, <2>1, AtFacts
  <1>6. ReadStage(a)'
    BY <1>1, <1>2, <1>5 DEF ReadStage, Writing, Holding, Creating, Exclusive
  <1>7. WriteStage(a)'
    BY <1>1, <1>2, <1>4, <1>5 DEF WriteStage, Writing, Holding
  <1>8. JudgeStage(a)'
    BY <1>1, <1>2, <1>5 DEF JudgeStage
  <1>9. StageInv'
    BY <1>1, <1>5, <1>6, <1>7, <1>8, StageStep
  <1> HIDE DEF inode, got
  <1>10. TypeInv'
    <2>1. proc' \in [ Processes -> Process ]
      BY <1>1, <1>5, MoveFacts DEF TypeInv
    <2>2. content' \in [ Inodes -> InputVersions \cup {Torn} ]
      BY <1>1, <1>3, <1>4 DEF TypeInv
    <2> QED
      BY <1>1, <2>1, <2>2 DEF TypeInv
  <1>11. NamesInv'
    BY <1>1 DEF NamesInv
  <1>12. ContentInv'
    BY <1>1, <1>3, <1>4 DEF ContentInv, TypeInv
  <1> QED
    BY <1>9, <1>10, <1>11, <1>12 DEF CommandInv

\* The step of os.Rename that succeeds.
LEMMA RenameFacts ==
    ASSUME CommandInv, NEW a \in Assemblers, proc[a].at = "filled", Renamed(a)
    PROVE  LET rest == proc[a].todo \ {proc[a].fd.part}
               place == IF rest = {} THEN "ok" ELSE "write"
           IN  /\ Moves(a, [ proc[a] EXCEPT !.todo = rest, !.fd = NoFile, !.at = place ])
               /\ proc'[a].at = place
               /\ proc'[a].got = proc[a].got /\ proc'[a].todo = rest
               /\ proc'[a].loaded = proc[a].loaded /\ proc'[a].outcome = proc[a].outcome
  <1> DEFINE rest == proc[a].todo \ {proc[a].fd.part}
             place == IF rest = {} THEN "ok" ELSE "write"
             r == [ proc[a] EXCEPT !.todo = rest, !.fd = NoFile, !.at = place ]
  <1>1. TypeInv /\ a \in Processes
    BY DEF CommandInv, Processes
  <1>2. proc[a] \in Process /\ rest \subseteq PartNames
    BY <1>1, ProcessFacts
  <1>3. place \in Places
    BY DEF Places, Ended
  <1>4. proc' = [ proc EXCEPT ![a].todo = rest, ![a].fd = NoFile, ![a].at = place ]
    BY DEF Renamed
  <1> HIDE DEF rest, place
  <1>5. r \in Process
    BY <1>2, <1>3 DEF Process
  <1>6. Moves(a, r)
    <2>1. proc' = [ proc EXCEPT ![a] = r ]
      BY <1>1, <1>4 DEF TypeInv
    <2> QED
      BY <1>5, <2>1 DEF Moves
  <1>7. proc'[a] = r
    BY <1>1, <1>6, MoveFacts DEF TypeInv
  <1>8. /\ proc'[a].at = place
        /\ proc'[a].got = proc[a].got /\ proc'[a].todo = rest
        /\ proc'[a].loaded = proc[a].loaded /\ proc'[a].outcome = proc[a].outcome
    BY <1>2, <1>7 DEF Process
  <1> QED
    BY <1>6, <1>8 DEF rest, place

LEMMA CommandRename ==
    ASSUME CommandInv, NEW a \in Assemblers, RenameTemp(a)
    PROVE  CommandInv'
  <1> DEFINE part == proc[a].fd.part
             rest == proc[a].todo \ {part}
             place == IF rest = {} THEN "ok" ELSE "write"
  <1>1. /\ TypeInv /\ NamesInv /\ StageInv /\ ContentInv /\ a \in Processes
        /\ UNCHANGED << scenario, disk, owner, content, replaced, assembled >>
        /\ proc[a].at = "filled"
    BY DEF CommandInv, RenameTemp, Processes
  <1>2. CASE Fail(a) /\ UNCHANGED << final, temp >>
    BY <1>1, <1>2, CommandFails
  <1>3. CASE /\ temp[part] # NoFile
             /\ final' = [ final EXCEPT ![part] = temp[part] ]
             /\ temp' = [ temp EXCEPT ![part] = NoFile ]
             /\ Renamed(a)
    <2>1. ReadStage(a) /\ WriteStage(a) /\ JudgeStage(a)
      BY <1>1 DEF StageInv
    <2>2. /\ Moves(a, [ proc[a] EXCEPT !.todo = rest, !.fd = NoFile, !.at = place ])
          /\ proc'[a].at = place
          /\ proc'[a].got = proc[a].got /\ proc'[a].todo = rest
          /\ proc'[a].loaded = proc[a].loaded /\ proc'[a].outcome = proc[a].outcome
      BY <1>1, <1>3, RenameFacts
    <2>3. part \in PartNames
      BY <1>1, <2>1 DEF WriteStage, Holding, Handle
    <2>4. ReadStage(a)'
      <3>1. place # "read" /\ place \notin Creating
        BY DEF Creating, Exclusive
      <3>2. proc[a].got \in InputVersions
        BY <1>1, <2>1 DEF ReadStage, Writing, Holding
      <3> QED
        BY <2>1, <2>2, <3>1, <3>2 DEF ReadStage
    <2>5. WriteStage(a)'
      <3>1. proc[a].got \in assembled
        BY <1>1, <2>1 DEF WriteStage, Writing, Holding
      <3>2. place \notin Holding /\ (place \notin Writing => rest = {})
        BY DEF Writing, Holding
      <3> QED
        BY <1>1, <2>2, <3>1, <3>2 DEF WriteStage
    <2>6. JudgeStage(a)'
      <3>1. proc[a].outcome = NoFile
        BY <1>1, <2>1 DEF JudgeStage
      <3>2. place \notin { "read", "load", "decide" }
        OBVIOUS
      <3> QED
        BY <1>1, <2>1, <2>2, <3>1, <3>2 DEF JudgeStage
    <2>7. StageInv'
      BY <1>1, <2>2, <2>4, <2>5, <2>6, StageStep
    <2> HIDE DEF part, rest, place
    <2>8. TypeInv'
      <3>1. proc' \in [ Processes -> Process ]
        BY <1>1, <2>2, MoveFacts DEF TypeInv
      <3>2. /\ final' \in [ PartNames -> Inodes \cup {NoFile} ]
            /\ temp' \in [ PartNames -> Inodes \cup {NoFile} ]
        BY <1>1, <1>3, <2>3 DEF TypeInv
      <3> QED
        BY <1>1, <3>1, <3>2 DEF TypeInv
    <2>9. NamesInv'
      BY <1>1, <1>3, <2>3 DEF NamesInv, TypeInv
    <2>10. ContentInv'
      BY <1>1 DEF ContentInv
    <2> QED
      BY <2>7, <2>8, <2>9, <2>10 DEF CommandInv
  <1> QED
    BY <1>2, <1>3 DEF RenameTemp

LEMMA CommandLoad ==
    ASSUME CommandInv, NEW v \in Others, LoadPart(v)
    PROVE  CommandInv'
  <1> DEFINE count == Len(proc[v].loaded) + 1
             part == Parts[count]
             document == content[final[part]]
             place == IF count = Len(Parts) THEN "decide" ELSE "load"
             r == [ proc[v] EXCEPT !.loaded = Append(@, document), !.at = place ]
  <1>1. /\ TypeInv /\ NamesInv /\ StageInv /\ ContentInv /\ v \in Processes
        /\ UNCHANGED << scenario, disk, owner, final, temp, content, replaced, assembled >>
        /\ proc[v].at = "load"
    BY DEF CommandInv, LoadPart, directory, Processes
  <1>2. CASE Fail(v)
    BY <1>1, <1>2, CommandFails
  <1>3. CASE /\ Readable(part, final[part])
             /\ proc' = [ proc EXCEPT ![v].loaded = Append(@, document), ![v].at = place ]
    <2>1. /\ proc[v] \in Process /\ proc[v].loaded \in Seq(InputVersions)
          /\ Len(proc[v].loaded) \in Nat
      BY <1>1, ProcessFacts
    <2>2. ReadStage(v) /\ WriteStage(v) /\ JudgeStage(v)
      BY <1>1 DEF StageInv
    <2>3. count \in 1..3 /\ Len(Parts) = 3 /\ part \in PartNames
      <3>1. count \in 1..3
        BY <1>1, <2>1, <2>2 DEF JudgeStage
      <3> QED
        BY <3>1, PartFacts
    <2>4. final[part] \in Inodes /\ document # Torn
      BY <1>1, <1>3, <2>3 DEF Readable, TypeInv
    <2>5. document \in assembled /\ document \in InputVersions
      BY <1>1, <2>4 DEF ContentInv, TypeInv
    <2>6. /\ Append(proc[v].loaded, document) \in Seq(InputVersions)
          /\ Len(Append(proc[v].loaded, document)) = count
          /\ \A i \in 1..Len(proc[v].loaded) : Append(proc[v].loaded, document)[i] = proc[v].loaded[i]
          /\ Append(proc[v].loaded, document)[count] = document
      BY <2>1, <2>5
    <2>7. place \in Places /\ place \in { "load", "decide" } /\ (place = "load" => count < 3)
          /\ (place = "decide" => count = 3)
      BY <2>3 DEF Places
    <2> HIDE DEF place, document, part
    <2>8. r \in Process
      BY <2>1, <2>6, <2>7 DEF Process
    <2>9. Moves(v, r)
      <3>1. proc' = [ proc EXCEPT ![v] = r ]
        BY <1>1, <1>3 DEF TypeInv
      <3> QED
        BY <2>8, <3>1 DEF Moves
    <2>10. proc'[v] = r
      BY <1>1, <2>9, MoveFacts DEF TypeInv
    <2>11. /\ proc'[v].at = place /\ proc'[v].got = proc[v].got
           /\ proc'[v].todo = proc[v].todo /\ proc'[v].loaded = Append(proc[v].loaded, document)
           /\ proc'[v].outcome = proc[v].outcome
      BY <2>1, <2>10 DEF Process
    <2>12. ReadStage(v)'
      BY <1>1, <2>2, <2>7, <2>11 DEF ReadStage, Writing, Holding, Judging, Creating, Exclusive
    <2>13. WriteStage(v)'
      BY <1>1, <2>2, <2>7, <2>11 DEF WriteStage, Writing, Holding
    <2>14. JudgeStage(v)'
      <3>1. Len(proc'[v].loaded) = count
        BY <2>6, <2>11
      <3>2. \A k \in 1..count : proc'[v].loaded[k] \in assembled'
        <4>1. ASSUME NEW k \in 1..count, k # count PROVE proc'[v].loaded[k] \in assembled'
          <5>1. k \in 1..Len(proc[v].loaded)
            BY <2>1, <4>1
          <5> QED
            BY <1>1, <2>2, <2>6, <2>11, <5>1 DEF JudgeStage
        <4>2. proc'[v].loaded[count] \in assembled'
          BY <1>1, <2>5, <2>6, <2>11
        <4> QED
          BY <4>1, <4>2
      <3>3. proc[v].outcome = NoFile
        BY <1>1, <2>2 DEF JudgeStage
      <3> HIDE DEF count
      <3> QED
        BY <2>3, <2>7, <2>11, <3>1, <3>2, <3>3 DEF JudgeStage
    <2> QED
      BY <1>1, <2>9, <2>12, <2>13, <2>14, ProcessMoves
  <1> QED
    BY <1>2, <1>3 DEF LoadPart

LEMMA CommandVerify ==
    ASSUME CommandInv, NEW v \in Others, VerifyCommand(v)
    PROVE  CommandInv'
  <1> DEFINE decision == Verify(InputsOf(proc[v].got), LoadedBundle(proc[v].loaded)).decision
             r == [ proc[v] EXCEPT !.at = "ok", !.outcome = decision ]
  <1>1. /\ TypeInv /\ NamesInv /\ StageInv /\ ContentInv /\ v \in Processes
        /\ UNCHANGED << scenario, disk, owner, final, temp, content, replaced, assembled >>
        /\ proc[v].at = "decide"
        /\ proc' = [ proc EXCEPT ![v].at = "ok", ![v].outcome = decision ]
        /\ v \notin Assemblers
    BY CommandAssumption DEF CommandInv, VerifyCommand, directory, Processes
  <1>2. proc[v] \in Process /\ ReadStage(v) /\ WriteStage(v) /\ JudgeStage(v)
    BY <1>1, ProcessFacts DEF StageInv
  <1>3. decision \in Decisions
    BY VerifyDecides
  <1>4. decision = Verify(InputsOf(proc[v].got), LoadedBundle(proc[v].loaded)).decision
    OBVIOUS
  <1> HIDE DEF decision
  <1>5. r \in Process
    BY <1>2, <1>3 DEF Process, Places, Ended
  <1>6. Moves(v, r)
    <2>1. proc' = [ proc EXCEPT ![v] = r ]
      BY <1>1 DEF TypeInv
    <2> QED
      BY <1>5, <2>1 DEF Moves
  <1>7. proc'[v] = r
    BY <1>1, <1>6, MoveFacts DEF TypeInv
  <1>8. /\ proc'[v].at = "ok" /\ proc'[v].got = proc[v].got
        /\ proc'[v].todo = proc[v].todo /\ proc'[v].loaded = proc[v].loaded
        /\ proc'[v].outcome = decision
    BY <1>2, <1>7 DEF Process
  <1>9. ReadStage(v)'
    BY <1>1, <1>2, <1>8 DEF ReadStage, Writing, Holding, Judging, Creating, Exclusive
  <1>10. WriteStage(v)'
    BY <1>1, <1>2, <1>8 DEF WriteStage, Writing, Holding
  <1>11. JudgeStage(v)'
    <2>1. proc[v].got \in InputVersions /\ Len(proc[v].loaded) = 3
      BY <1>1, <1>2 DEF ReadStage, JudgeStage, Judging
    <2>2. proc'[v].outcome =
            Verify(InputsOf(proc'[v].got), LoadedBundle(proc'[v].loaded)).decision
      BY <1>4, <1>8
    <2>3. \A k \in 1..Len(proc'[v].loaded) : proc'[v].loaded[k] \in assembled'
      BY <1>1, <1>2, <1>8 DEF JudgeStage
    <2>4. Len(proc'[v].loaded) = 3 /\ proc'[v].got \in InputVersions /\ proc'[v].at = "ok"
      BY <1>8, <2>1
    <2> QED
      BY <2>2, <2>3, <2>4 DEF JudgeStage
  <1> QED
    BY <1>1, <1>6, <1>9, <1>10, <1>11, ProcessMoves

\* A command of the others that goes on from a call outside the bundle directory.
LEMMA OtherStages ==
    ASSUME CommandInv, NEW p \in Others, NEW place \in Exclusive \cup {"ok"}, At(p, place),
           proc[p].at \in {"validate"} \cup Creating,
           proc[p].at = "validate" => place = "ok",
           UNCHANGED assembled
    PROVE  /\ Moves(p, [ proc[p] EXCEPT !.at = place ])
           /\ (ReadStage(p) /\ WriteStage(p) /\ JudgeStage(p))'
  <1>1. TypeInv /\ p \in Processes /\ p \notin Assemblers /\ place \in Places
    BY CommandAssumption DEF CommandInv, Processes, Places, Ended
  <1>2. ReadStage(p) /\ WriteStage(p) /\ JudgeStage(p)
    BY <1>1 DEF CommandInv, StageInv
  <1>3. /\ Moves(p, [ proc[p] EXCEPT !.at = place ])
        /\ proc'[p].at = place
        /\ proc'[p].got = proc[p].got /\ proc'[p].todo = proc[p].todo
        /\ proc'[p].fd = proc[p].fd /\ proc'[p].loaded = proc[p].loaded
        /\ proc'[p].outcome = proc[p].outcome
    BY <1>1, AtFacts
  <1>4. ReadStage(p)'
    BY <1>2, <1>3 DEF ReadStage, Writing, Holding, Judging, Creating, Exclusive
  <1>5. WriteStage(p)'
    BY <1>1, <1>2, <1>3 DEF WriteStage, Writing, Holding, Creating, Exclusive
  <1>6. JudgeStage(p)'
    BY <1>2, <1>3 DEF JudgeStage, Creating, Exclusive
  <1> QED
    BY <1>3, <1>4, <1>5, <1>6

LEMMA CommandValidate ==
    ASSUME CommandInv, NEW p \in Others, ValidateEvents(p)
    PROVE  CommandInv'
  <1>1. /\ p \in Processes
        /\ UNCHANGED << scenario, disk, owner, final, temp, content, replaced, assembled >>
        /\ proc[p].at = "validate"
    BY DEF ValidateEvents, directory, Processes
  <1>2. CASE Fail(p)
    BY <1>1, <1>2, CommandFails
  <1>3. CASE At(p, "ok")
    BY <1>1, <1>3, OtherStages, ProcessMoves
  <1> QED
    BY <1>2, <1>3 DEF ValidateEvents

\* A step of p that writes an output file.
LEMMA OutputMoves ==
    ASSUME CommandInv, NEW p \in Processes, NEW r, Moves(p, r),
           (ReadStage(p) /\ WriteStage(p) /\ JudgeStage(p))',
           NEW version \in Contents(OutputOf(p)), NEW q \in Others \cup {NoFile},
           disk' = [ disk EXCEPT ![OutputOf(p)] = version ],
           owner' = [ owner EXCEPT ![OutputOf(p)] = q ],
           UNCHANGED << scenario, final, temp, content, replaced, assembled >>
    PROVE  CommandInv'
  <1>1. TypeInv /\ NamesInv /\ StageInv /\ ContentInv
    BY DEF CommandInv
  <1>2. OutputOf(p) \in Files
    BY DEF OutputOf, Files
  <1>3. version \in Version
    BY <1>2 DEF Version
  <1>4. /\ disk' \in [ Files -> Version ]
        /\ \A file \in Files : disk'[file] \in Contents(file)
        /\ owner' \in [ Files -> Others \cup {NoFile} ]
    BY <1>1, <1>2, <1>3 DEF TypeInv
  <1>5. proc' \in [ Processes -> Process ]
    BY <1>1, MoveFacts DEF TypeInv
  <1>6. TypeInv'
    BY <1>1, <1>4, <1>5 DEF TypeInv
  <1>7. StageInv'
    BY <1>1, StageStep
  <1>8. NamesInv' /\ ContentInv'
    BY <1>1 DEF NamesInv, ContentInv
  <1> QED
    BY <1>6, <1>7, <1>8 DEF CommandInv

\* The calls of WriteCanonicalExclusive.
ExclusiveStep(p) ==
    \/ CreateExclusive(p) \/ WriteExclusive(p) \/ SyncExclusive(p) \/ CloseExclusive(p)
    \/ RemoveExclusive(p)

\* Each of them concerns one process and one output name.
LEMMA ExclusiveFacts ==
    ASSUME CommandInv, NEW p \in Others, ExclusiveStep(p)
    PROVE  /\ UNCHANGED << scenario, final, temp, content, replaced, assembled >>
           /\ proc[p].at \in Creating
           /\ Fail(p) \/ \E place \in Exclusive \cup {"ok"} : At(p, place)
           /\ \E version \in Contents(OutputOf(p)), q \in Others \cup {NoFile} :
                 /\ disk' = [ disk EXCEPT ![OutputOf(p)] = version ]
                 /\ owner' = [ owner EXCEPT ![OutputOf(p)] = q ]
  <1> DEFINE out == OutputOf(p)
  <1>1. TypeInv /\ p \in Processes /\ out \in Files
    BY DEF CommandInv, Processes, OutputOf, Files
  <1>2. /\ disk[out] \in Contents(out) /\ disk = [ disk EXCEPT ![out] = disk[out] ]
        /\ owner[out] \in Others \cup {NoFile} /\ owner = [ owner EXCEPT ![out] = owner[out] ]
        /\ Torn \in Contents(out) /\ NoFile \in Contents(out)
    BY <1>1 DEF TypeInv, Contents, OutputOf
  <1>3. proc[p].at \in Creating => proc[p].got \in Contents(out)
    <2>1. proc[p].at \in Creating => proc[p].got \in Made(out)
      BY <1>1 DEF CommandInv, StageInv, ReadStage
    <2> QED
      BY <2>1 DEF Contents, OutputOf
  <1> HIDE DEF out
  <1>4. CASE CreateExclusive(p)
    BY <1>2, <1>4 DEF CreateExclusive, directory, out, Creating, Exclusive
  <1>5. CASE WriteExclusive(p)
    BY <1>2, <1>3, <1>5 DEF WriteExclusive, directory, out, Creating, Exclusive
  <1>6. CASE SyncExclusive(p)
    BY <1>2, <1>6 DEF SyncExclusive, directory, out, Creating, Exclusive
  <1>7. CASE CloseExclusive(p)
    BY <1>2, <1>7 DEF CloseExclusive, directory, out, Creating, Exclusive
  <1>8. CASE RemoveExclusive(p)
    BY <1>2, <1>8 DEF RemoveExclusive, directory, out, Creating, Exclusive
  <1> QED
    BY <1>4, <1>5, <1>6, <1>7, <1>8 DEF ExclusiveStep

LEMMA CommandExclusive ==
    ASSUME CommandInv, NEW p \in Others, ExclusiveStep(p)
    PROVE  CommandInv'
  <1>1. /\ p \in Processes /\ TypeInv
        /\ UNCHANGED << scenario, final, temp, content, replaced, assembled >>
        /\ proc[p].at \in Creating
    BY ExclusiveFacts DEF Processes, CommandInv
  <1>2. PICK version \in Contents(OutputOf(p)), q \in Others \cup {NoFile} :
          /\ disk' = [ disk EXCEPT ![OutputOf(p)] = version ]
          /\ owner' = [ owner EXCEPT ![OutputOf(p)] = q ]
    BY ExclusiveFacts
  <1>3. CASE Fail(p)
    BY <1>1, <1>2, <1>3, FailFacts, OutputMoves
  <1>4. ASSUME NEW place \in Exclusive \cup {"ok"}, At(p, place)
        PROVE  CommandInv'
    <2>1. proc[p].at # "validate"
      BY <1>1 DEF Creating, Exclusive
    <2> QED
      BY <1>1, <1>2, <1>4, <2>1, OtherStages, OutputMoves
  <1> QED
    BY <1>3, <1>4, ExclusiveFacts

LEMMA CommandReplace ==
    ASSUME CommandInv, NEW file \in DOMAIN Scenarios[scenario].alternatives, Replace(file)
    PROVE  CommandInv'
  <1>1. /\ TypeInv /\ NamesInv /\ StageInv /\ ContentInv
        /\ UNCHANGED << scenario, proc, final, temp, content, assembled >>
        /\ replaced < Scenarios[scenario].replacements /\ replaced' = replaced + 1
    BY DEF CommandInv, Replace, directory
  <1>2. PICK version \in Scenarios[scenario].alternatives[file] :
          /\ disk' = [ disk EXCEPT ![file] = version ]
          /\ owner' = [ owner EXCEPT ![file] = NoFile ]
    BY DEF Replace
  <1>3. file \in Files /\ version \in Contents(file) /\ Scenarios[scenario].replacements \in Nat
    BY <1>1, ScenariosAssumption DEF TypeInv
  <1>4. version \in Version
    BY <1>3 DEF Version
  <1>5. /\ disk' \in [ Files -> Version ]
        /\ \A f \in Files : disk'[f] \in Contents(f)
        /\ owner' \in [ Files -> Others \cup {NoFile} ]
    BY <1>1, <1>2, <1>3, <1>4 DEF TypeInv
  <1>6. replaced' \in 0..Scenarios[scenario].replacements
    BY <1>1, <1>3 DEF TypeInv
  <1>7. TypeInv'
    BY <1>1, <1>5, <1>6 DEF TypeInv
  <1>8. StageInv'
    BY <1>1, StageFrame DEF StageInv
  <1>9. NamesInv' /\ ContentInv'
    BY <1>1 DEF NamesInv, ContentInv
  <1> QED
    BY <1>7, <1>8, <1>9 DEF CommandInv

LEMMA CommandStutters ==
    ASSUME CommandInv, UNCHANGED vars
    PROVE  CommandInv'
  <1>1. /\ TypeInv /\ NamesInv /\ StageInv /\ ContentInv
        /\ UNCHANGED << scenario, disk, owner, proc, final, temp, content, replaced, assembled >>
    BY DEF CommandInv, vars, directory
  <1>2. StageInv'
    BY <1>1, StageFrame DEF StageInv
  <1>3. TypeInv' /\ NamesInv' /\ ContentInv'
    BY <1>1 DEF TypeInv, NamesInv, ContentInv
  <1> QED
    BY <1>2, <1>3 DEF CommandInv

\* CommandInv is inductive: what a command holds at each of its calls is what the
\* calls before it read and made, whatever the other processes do to the files.
LEMMA CommandStep == CommandInv /\ [Next]_vars => CommandInv'
  <1> SUFFICES ASSUME CommandInv, [Next]_vars PROVE CommandInv'
    OBVIOUS
  <1>1. ASSUME NEW p \in Processes, ReadInput(p) PROVE CommandInv'
    BY <1>1, CommandRead
  <1>2. ASSUME NEW p \in Processes, Stop(p) PROVE CommandInv'
    BY <1>2, CommandFails DEF Stop, directory
  <1>3. ASSUME NEW a \in Assemblers, AssembleCommand(a) PROVE CommandInv'
    BY <1>3, CommandAssemble
  <1>4. ASSUME NEW a \in Assemblers, OpenTemp(a) PROVE CommandInv'
    BY <1>4, CommandOpen
  <1>5. ASSUME NEW a \in Assemblers, FillTemp(a) PROVE CommandInv'
    BY <1>5, CommandFill
  <1>6. ASSUME NEW a \in Assemblers, RenameTemp(a) PROVE CommandInv'
    BY <1>6, CommandRename
  <1>7. ASSUME NEW p \in Others, LoadPart(p) PROVE CommandInv'
    BY <1>7, CommandLoad
  <1>8. ASSUME NEW p \in Others, VerifyCommand(p) PROVE CommandInv'
    BY <1>8, CommandVerify
  <1>9. ASSUME NEW p \in Others, ValidateEvents(p) PROVE CommandInv'
    BY <1>9, CommandValidate
  <1>10. ASSUME NEW p \in Others, ExclusiveStep(p) PROVE CommandInv'
    BY <1>10, CommandExclusive
  <1>11. ASSUME NEW file \in DOMAIN Scenarios[scenario].alternatives, Replace(file)
         PROVE  CommandInv'
    BY <1>11, CommandReplace
  <1>12. CASE UNCHANGED vars
    BY <1>12, CommandStutters
  <1> QED
    BY <1>1, <1>2, <1>3, <1>4, <1>5, <1>6, <1>7, <1>8, <1>9, <1>10, <1>11, <1>12
       DEF Next, ExclusiveStep

LEMMA CommandInvariant == Spec => []CommandInv
  BY CommandInit, CommandStep, PTL DEF Spec

\* The places, reads and files of the commands have their types.
THEOREM TypeCorrect == Spec => []TypeOK
  <1>1. CommandInv => TypeOK
    <2> SUFFICES ASSUME CommandInv PROVE TypeOK
      OBVIOUS
    <2>1. TypeInv /\ NamesInv /\ StageInv
      BY DEF CommandInv
    <2>2. /\ DOMAIN disk = Files /\ DOMAIN content = Inodes
          /\ owner \in [ Files -> Others \cup {NoFile} ]
      BY <2>1 DEF TypeInv
    <2>3. ASSUME NEW p \in Processes
          PROVE  /\ proc[p].at \in Places
                 /\ Len(proc[p].got) <= Len(ReadOrder(p))
                 /\ proc[p].todo \subseteq PartNames /\ (proc[p].at = "ok" => proc[p].todo = {})
                 /\ Len(proc[p].loaded) <= Len(Parts)
      <3>1. ReadStage(p) /\ WriteStage(p) /\ JudgeStage(p)
        BY <2>1 DEF StageInv
      <3> QED
        BY <2>1, <3>1, ProcessFacts, PartFacts
           DEF ReadStage, WriteStage, JudgeStage, Writing, Holding
    <2>4. ASSUME NEW n \in PartNames
          PROVE  {final[n], temp[n]} \subseteq (Assemblers \X {n}) \cup {NoFile}
      <3>1. \A i \in Inodes : i[2] = n => i \in Assemblers \X {n}
        BY DEF Inodes
      <3> QED
        BY <2>1, <3>1 DEF TypeInv, NamesInv
    <2> QED
      BY <2>1, <2>2, <2>3, <2>4 DEF TypeOK, TypeInv
  <1> QED
    BY <1>1, CommandInvariant, PTL

-----------------------------------------------------------------------------
(* What an ALLOW means                                                     *)

\* The counters of no report on the disk add up to 2^64.
ReportsFit == \A version \in DOMAIN EventDocs : ReportFits(EventDocs[version].lines)

\* The command decided on what it read and loaded.
LEMMA VerdictFacts ==
    ASSUME CommandInv, NEW v \in Verifiers, Decided(v)
    PROVE  /\ proc[v].outcome = Verify(Judged(v), LoadedBundle(proc[v].loaded)).decision
           /\ proc[v].got \in InputVersions
           /\ proc[v].loaded[3] \in assembled
  <1>1. v \in Processes /\ JudgeStage(v) /\ TypeInv
    BY DEF Verifiers, Processes, CommandInv, StageInv
  <1>2. Len(proc[v].loaded) = 3
    BY <1>1 DEF JudgeStage, Decided
  <1>3. 3 \in 1..Len(proc[v].loaded)
    BY <1>2
  <1> QED
    BY <1>1, <1>3 DEF JudgeStage, Decided, Judged

\* verify-fixture allows only admissible inputs, whichever files were replaced
\* between its reads and whatever the bundle directory held.
THEOREM AllowIsAdmissibleAlways ==
    ASSUME ReportsFit
    PROVE  Spec => []AllowIsAdmissible
  <1>1. CommandInv => AllowIsAdmissible
    <2> SUFFICES ASSUME CommandInv, NEW v \in Verifiers, Allowed(v)
                 PROVE  Admissible(Judged(v))
      BY DEF AllowIsAdmissible
    <2>1. Decided(v)
      BY NamesAssumption DEF Allowed, Decided
    <2>2. Verify(Judged(v), LoadedBundle(proc[v].loaded)).decision = "ALLOW"
      BY <2>1, VerdictFacts DEF Allowed
    <2>3. proc[v].got[2] \in DOMAIN EventDocs
      BY <2>1, VerdictFacts DEF InputVersions
    <2>4. ReportFits(Judged(v).events.lines)
      BY <2>3 DEF ReportsFit, Judged, InputsOf
    <2> QED
      BY <2>2, <2>4, AllowedInputsAreAdmissible
  <1> QED
    BY <1>1, CommandInvariant, PTL

\* With the bundle of its own inputs, an admissible build is always allowed.
THEOREM AdmissibleIsAllowedAlways == Spec => []AdmissibleIsAllowed
  <1>1. CommandInv => AdmissibleIsAllowed
    <2> SUFFICES ASSUME CommandInv, NEW v \in Verifiers, Decided(v),
                        proc[v].loaded = [ i \in 1..Len(Parts) |-> proc[v].got ],
                        Admissible(Judged(v))
                 PROVE  Allowed(v)
      BY DEF AdmissibleIsAllowed
    <2>1. /\ proc[v].loaded[1] = proc[v].got /\ proc[v].loaded[2] = proc[v].got
          /\ proc[v].loaded[3] = proc[v].got
      BY PartFacts
    <2>2. LoadedBundle(proc[v].loaded) = Assemble(Judged(v))
      BY <2>1 DEF LoadedBundle, Assemble, Judged
    <2>3. Verify(Judged(v), LoadedBundle(proc[v].loaded)).decision = "ALLOW"
      BY <2>2, AdmissibleInputsAreAllowed
    <2> QED
      BY <2>3, VerdictFacts DEF Allowed
  <1> QED
    BY <1>1, CommandInvariant, PTL

\* An ALLOW is about inputs that one assemble command saw together.
THEOREM AllowMeansAssembledAlways == Spec => []AllowMeansAssembled
  <1>1. CommandInv => AllowMeansAssembled
    <2> SUFFICES ASSUME CommandInv, NEW v \in Verifiers, Allowed(v)
                 PROVE  Judged(v) \in { InputsOf(i) : i \in assembled }
      BY DEF AllowMeansAssembled
    <2>1. Decided(v)
      BY NamesAssumption DEF Allowed, Decided
    <2>2. Verify(Judged(v), LoadedBundle(proc[v].loaded)).decision = "ALLOW"
      BY <2>1, VerdictFacts DEF Allowed
    <2> DEFINE other == InputsOf(proc[v].loaded[3])
    <2>3. LoadedBundle(proc[v].loaded).trace = Assemble(other).trace
      BY DEF LoadedBundle
    <2>4. /\ Judged(v).artifact = other.artifact /\ Judged(v).name = other.name
          /\ Judged(v).events = other.events /\ Judged(v).provenance = other.provenance
          /\ Judged(v).policy = other.policy
      BY <2>2, <2>3, AllowedInputsWereAssembled
    <2>5. Judged(v) = other
      BY <2>4 DEF Judged, InputsOf
    <2> QED
      BY <2>1, <2>5, VerdictFacts
  <1> QED
    BY <1>1, CommandInvariant, PTL

-----------------------------------------------------------------------------
(* Exclusive outputs                                                       *)

\* The file a command created, while it still has its name: it is there, and it holds the
\* whole document once it is written.
OwnerInv ==
    \A p \in Others :
        proc[p].at \in Exclusive /\ owner[OutputOf(p)] = p =>
            /\ disk[OutputOf(p)] \in { Torn, proc[p].got }
            /\ proc[p].at \in { "written", "synced" } => disk[OutputOf(p)] = proc[p].got

\* A file in progress is a file.
LEMMA OwnedIsThere ==
    ASSUME CommandInv, OwnerInv, NEW p \in Others, proc[p].at \in Exclusive,
           owner[OutputOf(p)] = p
    PROVE  disk[OutputOf(p)] # NoFile
  <1>1. OutputOf(p) \in Outputs /\ proc[p].got \in Made(OutputOf(p))
    BY DEF CommandInv, StageInv, ReadStage, Creating, Processes, OutputOf, Outputs
  <1> QED
    BY <1>1, NamesAssumption DEF OwnerInv

\* Outside WriteCanonicalExclusive no command gets into it, and one that is inside only
\* leaves it by its end.
StaysOut ==
    \A q \in Processes :
        /\ proc'[q].at \in Exclusive => proc'[q] = proc[q]
        /\ proc[q].at \in Exclusive => proc'[q] = proc[q] \/ proc'[q].at = "failed"

LEMMA OthersStayOut ==
    ASSUME CommandInv, Next, ~\E p \in Others : ExclusiveStep(p)
    PROVE  StaysOut
  <1>1. TypeInv /\ Assemblers \subseteq Processes /\ Others \subseteq Processes
    BY DEF CommandInv, Processes
  <1>2. ASSUME NEW p \in Processes, \A q \in Processes \ {p} : proc'[q] = proc[q],
               proc[p].at \notin Exclusive, proc'[p].at \notin Exclusive
        PROVE  StaysOut
    BY <1>2 DEF StaysOut
  <1>3. ASSUME NEW p \in Processes, Fail(p) PROVE StaysOut
    <2>1. proc'[p].at = "failed" /\ \A q \in Processes \ {p} : proc'[q] = proc[q]
      BY <1>1, <1>3, FailFacts, MoveFacts DEF TypeInv, Fresh
    <2>2. "failed" \notin Exclusive
      BY DEF Exclusive
    <2> QED
      BY <2>1, <2>2 DEF StaysOut
  <1>4. ASSUME NEW p \in Processes, NEW place, place \notin Exclusive, At(p, place),
               proc[p].at \notin Exclusive
        PROVE  StaysOut
    <2>1. proc'[p].at = place /\ \A q \in Processes \ {p} : proc'[q] = proc[q]
      BY <1>1, <1>4 DEF At, TypeInv, Process
    <2> QED
      BY <1>2, <1>4, <2>1
  <1>5. ASSUME NEW p \in Processes, ReadInput(p) PROVE StaysOut
    <2>1. CASE Fail(p)
      BY <1>3, <2>1
    <2>2. CASE ~Fail(p)
      <3> DEFINE count == Len(proc[p].got) + 1
                 place == IF count = Len(ReadOrder(p)) THEN AfterRead(p) ELSE "read"
                 version == disk[ReadOrder(p)[count]]
      <3>1. /\ proc' = [ proc EXCEPT ![p].got = Append(@, version), ![p].at = place ]
            /\ proc[p].at \notin Exclusive
        BY <1>5, <2>2 DEF ReadInput, Exclusive
      <3>2. place \notin Exclusive
        BY AfterReadFacts DEF Exclusive
      <3> HIDE DEF place, version
      <3>3. proc'[p].at = place /\ \A q \in Processes \ {p} : proc'[q] = proc[q]
        BY <1>1, <3>1 DEF TypeInv, Process
      <3> QED
        BY <1>2, <3>1, <3>2, <3>3
    <2> QED
      BY <2>1, <2>2
  <1>6. ASSUME NEW p \in Processes, Stop(p) PROVE StaysOut
    BY <1>3, <1>6 DEF Stop
  <1>7. ASSUME NEW a \in Assemblers, AssembleCommand(a) PROVE StaysOut
    <2>1. CASE Fail(a)
      BY <1>1, <1>3, <2>1
    <2>2. CASE proc' = [ proc EXCEPT ![a].at = "write", ![a].todo = PartNames ]
      <3>1. proc'[a].at = "write" /\ \A q \in Processes \ {a} : proc'[q] = proc[q]
        BY <1>1, <2>2 DEF TypeInv, Process
      <3>2. proc[a].at \notin Exclusive /\ "write" \notin Exclusive
        BY <1>7 DEF AssembleCommand, Exclusive
      <3> QED
        BY <1>1, <1>2, <3>1, <3>2
    <2> QED
      BY <1>7, <2>1, <2>2 DEF AssembleCommand
  <1>8. ASSUME NEW a \in Assemblers, OpenTemp(a) PROVE StaysOut
    <2>1. PICK part, inode :
            proc' = [ proc EXCEPT ![a].at = "opened",
                                  ![a].fd = [ part |-> part, inode |-> inode ] ]
      BY <1>8 DEF OpenTemp, Opened
    <2>2. proc'[a].at = "opened" /\ \A q \in Processes \ {a} : proc'[q] = proc[q]
      BY <1>1, <2>1 DEF TypeInv, Process
    <2>3. proc[a].at \notin Exclusive /\ "opened" \notin Exclusive
      BY <1>8 DEF OpenTemp, Exclusive
    <2> QED
      BY <1>1, <1>2, <2>2, <2>3
  <1>9. ASSUME NEW a \in Assemblers, FillTemp(a) PROVE StaysOut
    <2>1. At(a, "filled") /\ proc[a].at \notin Exclusive /\ "filled" \notin Exclusive
      BY <1>9 DEF FillTemp, Exclusive
    <2> QED
      BY <1>1, <1>4, <2>1
  <1>10. ASSUME NEW a \in Assemblers, RenameTemp(a) PROVE StaysOut
    <2>1. CASE Fail(a)
      BY <1>1, <1>3, <2>1
    <2>2. CASE Renamed(a)
      <3> DEFINE rest == proc[a].todo \ {proc[a].fd.part}
                 place == IF rest = {} THEN "ok" ELSE "write"
      <3>1. proc' = [ proc EXCEPT ![a].todo = rest, ![a].fd = NoFile, ![a].at = place ]
        BY <2>2 DEF Renamed
      <3>2. place \notin Exclusive /\ proc[a].at \notin Exclusive
        BY <1>10 DEF RenameTemp, Exclusive
      <3> HIDE DEF place, rest
      <3>3. proc'[a].at = place /\ \A q \in Processes \ {a} : proc'[q] = proc[q]
        BY <1>1, <3>1 DEF TypeInv, Process
      <3> QED
        BY <1>1, <1>2, <3>2, <3>3
    <2> QED
      BY <1>10, <2>1, <2>2 DEF RenameTemp
  <1>11. ASSUME NEW p \in Others, LoadPart(p) PROVE StaysOut
    <2>1. CASE Fail(p)
      BY <1>1, <1>3, <2>1
    <2>2. CASE ~Fail(p)
      <3> DEFINE count == Len(proc[p].loaded) + 1
                 place == IF count = Len(Parts) THEN "decide" ELSE "load"
                 document == content[final[Parts[count]]]
      <3>1. proc' = [ proc EXCEPT ![p].loaded = Append(@, document), ![p].at = place ]
        BY <1>11, <2>2 DEF LoadPart
      <3>2. place \notin Exclusive /\ proc[p].at \notin Exclusive
        BY <1>11 DEF LoadPart, Exclusive
      <3> HIDE DEF place, document
      <3>3. proc'[p].at = place /\ \A q \in Processes \ {p} : proc'[q] = proc[q]
        BY <1>1, <3>1 DEF TypeInv, Process
      <3> QED
        BY <1>1, <1>2, <3>2, <3>3
    <2> QED
      BY <2>1, <2>2
  <1>12. ASSUME NEW p \in Others, VerifyCommand(p) PROVE StaysOut
    <2> DEFINE decision == Verify(InputsOf(proc[p].got), LoadedBundle(proc[p].loaded)).decision
    <2>1. proc' = [ proc EXCEPT ![p].at = "ok", ![p].outcome = decision ]
      BY <1>12 DEF VerifyCommand
    <2> HIDE DEF decision
    <2>2. proc'[p].at = "ok" /\ \A q \in Processes \ {p} : proc'[q] = proc[q]
      BY <1>1, <2>1 DEF TypeInv, Process
    <2>3. proc[p].at \notin Exclusive /\ "ok" \notin Exclusive
      BY <1>12 DEF VerifyCommand, Exclusive
    <2> QED
      BY <1>1, <1>2, <2>2, <2>3
  <1>13. ASSUME NEW p \in Others, ValidateEvents(p) PROVE StaysOut
    <2>1. /\ Fail(p) \/ At(p, "ok")
          /\ proc[p].at \notin Exclusive /\ "ok" \notin Exclusive
      BY <1>13 DEF ValidateEvents, Exclusive
    <2> QED
      BY <1>1, <1>3, <1>4, <2>1
  <1>14. ASSUME NEW file, Replace(file) PROVE StaysOut
    BY <1>14 DEF Replace, StaysOut
  <1> QED
    BY <1>5, <1>6, <1>7, <1>8, <1>9, <1>10, <1>11, <1>12, <1>13, <1>14 DEF Next, ExclusiveStep

\* Only WriteCanonicalExclusive and the environment write input and output files.
LEMMA DiskStays ==
    ASSUME Next,
           ~\E p \in Others : ExclusiveStep(p),
           ~\E file \in DOMAIN Scenarios[scenario].alternatives : Replace(file)
    PROVE  UNCHANGED << disk, owner >>
  BY DEF Next, ReadInput, Stop, AssembleCommand, OpenTemp, FillTemp, RenameTemp, LoadPart,
         VerifyCommand, ValidateEvents, ExclusiveStep

\* A call of WriteCanonicalExclusive concerns the other processes and names not at all.
LEMMA ExclusiveFrame ==
    ASSUME CommandInv, NEW p \in Others, ExclusiveStep(p)
    PROVE  /\ \A q \in Others \ {p} : proc'[q] = proc[q]
           /\ \A file \in Files \ {OutputOf(p)} :
                 disk'[file] = disk[file] /\ owner'[file] = owner[file]
           /\ \A q \in Others : OutputOf(q) \in Files
  <1>1. TypeInv /\ p \in Processes /\ Others \subseteq Processes
    BY DEF CommandInv, Processes
  <1>2. \A q \in Processes \ {p} : proc'[q] = proc[q]
    <2>1. CASE Fail(p)
      BY <1>1, <2>1, FailFacts, MoveFacts DEF TypeInv
    <2>2. ASSUME NEW place, At(p, place) PROVE \A q \in Processes \ {p} : proc'[q] = proc[q]
      BY <1>1, <2>2 DEF At, TypeInv
    <2> QED
      BY <2>1, <2>2, ExclusiveFacts
  <1>3. \A q \in Others : OutputOf(q) \in Files
    BY DEF OutputOf, Files
  <1> QED
    BY <1>1, <1>2, <1>3, ExclusiveFacts DEF TypeInv

\* What each call does to the file of its output name.
LEMMA ExclusiveCalls ==
    ASSUME CommandInv, NEW p \in Others, ExclusiveStep(p),
           NEW out, out = OutputOf(p)
    PROVE  \/ /\ proc[p].at = "create" /\ proc'[p].at = "failed"
              /\ disk'[out] = disk[out] /\ owner'[out] = owner[out]
           \/ /\ proc[p].at = "create" /\ proc'[p].at = "created" /\ proc'[p].got = proc[p].got
              /\ disk[out] = NoFile /\ disk'[out] = Torn /\ owner'[out] = p
           \/ /\ proc[p].at = "created" /\ proc'[p].at = "written" /\ proc'[p].got = proc[p].got
              /\ disk'[out] = IF owner[out] = p THEN proc[p].got ELSE disk[out]
              /\ owner'[out] = owner[out]
           \/ /\ proc[p].at = "written" /\ proc'[p].at = "synced" /\ proc'[p].got = proc[p].got
              /\ disk'[out] = disk[out] /\ owner'[out] = owner[out]
           \/ /\ proc[p].at = "synced" /\ proc'[p].at = "ok" /\ proc'[p].got = proc[p].got
              /\ disk'[out] = disk[out] /\ owner'[out] = owner[out]
           \/ /\ proc[p].at \in { "created", "written", "synced" } /\ proc'[p].at = "remove"
              /\ proc'[p].got = proc[p].got
              /\ disk'[out] = disk[out] /\ owner'[out] = owner[out]
           \/ /\ proc[p].at = "remove" /\ proc'[p].at = "failed"
              /\ disk'[out] = NoFile /\ owner'[out] = NoFile
  <1>1. TypeInv /\ p \in Processes /\ out \in Files
    BY DEF CommandInv, Processes, OutputOf, Files
  <1>2. /\ disk \in [ Files -> Version ] /\ owner \in [ Files -> Others \cup {NoFile} ]
    BY <1>1 DEF TypeInv
  <1>3. Fail(p) => proc'[p].at = "failed"
    BY <1>1, FailFacts DEF Fresh
  <1>4. ASSUME NEW place \in Exclusive \cup {"ok"}, At(p, place)
        PROVE  proc'[p].at = place /\ proc'[p].got = proc[p].got
    <2>1. place \in Places
      BY DEF Places, Ended
    <2> QED
      BY <1>1, <1>4, <2>1, AtFacts
  <1>5. { "created", "written", "synced", "remove", "ok" } = Exclusive \cup {"ok"}
    BY DEF Exclusive
  <1>6. CASE CreateExclusive(p)
    BY <1>1, <1>2, <1>3, <1>4, <1>5, <1>6 DEF CreateExclusive
  <1>7. CASE WriteExclusive(p)
    BY <1>1, <1>2, <1>4, <1>5, <1>7 DEF WriteExclusive
  <1>8. CASE SyncExclusive(p)
    BY <1>4, <1>5, <1>8 DEF SyncExclusive
  <1>9. CASE CloseExclusive(p)
    BY <1>4, <1>5, <1>9 DEF CloseExclusive
  <1>10. CASE RemoveExclusive(p)
    BY <1>1, <1>2, <1>3, <1>10 DEF RemoveExclusive
  <1> QED
    BY <1>6, <1>7, <1>8, <1>9, <1>10 DEF ExclusiveStep

LEMMA OwnerStep ==
    ASSUME CommandInv, OwnerInv, [Next]_vars
    PROVE  OwnerInv'
  <1>1. TypeInv /\ Others \subseteq Processes /\ NoFile \notin Others
    BY NamesAssumption DEF CommandInv, Processes
  <1>2. ASSUME NEW p \in Others, ExclusiveStep(p) PROVE OwnerInv'
    <2> DEFINE out == OutputOf(p)
    <2> SUFFICES ASSUME NEW q \in Others, proc'[q].at \in Exclusive, owner'[OutputOf(q)] = q
                 PROVE  /\ disk'[OutputOf(q)] \in { Torn, proc'[q].got }
                        /\ proc'[q].at \in { "written", "synced" } =>
                              disk'[OutputOf(q)] = proc'[q].got
      BY DEF OwnerInv
    <2>1. CASE q # p /\ OutputOf(q) # out
      BY <1>2, <2>1, ExclusiveFrame DEF OwnerInv
    <2>2. CASE q # p /\ OutputOf(q) = out
      <3>1. proc'[q] = proc[q]
        BY <1>2, <2>2, ExclusiveFrame
      <3>2. disk'[out] = disk[out] /\ owner[out] = q
        BY <1>1, <1>2, <2>2, ExclusiveCalls
      <3> QED
        BY <2>2, <3>1, <3>2 DEF OwnerInv
    <2>3. CASE q = p
      BY <1>2, <2>3, ExclusiveCalls DEF OwnerInv, Exclusive
    <2> QED
      BY <2>1, <2>2, <2>3
  <1>3. ASSUME NEW file \in DOMAIN Scenarios[scenario].alternatives, Replace(file)
        PROVE  OwnerInv'
    <2>1. PICK version : /\ disk' = [ disk EXCEPT ![file] = version ]
                         /\ owner' = [ owner EXCEPT ![file] = NoFile ]
                         /\ UNCHANGED proc
      BY <1>3 DEF Replace
    <2>2. \A q \in Others : OutputOf(q) \in Files
      BY DEF OutputOf, Files
    <2>3. \A f \in Files : owner'[f] = NoFile \/ (owner'[f] = owner[f] /\ disk'[f] = disk[f])
      BY <1>1, <2>1 DEF TypeInv
    <2> QED
      BY <1>1, <2>1, <2>2, <2>3 DEF OwnerInv
  <1>4. ASSUME Next, ~\E p \in Others : ExclusiveStep(p),
               ~\E file \in DOMAIN Scenarios[scenario].alternatives : Replace(file)
        PROVE  OwnerInv'
    BY <1>1, <1>4, DiskStays, OthersStayOut DEF OwnerInv, StaysOut
  <1>5. CASE UNCHANGED vars
    BY <1>5 DEF vars, OwnerInv
  <1> QED
    BY <1>2, <1>3, <1>4, <1>5

\* While nobody else touches an output file, commands that write to the same path do not harm
\* each other: one that was not displaced is the only one, so that what it writes
\* and what it removes by name is the file it created itself.
THEOREM FinishedOutputStaysAlways == Spec => FinishedOutputStays
  <1>1. Init => OwnerInv
    <2> SUFFICES ASSUME Init PROVE \A p \in Others : proc[p].at \notin Exclusive
      BY DEF OwnerInv
    <2> QED
      BY DEF Init, Processes, Fresh, Exclusive
  <1>2. CommandInv /\ OwnerInv /\ [Next]_vars => OwnerInv'
    BY OwnerStep
  <1>3. Spec => []OwnerInv
    BY <1>1, <1>2, CommandInvariant, PTL DEF Spec
  <1> DEFINE Stays == \A file \in Outputs :
                Displaced(file) = {} /\ replaced' = replaced =>
                    /\ disk[file] # NoFile /\ Creators(file) = {} => disk'[file] = disk[file]
                    /\ \A p \in Creators(file) : proc'[p].at = "ok" => disk'[file] = proc[p].got
                    /\ Displaced(file)' = {}
  <1>4. CommandInv /\ OwnerInv /\ [Next]_vars => [Stays]_vars
    <2> SUFFICES ASSUME CommandInv, OwnerInv, Next, NEW file \in Outputs,
                        Displaced(file) = {}, replaced' = replaced
                 PROVE  /\ disk[file] # NoFile /\ Creators(file) = {} => disk'[file] = disk[file]
                        /\ \A p \in Creators(file) : proc'[p].at = "ok" => disk'[file] = proc[p].got
                        /\ Displaced(file)' = {}
      OBVIOUS
    <2>1. TypeInv /\ file \in Files /\ Others \subseteq Processes
      BY DEF CommandInv, Outputs, Files, Processes
    <2>2. /\ \A q \in Others : q \in Creators(file) <=> OutputOf(q) = file /\ proc[q].at \in Exclusive
          /\ \A q \in Creators(file) : q \in Others /\ owner[file] = q
          /\ Creators(file)' \subseteq Others
          /\ \A q \in Others :
                q \in Creators(file)' <=> OutputOf(q) = file /\ proc'[q].at \in Exclusive
          /\ Displaced(file)' = { q \in Creators(file)' : owner'[file] # q }
      BY DEF Displaced, Creators
    <2>3. ASSUME NEW p \in Others, ExclusiveStep(p), OutputOf(p) # file
          PROVE  /\ disk'[file] = disk[file]
                 /\ \A q \in Creators(file) : proc'[q].at # "ok"
                 /\ Displaced(file)' = {}
      <3>1. disk'[file] = disk[file] /\ owner'[file] = owner[file]
        BY <2>1, <2>3, ExclusiveFrame
      <3>2. \A q \in Others : OutputOf(q) = file => proc'[q] = proc[q]
        BY <2>3, ExclusiveFrame
      <3> QED
        BY <2>2, <3>1, <3>2 DEF Exclusive
    <2>4. ASSUME NEW p \in Others, ExclusiveStep(p), OutputOf(p) = file
          PROVE  /\ disk[file] # NoFile /\ Creators(file) = {} => disk'[file] = disk[file]
                 /\ \A q \in Creators(file) : proc'[q].at = "ok" => disk'[file] = proc[q].got
                 /\ Displaced(file)' = {}
      <3>1. \A q \in Others \ {p} : proc'[q] = proc[q]
        BY <2>4, ExclusiveFrame
      <3>2. CASE proc[p].at = "create" /\ proc'[p].at = "failed"
        BY <2>2, <2>4, <3>1, <3>2, ExclusiveCalls DEF Exclusive
      <3>3. CASE proc[p].at = "create" /\ proc'[p].at # "failed"
        <4>1. disk[file] = NoFile /\ owner'[file] = p /\ proc'[p].at = "created"
          BY <2>4, <3>3, ExclusiveCalls
        <4>2. Creators(file) = {}
          BY <2>2, <4>1, OwnedIsThere
        <4> QED
          BY <2>2, <3>1, <4>1, <4>2
      <3>4. CASE proc[p].at \in Exclusive
        <4>1. Creators(file) = {p} /\ owner[file] = p
          BY <2>2, <2>4, <3>4
        <4>2. proc'[p].at = "ok" => disk'[file] = proc[p].got
          BY <2>4, <4>1, ExclusiveCalls DEF OwnerInv, Exclusive
        <4>3. proc'[p].at \in Exclusive => owner'[file] = p
          BY <2>4, <3>4, <4>1, ExclusiveCalls DEF Exclusive
        <4> QED
          BY <2>2, <3>1, <4>1, <4>2, <4>3
      <3> QED
        BY <2>4, <3>2, <3>3, <3>4, ExclusiveFacts DEF Creating
    <2>5. ~\E f \in DOMAIN Scenarios[scenario].alternatives : Replace(f)
      <3>1. replaced \in Int
        BY <2>1, ScenariosAssumption DEF TypeInv
      <3> QED
        BY <3>1 DEF Replace
    <2>6. ASSUME ~\E p \in Others : ExclusiveStep(p)
          PROVE  /\ disk'[file] = disk[file]
                 /\ \A q \in Creators(file) : proc'[q].at # "ok"
                 /\ Displaced(file)' = {}
      <3>1. UNCHANGED << disk, owner >> /\ StaysOut
        BY <2>5, <2>6, DiskStays, OthersStayOut
      <3> QED
        BY <2>1, <2>2, <3>1 DEF StaysOut, Exclusive
    <2> QED
      BY <2>3, <2>4, <2>6
  <1>5. Spec => [][Stays]_vars
    BY <1>3, <1>4, CommandInvariant, PTL DEF Spec
  <1> QED
    BY <1>5 DEF FinishedOutputStays

-----------------------------------------------------------------------------
(* Assemblers that share a directory                                       *)

Resting == Ended \cup {"idle"}

\* Assemblers with part n open, and those that have renamed it.
Holders(n) == { a \in Assemblers : proc[a].at \in Holding /\ proc[a].fd.part = n }
Renamers(n) == { a \in Assemblers : proc[a].at \in Writing \cup {"ok"} /\ n \notin proc[a].todo }

SomeFailed == \E a \in Assemblers : proc[a].at = "failed"

\* Two assemblers met at one .tmp: a rename will fail.
Collision(n) ==
    \/ temp[n] = NoFile /\ Holders(n) # {}
    \/ \E a, b \in Holders(n) : a # b

\* The published file is a whole document of one that renamed it.
PublishedBy(n) ==
    \/ final[n] = NoFile /\ Renamers(n) = {}
    \/ \E c \in Renamers(n) : final[n] = << c, n >> /\ content[<< c, n >>] = proc[c].got

\* At most one assembler writes the .tmp, which it created.
WrittenBy(n) ==
    \/ Holders(n) = {} /\ temp[n] = NoFile
    \/ \E a \in Holders(n) :
          /\ \A b \in Holders(n) : b = a
          /\ temp[n] = << a, n >> /\ proc[a].fd.inode = << a, n >>
          /\ proc[a].at = "opened" => content[<< a, n >>] = Torn
          /\ proc[a].at = "filled" => content[<< a, n >>] = proc[a].got

BundleInv ==
    SomeFailed \/ \A n \in PartNames : Collision(n) \/ (PublishedBy(n) /\ WrittenBy(n))

\* One process moves at a time, and only one that has not ended.
LEMMA OneMoves ==
    ASSUME CommandInv, Next
    PROVE  \/ UNCHANGED proc
           \/ \E p \in Processes : /\ proc[p].at \notin Resting
                                   /\ \A q \in Processes \ {p} : proc'[q] = proc[q]
  <1> DEFINE Goal == \/ UNCHANGED proc
                     \/ \E p \in Processes : /\ proc[p].at \notin Resting
                                             /\ \A q \in Processes \ {p} : proc'[q] = proc[q]
  <1>1. TypeInv /\ Assemblers \subseteq Processes /\ Others \subseteq Processes
    BY DEF CommandInv, Processes
  <1>2. ASSUME NEW p \in Processes, proc[p].at \notin Resting,
               \A q \in Processes \ {p} : proc'[q] = proc[q]
        PROVE  Goal
    BY <1>2
  <1>3. ASSUME NEW p \in Processes, Fail(p) PROVE \A q \in Processes \ {p} : proc'[q] = proc[q]
    BY <1>1, <1>3 DEF Fail, TypeInv
  <1>4. ASSUME NEW p \in Processes, NEW place, At(p, place)
        PROVE  \A q \in Processes \ {p} : proc'[q] = proc[q]
    BY <1>1, <1>4 DEF At, TypeInv
  <1> HIDE DEF Goal
  <1>5. ASSUME NEW p \in Processes, ReadInput(p) PROVE Goal
    <2>1. \A q \in Processes \ {p} : proc'[q] = proc[q]
      BY <1>1, <1>3, <1>5 DEF ReadInput, TypeInv
    <2>2. proc[p].at \notin Resting
      BY <1>5 DEF ReadInput, Resting, Ended
    <2> QED
      BY <1>2, <2>1, <2>2
  <1>6. ASSUME NEW p \in Processes, Stop(p) PROVE Goal
    BY <1>2, <1>3, <1>6 DEF Stop, Resting
  <1>7. ASSUME NEW a \in Assemblers, AssembleCommand(a) PROVE Goal
    <2>1. \A q \in Processes \ {a} : proc'[q] = proc[q]
      BY <1>1, <1>3, <1>7 DEF AssembleCommand, TypeInv
    <2>2. proc[a].at \notin Resting
      BY <1>7 DEF AssembleCommand, Resting, Ended
    <2> QED
      BY <1>1, <1>2, <2>1, <2>2
  <1>8. ASSUME NEW a \in Assemblers, OpenTemp(a) PROVE Goal
    <2>1. \A q \in Processes \ {a} : proc'[q] = proc[q]
      BY <1>1, <1>8 DEF OpenTemp, Opened, TypeInv
    <2>2. proc[a].at \notin Resting
      BY <1>8 DEF OpenTemp, Resting, Ended
    <2> QED
      BY <1>1, <1>2, <2>1, <2>2
  <1>9. ASSUME NEW a \in Assemblers, FillTemp(a) PROVE Goal
    <2>1. \A q \in Processes \ {a} : proc'[q] = proc[q]
      BY <1>1, <1>4, <1>9 DEF FillTemp
    <2>2. proc[a].at \notin Resting
      BY <1>9 DEF FillTemp, Resting, Ended
    <2> QED
      BY <1>1, <1>2, <2>1, <2>2
  <1>10. ASSUME NEW a \in Assemblers, RenameTemp(a) PROVE Goal
    <2>1. \A q \in Processes \ {a} : proc'[q] = proc[q]
      BY <1>1, <1>3, <1>10 DEF RenameTemp, Renamed, TypeInv
    <2>2. proc[a].at \notin Resting
      BY <1>10 DEF RenameTemp, Resting, Ended
    <2> QED
      BY <1>1, <1>2, <2>1, <2>2
  <1>11. ASSUME NEW p \in Others, LoadPart(p) PROVE Goal
    <2>1. \A q \in Processes \ {p} : proc'[q] = proc[q]
      BY <1>1, <1>3, <1>11 DEF LoadPart, TypeInv
    <2>2. proc[p].at \notin Resting
      BY <1>11 DEF LoadPart, Resting, Ended
    <2> QED
      BY <1>1, <1>2, <2>1, <2>2
  <1>12. ASSUME NEW p \in Others, VerifyCommand(p) PROVE Goal
    <2>1. \A q \in Processes \ {p} : proc'[q] = proc[q]
      BY <1>1, <1>12 DEF VerifyCommand, TypeInv
    <2>2. proc[p].at \notin Resting
      BY <1>12 DEF VerifyCommand, Resting, Ended
    <2> QED
      BY <1>1, <1>2, <2>1, <2>2
  <1>13. ASSUME NEW p \in Others, ValidateEvents(p) PROVE Goal
    <2>1. \A q \in Processes \ {p} : proc'[q] = proc[q]
      BY <1>1, <1>3, <1>4, <1>13 DEF ValidateEvents
    <2>2. proc[p].at \notin Resting
      BY <1>13 DEF ValidateEvents, Resting, Ended
    <2> QED
      BY <1>1, <1>2, <2>1, <2>2
  <1>14. ASSUME NEW p \in Others, ExclusiveStep(p) PROVE Goal
    <2>1. \A q \in Processes \ {p} : proc'[q] = proc[q]
      BY <1>1, <1>3, <1>4, <1>14, ExclusiveFacts
    <2>2. proc[p].at \notin Resting
      BY <1>14, ExclusiveFacts DEF Creating, Exclusive, Resting, Ended
    <2> QED
      BY <1>1, <1>2, <2>1, <2>2
  <1>15. ASSUME NEW file, Replace(file) PROVE Goal
    BY <1>15 DEF Replace, Goal
  <1>16. Goal
    BY <1>5, <1>6, <1>7, <1>8, <1>9, <1>10, <1>11, <1>12, <1>13, <1>14, <1>15
       DEF Next, ExclusiveStep
  <1> QED
    BY <1>16 DEF Goal

\* A process that has ended, or was never started, stays so.
LEMMA RestStays ==
    ASSUME CommandInv, [Next]_vars, NEW p \in Processes, proc[p].at \in Resting
    PROVE  proc'[p] = proc[p]
  <1>1. CASE UNCHANGED vars
    BY <1>1 DEF vars
  <1>2. CASE Next
    BY <1>2, OneMoves
  <1> QED
    BY <1>1, <1>2

\* Steps of an assembler before it writes, of the others and of the environment.
LEMMA BundleFrame ==
    ASSUME BundleInv, UNCHANGED << final, temp, content >>,
           \A a \in Assemblers :
              \/ proc'[a] = proc[a]
              \/ /\ proc[a].at \notin Writing \cup Ended
                 /\ proc'[a].at \notin Holding \cup {"ok"}
                 /\ proc'[a].at = "write" => proc'[a].todo = PartNames
    PROVE  BundleInv'
  <1>1. CASE SomeFailed
    <2>1. SomeFailed'
      BY <1>1 DEF SomeFailed, Ended
    <2> QED
      BY <2>1 DEF BundleInv
  <1>2. CASE ~SomeFailed
    <2> SUFFICES ASSUME NEW n \in PartNames
                 PROVE  Collision(n)' \/ (PublishedBy(n)' /\ WrittenBy(n)')
      BY DEF BundleInv
    <2>1. Collision(n) \/ (PublishedBy(n) /\ WrittenBy(n))
      BY <1>2 DEF BundleInv
    <2>2. Holders(n)' = Holders(n) /\ \A a \in Holders(n) : proc'[a] = proc[a]
      BY DEF Holders, Holding, Writing
    <2>3. Renamers(n)' = Renamers(n) /\ \A a \in Renamers(n) : proc'[a] = proc[a]
      BY DEF Renamers, Writing, Holding, Ended
    <2>4. Collision(n) => Collision(n)'
      BY <2>2 DEF Collision
    <2>5. PublishedBy(n) => PublishedBy(n)'
      BY <2>3 DEF PublishedBy
    <2>6. WrittenBy(n) => WrittenBy(n)'
      BY <2>2 DEF WrittenBy
    <2> QED
      BY <2>1, <2>4, <2>5, <2>6
  <1> QED
    BY <1>1, <1>2

\* A failed assembler stays failed.
LEMMA FailureStays ==
    ASSUME CommandInv, [Next]_vars, SomeFailed
    PROVE  SomeFailed'
  BY RestStays DEF SomeFailed, Resting, Ended, Processes

\* The parts an assembler does not touch.
LEMMA PartFrame ==
    ASSUME NEW n \in PartNames, Collision(n) \/ (PublishedBy(n) /\ WrittenBy(n)),
           final'[n] = final[n], temp'[n] = temp[n],
           \A c \in Assemblers : content'[<< c, n >>] = content[<< c, n >>],
           Holders(n)' = Holders(n), Renamers(n)' = Renamers(n),
           \A a \in Holders(n) : proc'[a] = proc[a],
           \A a \in Renamers(n) : proc'[a].got = proc[a].got
    PROVE  Collision(n)' \/ (PublishedBy(n)' /\ WrittenBy(n)')
  <1>1. Collision(n) => Collision(n)'
    BY DEF Collision
  <1>2. PublishedBy(n) => PublishedBy(n)'
    BY DEF PublishedBy, Renamers
  <1>3. WrittenBy(n) => WrittenBy(n)'
    BY DEF WrittenBy, Holders
  <1> QED
    BY <1>1, <1>2, <1>3

LEMMA BundleOpen ==
    ASSUME CommandInv, BundleInv, ~SomeFailed, NEW a \in Assemblers, OpenTemp(a)
    PROVE  BundleInv'
  <1>1. /\ TypeInv /\ NamesInv /\ a \in Processes /\ UNCHANGED final /\ proc[a].at = "write"
        /\ WriteStage(a) /\ Assemblers \subseteq Processes
    BY DEF CommandInv, OpenTemp, Processes, StageInv
  <1>2. PICK part \in proc[a].todo, inode \in Inodes :
          /\ part \in PartNames
          /\ inode = IF temp[part] = NoFile THEN << a, part >> ELSE temp[part]
          /\ inode[2] = part
          /\ temp' = [ temp EXCEPT ![part] = inode ]
          /\ content' = [ content EXCEPT ![inode] = Torn ]
          /\ Moves(a, [ proc[a] EXCEPT !.at = "opened",
                                       !.fd = [ part |-> part, inode |-> inode ] ])
          /\ proc'[a].at = "opened"
          /\ proc'[a].fd = [ part |-> part, inode |-> inode ]
          /\ proc'[a].got = proc[a].got /\ proc'[a].todo = proc[a].todo
          /\ proc'[a].loaded = proc[a].loaded /\ proc'[a].outcome = proc[a].outcome
    BY OpenFacts
  <1>3. \A b \in Assemblers \ {a} : proc'[b] = proc[b]
    BY <1>1, <1>2, MoveFacts DEF TypeInv
  <1>4. temp'[part] = inode /\ \A n \in PartNames \ {part} : temp'[n] = temp[n]
    BY <1>1, <1>2 DEF TypeInv
  <1>5. /\ content'[inode] = Torn
        /\ \A i \in Inodes : i # inode => content'[i] = content[i]
    BY <1>1, <1>2 DEF TypeInv
  <1>6. \A n \in PartNames : Renamers(n)' = Renamers(n)
    BY <1>1, <1>2, <1>3 DEF Renamers, Writing, Holding
  <1>7. \A c \in Assemblers : proc'[c].got = proc[c].got
    BY <1>2, <1>3
  <1>8. Holders(part)' = Holders(part) \cup {a} /\ a \notin Holders(part)
    BY <1>1, <1>2, <1>3 DEF Holders, Holding
  <1> SUFFICES ASSUME NEW n \in PartNames
               PROVE  Collision(n)' \/ (PublishedBy(n)' /\ WrittenBy(n)')
    BY DEF BundleInv
  <1>9. Collision(n) \/ (PublishedBy(n) /\ WrittenBy(n))
    BY DEF BundleInv
  <1>10. CASE n # part
    <2>1. Holders(n)' = Holders(n) /\ \A b \in Holders(n) : proc'[b] = proc[b]
      BY <1>1, <1>2, <1>3, <1>10 DEF Holders, Holding
    <2>2. \A c \in Assemblers : content'[<< c, n >>] = content[<< c, n >>]
      <3>1. ASSUME NEW c \in Assemblers PROVE << c, n >> \in Inodes /\ << c, n >> # inode
        BY <1>2, <1>10 DEF Inodes
      <3> QED
        BY <1>5, <3>1
    <2>3. \A c \in Renamers(n) : proc'[c].got = proc[c].got
      BY <1>7 DEF Renamers
    <2> QED
      BY <1>1, <1>4, <1>6, <1>9, <1>10, <2>1, <2>2, <2>3, PartFrame
  <1>11. CASE n = part
    <2>1. CASE Holders(n) # {}
      <3>1. \E b \in Holders(n)' : b # a
        BY <1>8, <1>11, <2>1
      <3> QED
        BY <1>8, <1>11, <3>1 DEF Collision
    <2>2. CASE Holders(n) = {}
      <3>1. PublishedBy(n) /\ WrittenBy(n) /\ temp[n] = NoFile
        BY <1>9, <2>2 DEF Collision, WrittenBy
      <3>2. inode = << a, n >>
        BY <1>2, <1>11, <3>1
      <3>3. WrittenBy(n)'
        <4>1. a \in Holders(n)' /\ \A b \in Holders(n)' : b = a
          BY <1>8, <1>11, <2>2
        <4>2. temp'[n] = << a, n >> /\ proc'[a].fd.inode = << a, n >>
          BY <1>2, <1>4, <1>11, <3>2
        <4> QED
          BY <1>2, <1>5, <3>2, <4>1, <4>2 DEF WrittenBy
      <3>4. PublishedBy(n)'
        <4>1. CASE final[n] = NoFile /\ Renamers(n) = {}
          BY <1>1, <1>6, <4>1 DEF PublishedBy
        <4>2. ASSUME NEW c \in Renamers(n), final[n] = << c, n >>, content[<< c, n >>] = proc[c].got
              PROVE  PublishedBy(n)'
          <5>1. c \in Assemblers /\ c # a
            BY <1>2, <1>11 DEF Renamers
          <5>2. << c, n >> \in Inodes /\ << c, n >> # inode
            BY <3>2, <5>1 DEF Inodes
          <5>3. content'[<< c, n >>] = proc'[c].got
            BY <1>5, <1>7, <4>2, <5>1, <5>2
          <5> QED
            BY <1>1, <1>6, <4>2, <5>3 DEF PublishedBy
        <4> QED
          BY <3>1, <4>1, <4>2 DEF PublishedBy
      <3> QED
        BY <3>3, <3>4
    <2> QED
      BY <2>1, <2>2
  <1> QED
    BY <1>10, <1>11

LEMMA BundleFill ==
    ASSUME CommandInv, BundleInv, ~SomeFailed, NEW a \in Assemblers, FillTemp(a)
    PROVE  BundleInv'
  <1> DEFINE part == proc[a].fd.part
             inode == proc[a].fd.inode
             got == proc[a].got
  <1>1. /\ TypeInv /\ NamesInv /\ a \in Processes /\ UNCHANGED << final, temp >>
        /\ proc[a].at = "opened" /\ At(a, "filled")
        /\ WriteStage(a) /\ Assemblers \subseteq Processes
    BY DEF CommandInv, FillTemp, Processes, StageInv
  <1>2. /\ part \in PartNames /\ inode \in Inodes /\ inode[2] = part /\ part \in proc[a].todo
    BY <1>1 DEF WriteStage, Holding, Handle
  <1>3. /\ Moves(a, [ proc[a] EXCEPT !.at = "filled" ])
        /\ proc'[a].at = "filled"
        /\ proc'[a].got = proc[a].got /\ proc'[a].todo = proc[a].todo
        /\ proc'[a].fd = proc[a].fd
    <2>1. "filled" \in Places
      BY DEF Places
    <2> QED
      BY <1>1, <2>1, AtFacts
  <1>4. \A b \in Assemblers \ {a} : proc'[b] = proc[b]
    BY <1>1, <1>3, MoveFacts DEF TypeInv
  <1>5. PICK result : /\ content' = [ content EXCEPT ![inode] = result ]
                      /\ content[inode] = Torn => result = got
    BY DEF FillTemp
  <1>6. /\ content'[inode] = result
        /\ \A i \in Inodes : i # inode => content'[i] = content[i]
    BY <1>1, <1>2, <1>5 DEF TypeInv
  <1>7. \A n \in PartNames : Renamers(n)' = Renamers(n) /\ Holders(n)' = Holders(n)
    BY <1>1, <1>3, <1>4 DEF Renamers, Holders, Writing, Holding
  <1>8. \A c \in Assemblers : proc'[c].got = proc[c].got
    BY <1>3, <1>4
  <1>9. a \in Holders(part)
    BY <1>1 DEF Holders, Holding
  <1> SUFFICES ASSUME NEW n \in PartNames
               PROVE  Collision(n)' \/ (PublishedBy(n)' /\ WrittenBy(n)')
    BY DEF BundleInv
  <1>10. Collision(n) \/ (PublishedBy(n) /\ WrittenBy(n))
    BY DEF BundleInv
  <1>11. part = proc[a].fd.part /\ inode = proc[a].fd.inode /\ got = proc[a].got
    OBVIOUS
  <1> HIDE DEF part, inode, got
  <1>12. CASE n # part
    <2>1. \A b \in Holders(n) : proc'[b] = proc[b]
      BY <1>4, <1>11, <1>12 DEF Holders
    <2>2. \A c \in Assemblers : content'[<< c, n >>] = content[<< c, n >>]
      <3>1. ASSUME NEW c \in Assemblers PROVE << c, n >> \in Inodes /\ << c, n >> # inode
        BY <1>2, <1>12 DEF Inodes
      <3> QED
        BY <1>6, <3>1
    <2>3. \A c \in Renamers(n) : proc'[c].got = proc[c].got
      BY <1>8 DEF Renamers
    <2> QED
      BY <1>1, <1>7, <1>10, <2>1, <2>2, <2>3, PartFrame
  <1>13. CASE n = part
    <2>1. CASE Collision(n)
      BY <1>1, <1>7, <2>1 DEF Collision
    <2>2. CASE PublishedBy(n) /\ WrittenBy(n)
      <3>1. /\ \A b \in Holders(n) : b = a
            /\ temp[n] = << a, n >> /\ inode = << a, n >>
            /\ content[<< a, n >>] = Torn
        BY <1>1, <1>9, <1>11, <1>13, <2>2 DEF WrittenBy
      <3>2. content'[<< a, n >>] = proc'[a].got
        BY <1>3, <1>5, <1>6, <1>11, <3>1
      <3>3. WrittenBy(n)'
        BY <1>1, <1>3, <1>7, <1>9, <1>11, <1>13, <3>1, <3>2 DEF WrittenBy
      <3>4. PublishedBy(n)'
        <4>1. CASE final[n] = NoFile /\ Renamers(n) = {}
          BY <1>1, <1>7, <4>1 DEF PublishedBy
        <4>2. ASSUME NEW c \in Renamers(n), final[n] = << c, n >>, content[<< c, n >>] = proc[c].got
              PROVE  PublishedBy(n)'
          <5>1. c \in Assemblers /\ c # a
            BY <1>2, <1>13 DEF Renamers
          <5>2. << c, n >> \in Inodes /\ << c, n >> # inode
            BY <3>1, <5>1 DEF Inodes
          <5>3. content'[<< c, n >>] = proc'[c].got
            BY <1>6, <1>8, <4>2, <5>1, <5>2
          <5> QED
            BY <1>1, <1>7, <4>2, <5>3 DEF PublishedBy
        <4> QED
          BY <2>2, <4>1, <4>2 DEF PublishedBy
      <3> QED
        BY <3>3, <3>4
    <2> QED
      BY <1>10, <2>1, <2>2
  <1> QED
    BY <1>12, <1>13

LEMMA BundleRename ==
    ASSUME CommandInv, BundleInv, ~SomeFailed, NEW a \in Assemblers, RenameTemp(a), ~Fail(a)
    PROVE  BundleInv'
  <1> DEFINE rest == proc[a].todo \ {proc[a].fd.part}
             place == IF rest = {} THEN "ok" ELSE "write"
  <1>0. PICK part : part = proc[a].fd.part
    OBVIOUS
  <1>1. /\ TypeInv /\ NamesInv /\ a \in Processes /\ UNCHANGED content
        /\ proc[a].at = "filled"
        /\ temp[part] # NoFile
        /\ final' = [ final EXCEPT ![part] = temp[part] ]
        /\ temp' = [ temp EXCEPT ![part] = NoFile ]
        /\ Renamed(a)
        /\ WriteStage(a) /\ Assemblers \subseteq Processes
    BY <1>0 DEF CommandInv, RenameTemp, Processes, StageInv
  <1>2. part \in PartNames /\ part \in proc[a].todo
    BY <1>0, <1>1 DEF WriteStage, Holding, Handle
  <1>3. /\ Moves(a, [ proc[a] EXCEPT !.todo = rest, !.fd = NoFile, !.at = place ])
        /\ proc'[a].at = place
        /\ proc'[a].got = proc[a].got /\ proc'[a].todo = rest
    BY <1>1, RenameFacts
  <1>4. \A b \in Assemblers \ {a} : proc'[b] = proc[b]
    BY <1>1, <1>3, MoveFacts DEF TypeInv
  <1>5. /\ final'[part] = temp[part] /\ temp'[part] = NoFile
        /\ \A n \in PartNames : n # part => final'[n] = final[n] /\ temp'[n] = temp[n]
    BY <1>1, <1>2 DEF TypeInv
  <1>6. place \in { "ok", "write" }
    OBVIOUS
  <1>7. rest = proc[a].todo \ {part} /\ part = proc[a].fd.part
    BY <1>0
  <1> HIDE DEF place, rest
  <1>8. Holders(part)' = Holders(part) \ {a} /\ a \in Holders(part)
    BY <1>1, <1>3, <1>4, <1>6, <1>7 DEF Holders, Holding
  <1>9. \A c \in Assemblers : proc'[c].got = proc[c].got
    BY <1>3, <1>4
  <1> SUFFICES ASSUME NEW n \in PartNames
               PROVE  Collision(n)' \/ (PublishedBy(n)' /\ WrittenBy(n)')
    BY DEF BundleInv
  <1>10. Collision(n) \/ (PublishedBy(n) /\ WrittenBy(n))
    BY DEF BundleInv
  <1>11. CASE n # part
    <2>1. Holders(n)' = Holders(n) /\ \A b \in Holders(n) : proc'[b] = proc[b]
      BY <1>1, <1>3, <1>4, <1>6, <1>7, <1>11 DEF Holders, Holding
    <2>2. Renamers(n)' = Renamers(n)
      BY <1>1, <1>3, <1>4, <1>6, <1>7, <1>11 DEF Renamers, Writing, Holding
    <2>3. \A c \in Renamers(n) : proc'[c].got = proc[c].got
      BY <1>9 DEF Renamers
    <2> QED
      BY <1>1, <1>5, <1>10, <1>11, <2>1, <2>2, <2>3, PartFrame
  <1>12. CASE n = part
    <2>1. CASE Collision(n)
      <3>1. PICK b \in Holders(n) : b # a
        BY <1>1, <1>12, <2>1 DEF Collision
      <3> QED
        BY <1>5, <1>8, <1>12, <3>1 DEF Collision
    <2>2. CASE PublishedBy(n) /\ WrittenBy(n)
      <3>1. /\ \A b \in Holders(n) : b = a
            /\ temp[n] = << a, n >> /\ content[<< a, n >>] = proc[a].got
        BY <1>1, <1>8, <1>12, <2>2 DEF WrittenBy
      <3>2. WrittenBy(n)'
        BY <1>5, <1>8, <1>12, <3>1 DEF WrittenBy
      <3>3. a \in Renamers(n)'
        BY <1>3, <1>6, <1>7, <1>12 DEF Renamers, Writing
      <3>4. PublishedBy(n)'
        BY <1>1, <1>3, <1>5, <1>12, <3>1, <3>3 DEF PublishedBy
      <3> QED
        BY <3>2, <3>4
    <2> QED
      BY <1>10, <2>1, <2>2
  <1> QED
    BY <1>11, <1>12

LEMMA BundleStep ==
    ASSUME CommandInv, BundleInv, [Next]_vars
    PROVE  BundleInv'
  <1>1. /\ TypeInv /\ Assemblers \subseteq Processes /\ Others \subseteq Processes
        /\ Assemblers \cap Others = {}
    BY CommandAssumption DEF CommandInv, Processes
  <1>2. CASE SomeFailed
    BY <1>2, FailureStays DEF BundleInv
  <1>3. CASE SomeFailed'
    BY <1>3 DEF BundleInv
  <1>4. CASE ~SomeFailed /\ ~SomeFailed'
    <2>1. ASSUME NEW a \in Assemblers, Fail(a) PROVE FALSE
      <3>1. proc'[a].at = "failed"
        BY <1>1, <2>1, FailFacts DEF Fresh
      <3> QED
        BY <1>4, <3>1 DEF SomeFailed
    <2>2. ASSUME \A a \in Assemblers : proc'[a] = proc[a], UNCHANGED << final, temp, content >>
          PROVE  BundleInv'
      BY <2>2, BundleFrame
    <2>3. ASSUME NEW p \in Others, \A q \in Processes \ {p} : proc'[q] = proc[q],
                 UNCHANGED << final, temp, content >>
          PROVE  BundleInv'
      BY <1>1, <2>2, <2>3
    <2>4. ASSUME NEW a \in Assemblers, \A q \in Processes \ {a} : proc'[q] = proc[q],
                 UNCHANGED << final, temp, content >>,
                 proc[a].at \in { "read", "assemble" },
                 proc'[a].at \notin Holding \cup {"ok"},
                 proc'[a].at = "write" => proc'[a].todo = PartNames
          PROVE  BundleInv'
      <3>1. proc[a].at \notin Writing \cup Ended
        BY <2>4 DEF Writing, Holding, Ended
      <3> QED
        BY <1>1, <2>4, <3>1, BundleFrame
    <2>5. ASSUME NEW p \in Processes, Fail(p), UNCHANGED << final, temp, content >>
          PROVE  BundleInv'
      <3>1. p \in Others
        BY <2>1, <2>5 DEF Processes
      <3>2. \A q \in Processes \ {p} : proc'[q] = proc[q]
        BY <1>1, <2>5, FailFacts, MoveFacts DEF TypeInv
      <3> QED
        BY <2>3, <2>5, <3>1, <3>2
    <2>6. ASSUME NEW p \in Others, NEW place, At(p, place), UNCHANGED << final, temp, content >>
          PROVE  BundleInv'
      <3>1. \A q \in Processes \ {p} : proc'[q] = proc[q]
        BY <1>1, <2>6 DEF At, TypeInv
      <3> QED
        BY <2>3, <2>6, <3>1
    <2>7. ASSUME NEW p \in Processes, ReadInput(p) PROVE BundleInv'
      <3>1. UNCHANGED << final, temp, content >>
        BY <2>7 DEF ReadInput, directory
      <3>2. CASE Fail(p)
        BY <2>5, <3>1, <3>2
      <3>3. CASE ~Fail(p)
        <4> DEFINE count == Len(proc[p].got) + 1
                   place == IF count = Len(ReadOrder(p)) THEN AfterRead(p) ELSE "read"
                   version == disk[ReadOrder(p)[count]]
        <4>1. proc' = [ proc EXCEPT ![p].got = Append(@, version), ![p].at = place ]
          BY <2>7, <3>3 DEF ReadInput
        <4>2. place \notin Writing \cup {"ok"}
          BY AfterReadFacts DEF Writing, Holding, Ended
        <4> HIDE DEF place, version
        <4>3. \A q \in Processes \ {p} : proc'[q] = proc[q]
          BY <1>1, <4>1 DEF TypeInv
        <4>4. proc'[p].at = place
          BY <1>1, <4>1 DEF TypeInv, Process
        <4>5. CASE p \in Others
          BY <2>3, <3>1, <4>3, <4>5
        <4>6. CASE p \in Assemblers
          <5>1. proc[p].at = "read"
            BY <2>7 DEF ReadInput
          <5>2. proc'[p].at \notin Holding \cup { "ok", "write" }
            BY <4>2, <4>4 DEF Writing
          <5> QED
            BY <2>4, <3>1, <4>3, <4>6, <5>1, <5>2
        <4> QED
          BY <4>5, <4>6 DEF Processes
      <3> QED
        BY <3>2, <3>3
    <2>8. ASSUME NEW p \in Processes, Stop(p) PROVE BundleInv'
      BY <2>5, <2>8 DEF Stop, directory
    <2>9. ASSUME NEW a \in Assemblers, AssembleCommand(a) PROVE BundleInv'
      <3>1. /\ UNCHANGED << final, temp, content >>
            /\ proc[a].at = "assemble"
            /\ proc' = [ proc EXCEPT ![a].at = "write", ![a].todo = PartNames ]
        BY <2>1, <2>9 DEF AssembleCommand, directory
      <3>2. \A q \in Processes \ {a} : proc'[q] = proc[q]
        BY <1>1, <3>1 DEF TypeInv
      <3>3. proc'[a].at = "write" /\ proc'[a].todo = PartNames
        BY <1>1, <3>1 DEF TypeInv, Process
      <3> QED
        BY <2>4, <3>1, <3>2, <3>3 DEF Holding
    <2>10. ASSUME NEW a \in Assemblers, OpenTemp(a) PROVE BundleInv'
      BY <1>4, <2>10, BundleOpen
    <2>11. ASSUME NEW a \in Assemblers, FillTemp(a) PROVE BundleInv'
      BY <1>4, <2>11, BundleFill
    <2>12. ASSUME NEW a \in Assemblers, RenameTemp(a) PROVE BundleInv'
      BY <1>4, <2>1, <2>12, BundleRename
    <2>13. ASSUME NEW p \in Others, LoadPart(p) PROVE BundleInv'
      <3>1. UNCHANGED << final, temp, content >>
        BY <2>13 DEF LoadPart, directory
      <3>2. CASE Fail(p)
        BY <1>1, <2>5, <3>1, <3>2
      <3>3. CASE ~Fail(p)
        <4>1. \A q \in Processes \ {p} : proc'[q] = proc[q]
          BY <1>1, <2>13, <3>3 DEF LoadPart, TypeInv
        <4> QED
          BY <2>3, <3>1, <4>1
      <3> QED
        BY <3>2, <3>3
    <2>14. ASSUME NEW p \in Others, VerifyCommand(p) PROVE BundleInv'
      <3>1. UNCHANGED << final, temp, content >>
        BY <2>14 DEF VerifyCommand, directory
      <3>2. \A q \in Processes \ {p} : proc'[q] = proc[q]
        BY <1>1, <2>14 DEF VerifyCommand, TypeInv
      <3> QED
        BY <2>3, <3>1, <3>2
    <2>15. ASSUME NEW p \in Others, ValidateEvents(p) \/ ExclusiveStep(p)
           PROVE  BundleInv'
      <3>1. UNCHANGED << final, temp, content >>
        BY <1>1, <2>15, ExclusiveFacts DEF ValidateEvents, directory
      <3>2. Fail(p) \/ \E place : At(p, place)
        BY <1>1, <2>15, ExclusiveFacts DEF ValidateEvents
      <3> QED
        BY <1>1, <2>5, <2>6, <3>1, <3>2
    <2>16. ASSUME NEW file, Replace(file) PROVE BundleInv'
      BY <2>2, <2>16 DEF Replace, directory
    <2>17. CASE UNCHANGED vars
      BY <2>2, <2>17 DEF vars, directory
    <2> QED
      BY <2>7, <2>8, <2>9, <2>10, <2>11, <2>12, <2>13, <2>14, <2>15, <2>16, <2>17
         DEF Next, ExclusiveStep
  <1> QED
    BY <1>2, <1>3, <1>4

\* Assemblers that share a directory, and with it the names of their temporary
\* files, and all report success, left whole files of one of them: whenever two of
\* them met at a .tmp, one of the renames failed.
THEOREM SuccessMeansWholeAlways == Spec => []SuccessMeansWhole
  <1>1. Init => BundleInv
    <2> SUFFICES ASSUME Init, NEW n \in PartNames PROVE PublishedBy(n) /\ WrittenBy(n)
      BY DEF BundleInv
    <2>1. \A a \in Assemblers : proc[a].at \in { "read", "idle" }
      BY DEF Init, Processes, Fresh
    <2>2. Holders(n) = {} /\ Renamers(n) = {}
      BY <2>1 DEF Holders, Renamers, Writing, Holding
    <2>3. final[n] = NoFile /\ temp[n] = NoFile
      BY DEF Init
    <2> QED
      BY <2>2, <2>3 DEF PublishedBy, WrittenBy
  <1>2. CommandInv /\ BundleInv /\ [Next]_vars => BundleInv'
    BY BundleStep
  <1>3. CommandInv /\ BundleInv => SuccessMeansWhole
    <2> SUFFICES ASSUME CommandInv, BundleInv, Assembling # {},
                        \A a \in Assembling : proc[a].at = "ok",
                        NEW n \in PartNames
                 PROVE  content[final[n]] \in { proc[a].got : a \in Assembling }
      BY DEF SuccessMeansWhole
    <2>1. \A a \in Assemblers : proc[a].at \in { "idle", "ok" }
      BY DEF Assembling
    <2>2. ~SomeFailed /\ Holders(n) = {}
      BY <2>1 DEF SomeFailed, Holders, Holding
    <2>3. PublishedBy(n)
      BY <2>2 DEF BundleInv, Collision
    <2>4. \A a \in Assembling : proc[a].todo = {}
      BY DEF Assembling, CommandInv, StageInv, WriteStage, Writing, Holding, Processes
    <2>5. Renamers(n) = Assembling
      BY <2>1, <2>4 DEF Renamers, Assembling, Writing, Holding
    <2> QED
      BY <2>3, <2>5 DEF PublishedBy
  <1> QED
    BY <1>1, <1>2, <1>3, CommandInvariant, PTL DEF Spec

-----------------------------------------------------------------------------
(* One assembler at a time                                                 *)

Alone == Scenarios[scenario].assemblers = 1

SoleInv == \E a \in Assemblers : \A b \in Assemblers \ {a} : proc[b].at = "idle"

Early == { "read", "assemble" }

\* A part is published after it was written, and not written again.
TidyInv ==
    \A n \in PartNames :
        /\ final[n] # NoFile => content[final[n]] # Torn
        /\ \A a \in Assemblers : proc[a].at \in Early \/ n \in proc[a].todo => final[n] = NoFile
        /\ \A a \in Holders(n) :
              /\ temp[n] = proc[a].fd.inode
              /\ proc[a].at = "opened" => content[temp[n]] = Torn
              /\ proc[a].at = "filled" => content[temp[n]] # Torn

LEMMA TidyFrame ==
    ASSUME TidyInv, UNCHANGED << final, temp, content >>,
           \A a \in Assemblers :
              \/ proc'[a] = proc[a]
              \/ proc'[a].at = "failed" /\ proc'[a].todo = {}
              \/ proc[a].at \in Early /\ proc'[a].at \notin Holding
    PROVE  TidyInv'
  <1> SUFFICES ASSUME NEW n \in PartNames
               PROVE  /\ final'[n] # NoFile => content'[final'[n]] # Torn
                      /\ \A a \in Assemblers :
                            proc'[a].at \in Early \/ n \in proc'[a].todo => final'[n] = NoFile
                      /\ \A a \in Holders(n)' :
                            /\ temp'[n] = proc'[a].fd.inode
                            /\ proc'[a].at = "opened" => content'[temp'[n]] = Torn
                            /\ proc'[a].at = "filled" => content'[temp'[n]] # Torn
    BY DEF TidyInv
  <1>1. \A a \in Holders(n)' : a \in Holders(n) /\ proc'[a] = proc[a]
    BY DEF Holders, Holding
  <1>2. \A a \in Assemblers : proc'[a].at \in Early \/ n \in proc'[a].todo => final[n] = NoFile
    BY DEF TidyInv, Early
  <1> QED
    BY <1>1, <1>2 DEF TidyInv

LEMMA TidyOpen ==
    ASSUME CommandInv, TidyInv, SoleInv, NEW a \in Assemblers, OpenTemp(a)
    PROVE  TidyInv'
  <1>1. /\ TypeInv /\ NamesInv /\ a \in Processes /\ UNCHANGED final /\ proc[a].at = "write"
        /\ Assemblers \subseteq Processes
    BY DEF CommandInv, OpenTemp, Processes
  <1>2. PICK part \in proc[a].todo, inode \in Inodes :
          /\ part \in PartNames
          /\ inode = IF temp[part] = NoFile THEN << a, part >> ELSE temp[part]
          /\ inode[2] = part
          /\ temp' = [ temp EXCEPT ![part] = inode ]
          /\ content' = [ content EXCEPT ![inode] = Torn ]
          /\ Moves(a, [ proc[a] EXCEPT !.at = "opened",
                                       !.fd = [ part |-> part, inode |-> inode ] ])
          /\ proc'[a].at = "opened"
          /\ proc'[a].fd = [ part |-> part, inode |-> inode ]
          /\ proc'[a].got = proc[a].got /\ proc'[a].todo = proc[a].todo
          /\ proc'[a].loaded = proc[a].loaded /\ proc'[a].outcome = proc[a].outcome
    BY OpenFacts
  <1>3. \A b \in Assemblers \ {a} : proc'[b] = proc[b] /\ proc[b].at = "idle"
    BY <1>1, <1>2, MoveFacts DEF TypeInv, SoleInv
  <1>4. temp'[part] = inode /\ content'[inode] = Torn
    BY <1>1, <1>2 DEF TypeInv
  <1>5. \A i \in Inodes : i # inode => content'[i] = content[i]
    BY <1>1, <1>2 DEF TypeInv
  <1>6. final[part] = NoFile
    BY <1>2 DEF TidyInv
  <1> SUFFICES ASSUME NEW n \in PartNames
               PROVE  /\ final'[n] # NoFile => content'[final'[n]] # Torn
                      /\ \A b \in Assemblers :
                            proc'[b].at \in Early \/ n \in proc'[b].todo => final'[n] = NoFile
                      /\ \A b \in Holders(n)' :
                            /\ temp'[n] = proc'[b].fd.inode
                            /\ proc'[b].at = "opened" => content'[temp'[n]] = Torn
                            /\ proc'[b].at = "filled" => content'[temp'[n]] # Torn
    BY DEF TidyInv
  <1>7. final'[n] # NoFile => content'[final'[n]] # Torn
    <2>1. ASSUME final[n] # NoFile PROVE final[n] \in Inodes /\ final[n] # inode
      BY <1>1, <1>2, <1>6, <2>1 DEF TypeInv, NamesInv
    <2> QED
      BY <1>1, <1>5, <2>1 DEF TidyInv
  <1>8. \A b \in Assemblers :
           proc'[b].at \in Early \/ n \in proc'[b].todo => final'[n] = NoFile
    BY <1>1, <1>2, <1>3 DEF TidyInv, Early
  <1>9. \A b \in Holders(n)' : b = a /\ n = part
    BY <1>2, <1>3 DEF Holders, Holding
  <1> QED
    BY <1>2, <1>4, <1>7, <1>8, <1>9

LEMMA TidyFill ==
    ASSUME CommandInv, TidyInv, SoleInv, NEW a \in Assemblers, FillTemp(a)
    PROVE  TidyInv'
  <1>1. /\ TypeInv /\ NamesInv /\ a \in Processes /\ UNCHANGED << final, temp >>
        /\ proc[a].at = "opened" /\ At(a, "filled")
        /\ WriteStage(a) /\ Assemblers \subseteq Processes
    BY DEF CommandInv, FillTemp, Processes, StageInv
  <1>2. PICK part \in PartNames, inode \in Inodes :
          part = proc[a].fd.part /\ inode = proc[a].fd.inode
    BY <1>1 DEF WriteStage, Holding, Handle
  <1>3. /\ Moves(a, [ proc[a] EXCEPT !.at = "filled" ])
        /\ proc'[a].at = "filled"
        /\ proc'[a].got = proc[a].got /\ proc'[a].todo = proc[a].todo
        /\ proc'[a].fd = proc[a].fd
    <2>1. "filled" \in Places
      BY DEF Places
    <2> QED
      BY <1>1, <2>1, AtFacts
  <1>4. \A b \in Assemblers \ {a} : proc'[b] = proc[b] /\ proc[b].at = "idle"
    BY <1>1, <1>3, MoveFacts DEF TypeInv, SoleInv
  <1>5. temp[part] = inode /\ content[inode] = Torn
    <2>1. a \in Holders(part)
      BY <1>1, <1>2 DEF Holders, Holding
    <2> QED
      BY <1>1, <1>2, <2>1 DEF TidyInv
  <1>6. content' = [ content EXCEPT ![inode] = proc[a].got ]
    BY <1>2, <1>5 DEF FillTemp
  <1>7. proc[a].got # Torn
    <2>1. proc[a].got \in InputVersions
      BY <1>1 DEF WriteStage, Writing, Holding, TypeInv
    <2> QED
      BY <2>1, NamesAssumption
  <1>8. content'[inode] # Torn /\ \A i \in Inodes : i # inode => content'[i] = content[i]
    BY <1>1, <1>6, <1>7 DEF TypeInv
  <1> SUFFICES ASSUME NEW n \in PartNames
               PROVE  /\ final'[n] # NoFile => content'[final'[n]] # Torn
                      /\ \A b \in Assemblers :
                            proc'[b].at \in Early \/ n \in proc'[b].todo => final'[n] = NoFile
                      /\ \A b \in Holders(n)' :
                            /\ temp'[n] = proc'[b].fd.inode
                            /\ proc'[b].at = "opened" => content'[temp'[n]] = Torn
                            /\ proc'[b].at = "filled" => content'[temp'[n]] # Torn
    BY DEF TidyInv
  <1>9. final'[n] # NoFile => content'[final'[n]] # Torn
    <2>1. final[n] # NoFile => final[n] \in Inodes
      BY <1>1 DEF TypeInv
    <2> QED
      BY <1>1, <1>8, <2>1 DEF TidyInv
  <1>10. \A b \in Assemblers :
            proc'[b].at \in Early \/ n \in proc'[b].todo => final'[n] = NoFile
    BY <1>1, <1>3, <1>4 DEF TidyInv, Early
  <1>11. \A b \in Holders(n)' : b = a /\ n = part
    BY <1>2, <1>3, <1>4 DEF Holders, Holding
  <1> QED
    BY <1>1, <1>2, <1>3, <1>5, <1>8, <1>9, <1>10, <1>11

LEMMA TidyRename ==
    ASSUME CommandInv, TidyInv, SoleInv, NEW a \in Assemblers, RenameTemp(a), ~Fail(a)
    PROVE  TidyInv'
  <1> DEFINE rest == proc[a].todo \ {proc[a].fd.part}
             place == IF rest = {} THEN "ok" ELSE "write"
  <1>1. /\ TypeInv /\ NamesInv /\ a \in Processes /\ UNCHANGED content
        /\ proc[a].at = "filled"
        /\ Renamed(a)
        /\ WriteStage(a) /\ Assemblers \subseteq Processes
    BY DEF CommandInv, RenameTemp, Processes, StageInv
  <1>2. PICK part \in PartNames : part = proc[a].fd.part
    BY <1>1 DEF WriteStage, Holding, Handle
  <1>3. /\ Moves(a, [ proc[a] EXCEPT !.todo = rest, !.fd = NoFile, !.at = place ])
        /\ proc'[a].at = place /\ proc'[a].todo = rest
    BY <1>1, RenameFacts
  <1>4. \A b \in Assemblers \ {a} : proc'[b] = proc[b] /\ proc[b].at = "idle"
    BY <1>1, <1>3, MoveFacts DEF TypeInv, SoleInv
  <1>5. /\ temp[part] # NoFile
        /\ final' = [ final EXCEPT ![part] = temp[part] ]
        /\ temp' = [ temp EXCEPT ![part] = NoFile ]
    BY <1>2 DEF RenameTemp
  <1>6. /\ final'[part] = temp[part]
        /\ \A n \in PartNames : n # part => final'[n] = final[n]
    BY <1>1, <1>5 DEF TypeInv
  <1>7. content[temp[part]] # Torn
    <2>1. a \in Holders(part)
      BY <1>1, <1>2 DEF Holders, Holding
    <2> QED
      BY <1>1, <2>1 DEF TidyInv
  <1>8. place \in { "ok", "write" } /\ rest = proc[a].todo \ {part}
    BY <1>2
  <1> HIDE DEF place, rest
  <1> SUFFICES ASSUME NEW n \in PartNames
               PROVE  /\ final'[n] # NoFile => content'[final'[n]] # Torn
                      /\ \A b \in Assemblers :
                            proc'[b].at \in Early \/ n \in proc'[b].todo => final'[n] = NoFile
                      /\ \A b \in Holders(n)' :
                            /\ temp'[n] = proc'[b].fd.inode
                            /\ proc'[b].at = "opened" => content'[temp'[n]] = Torn
                            /\ proc'[b].at = "filled" => content'[temp'[n]] # Torn
    BY DEF TidyInv
  <1>9. final'[n] # NoFile => content'[final'[n]] # Torn
    BY <1>1, <1>6, <1>7 DEF TidyInv
  <1>10. ASSUME NEW b \in Assemblers, proc'[b].at \in Early \/ n \in proc'[b].todo
         PROVE  final'[n] = NoFile
    <2>1. CASE b = a
      BY <1>3, <1>6, <1>8, <1>10, <2>1 DEF TidyInv, Early
    <2>2. CASE b # a
      <3>1. proc[b].todo = {} /\ proc'[b] = proc[b] /\ proc[b].at = "idle"
        BY <1>1, <1>4, <2>2 DEF CommandInv, StageInv, WriteStage, Writing, Holding
      <3> QED
        BY <1>10, <3>1 DEF Early
    <2> QED
      BY <2>1, <2>2
  <1>11. Holders(n)' = {}
    BY <1>3, <1>4, <1>8 DEF Holders, Holding
  <1> QED
    BY <1>9, <1>10, <1>11

LEMMA TidyStep ==
    ASSUME CommandInv, TidyInv, SoleInv, [Next]_vars
    PROVE  TidyInv'
  <1>1. /\ TypeInv /\ Assemblers \subseteq Processes /\ Others \subseteq Processes
        /\ Assemblers \cap Others = {}
    BY CommandAssumption DEF CommandInv, Processes
  <1>2. ASSUME \A a \in Assemblers : proc'[a] = proc[a], UNCHANGED << final, temp, content >>
        PROVE  TidyInv'
    BY <1>2, TidyFrame
  <1>3. ASSUME NEW p \in Processes, Fail(p), UNCHANGED << final, temp, content >>
        PROVE  TidyInv'
    <2>1. /\ proc'[p].at = "failed" /\ proc'[p].todo = {}
          /\ \A q \in Processes \ {p} : proc'[q] = proc[q]
      BY <1>1, <1>3, FailFacts, MoveFacts DEF TypeInv, Fresh
    <2> QED
      BY <1>1, <1>3, <2>1, TidyFrame
  <1>4. ASSUME NEW p \in Processes, ReadInput(p) PROVE TidyInv'
    <2>1. UNCHANGED << final, temp, content >> /\ proc[p].at = "read"
      BY <1>4 DEF ReadInput, directory
    <2>2. CASE Fail(p)
      BY <1>3, <2>1, <2>2
    <2>3. CASE ~Fail(p)
      <3> DEFINE count == Len(proc[p].got) + 1
                 place == IF count = Len(ReadOrder(p)) THEN AfterRead(p) ELSE "read"
                 version == disk[ReadOrder(p)[count]]
      <3>1. proc' = [ proc EXCEPT ![p].got = Append(@, version), ![p].at = place ]
        BY <1>4, <2>3 DEF ReadInput
      <3>2. place \notin Holding
        BY AfterReadFacts DEF Writing, Holding
      <3> HIDE DEF place, version
      <3>3. proc'[p].at = place /\ \A q \in Processes \ {p} : proc'[q] = proc[q]
        BY <1>1, <3>1 DEF TypeInv, Process
      <3> QED
        BY <1>1, <2>1, <3>2, <3>3, TidyFrame DEF Early
    <2> QED
      BY <2>2, <2>3
  <1>5. ASSUME NEW p \in Processes, Stop(p) PROVE TidyInv'
    BY <1>3, <1>5 DEF Stop, directory
  <1>6. ASSUME NEW a \in Assemblers, AssembleCommand(a) PROVE TidyInv'
    <2>1. UNCHANGED << final, temp, content >> /\ proc[a].at = "assemble"
      BY <1>6 DEF AssembleCommand, directory
    <2>2. CASE Fail(a)
      BY <1>1, <1>3, <2>1, <2>2
    <2>3. CASE proc' = [ proc EXCEPT ![a].at = "write", ![a].todo = PartNames ]
      <3>1. proc'[a].at = "write" /\ \A q \in Processes \ {a} : proc'[q] = proc[q]
        BY <1>1, <2>3 DEF TypeInv, Process
      <3>2. proc'[a].at \notin Holding
        BY <3>1 DEF Holding
      <3> QED
        BY <1>1, <2>1, <3>1, <3>2, TidyFrame DEF Early
    <2> QED
      BY <1>6, <2>2, <2>3 DEF AssembleCommand
  <1>7. ASSUME NEW a \in Assemblers, OpenTemp(a) PROVE TidyInv'
    BY <1>7, TidyOpen
  <1>8. ASSUME NEW a \in Assemblers, FillTemp(a) PROVE TidyInv'
    BY <1>8, TidyFill
  <1>9. ASSUME NEW a \in Assemblers, RenameTemp(a) PROVE TidyInv'
    <2>1. CASE Fail(a) /\ UNCHANGED << final, temp >>
      BY <1>1, <1>3, <1>9, <2>1 DEF RenameTemp
    <2>2. CASE ~Fail(a)
      BY <1>9, <2>2, TidyRename
    <2>3. CASE Renamed(a) /\ temp[proc[a].fd.part] # NoFile
      <3>1. ~Fail(a)
        <4>1. proc'[a].at # "failed"
          BY <1>9, <2>3, RenameFacts DEF RenameTemp
        <4> QED
          BY <1>1, <4>1, FailFacts DEF Fresh
      <3> QED
        BY <2>2, <3>1
    <2> QED
      BY <1>9, <2>1, <2>3 DEF RenameTemp
  <1>10. ASSUME NEW p \in Others,
                LoadPart(p) \/ VerifyCommand(p) \/ ValidateEvents(p) \/ ExclusiveStep(p)
         PROVE  TidyInv'
    <2>1. UNCHANGED << final, temp, content >>
      BY <1>10, ExclusiveFacts DEF LoadPart, VerifyCommand, ValidateEvents, directory
    <2>2. ExclusiveStep(p) => Fail(p) \/ \E place : At(p, place)
      BY ExclusiveFacts
    <2>3. \A q \in Processes \ {p} : proc'[q] = proc[q]
      BY <1>1, <1>10, <2>2 DEF LoadPart, VerifyCommand, ValidateEvents, Fail, At, TypeInv
    <2> QED
      BY <1>1, <1>2, <2>1, <2>3
  <1>11. ASSUME NEW file, Replace(file) PROVE TidyInv'
    BY <1>2, <1>11 DEF Replace, directory
  <1>12. CASE UNCHANGED vars
    BY <1>2, <1>12 DEF vars, directory
  <1> QED
    BY <1>4, <1>5, <1>6, <1>7, <1>8, <1>9, <1>10, <1>11, <1>12
       DEF Next, ExclusiveStep

\* The scenario is chosen once.
LEMMA ScenarioStays ==
    ASSUME [Next]_vars
    PROVE  UNCHANGED scenario
  BY DEF Next, vars, ReadInput, Stop, AssembleCommand, OpenTemp, FillTemp, RenameTemp, LoadPart,
         VerifyCommand, ValidateEvents, CreateExclusive, WriteExclusive, SyncExclusive, CloseExclusive,
         RemoveExclusive, Replace

\* With one assembler at a time no reader of the bundle directory meets half a file,
\* wherever the assembler is killed: the rename publishes a finished document.
THEOREM PublishedWholeAlways == Spec => []PublishedWhole
  <1> DEFINE Inv == Alone => SoleInv /\ TidyInv
  <1>1. Init => Inv
    <2> SUFFICES ASSUME Init, Alone PROVE SoleInv /\ TidyInv
      OBVIOUS
    <2>1. PICK running \in { S \in SUBSET Assemblers :
                              Cardinality(S) = Scenarios[scenario].assemblers } :
            proc = [ p \in Processes |->
                     Fresh(IF p \in running \cup Scenarios[scenario].others THEN "read" ELSE "idle") ]
      BY DEF Init
    <2>2. IsFiniteSet(running) /\ Cardinality(running) = 1
      BY <2>1, CommandAssumption, FS_Subset DEF Alone
    <2>3. PICK a : running = {a}
      BY <2>2, FS_Singleton
    <2>4. \A p \in Assemblers : p \notin Scenarios[scenario].others
      BY CommandAssumption, ScenariosAssumption DEF Init
    <2>5. a \in Assemblers /\ \A b \in Assemblers \ {a} : proc[b].at = "idle"
      BY <2>1, <2>3, <2>4 DEF Processes, Fresh
    <2>6. \A p \in Assemblers : proc[p].at \in { "read", "idle" } /\ proc[p].todo = {}
      BY <2>1 DEF Processes, Fresh
    <2>7. \A n \in PartNames : final[n] = NoFile /\ Holders(n) = {}
      BY <2>6 DEF Init, Holders, Holding
    <2> QED
      BY <2>5, <2>7 DEF SoleInv, TidyInv
  <1>2. CommandInv /\ Inv /\ [Next]_vars => Inv'
    <2> SUFFICES ASSUME CommandInv, Inv, [Next]_vars, Alone' PROVE SoleInv' /\ TidyInv'
      OBVIOUS
    <2>1. Alone
      BY ScenarioStays DEF Alone
    <2>2. SoleInv'
      <3>1. PICK a \in Assemblers : \A b \in Assemblers \ {a} : proc[b].at = "idle"
        BY <2>1 DEF SoleInv
      <3>2. \A b \in Assemblers \ {a} : proc'[b].at = "idle"
        BY <3>1, RestStays DEF Resting, Processes
      <3> QED
        BY <3>2 DEF SoleInv
    <2> QED
      BY <2>1, <2>2, TidyStep
  <1>3. Inv => PublishedWhole
    BY DEF PublishedWhole, TidyInv, Alone
  <1> QED
    BY <1>1, <1>2, <1>3, CommandInvariant, PTL DEF Spec
=============================================================================
