------------------------------ MODULE Firewall ------------------------------
(***************************************************************************)
(* The rpf command (cmd/rpf/main.go) on a shared file system: processes    *)
(* that run its five commands on the same input files, the same output     *)
(* paths and the same bundle directory, with ReadInputs, WriteBundle,      *)
(* LoadBundle and WriteCanonicalExclusive of internal/rpf/verify.go.       *)
(*                                                                         *)
(* Every os call is a step.  Input files are replaced between the reads of *)
(* one command, a command is killed or its write fails anywhere, and two   *)
(* assemblers share the names of their temporary files.  A file of the     *)
(* bundle directory is the inode its name points at; of an output name     *)
(* owner says which command made the file it points at.  A document is     *)
(* named by the inputs it was made from, its value computed on demand.     *)
(***************************************************************************)
EXTENDS Verifier

CONSTANTS
    Artifacts,      \* version -> [ name, bytes ]
    EventDocs,      \* version -> [ lines, torn ]
    Provenances,    \* version -> statement
    Policies,       \* version -> policy
    NoFile,
    Torn,           \* the empty file, or the beginning of a document
    Source,         \* --repository and --revision of create-local-provenance
    Assemblers,     \* processes that run assemble
    Command,        \* the other processes -> the command each one runs
    Scenarios       \* name -> [ assemblers: how many run, others: which run,
                    \*   disks: the files before, replacements: how many files are
                    \*   replaced, alternatives: file -> versions it is replaced by ]

VARIABLES
    scenario,   \* what happens around the commands
    disk,       \* input or output file -> version, or NoFile
    owner,      \* file -> the command that created it under this name, or NoFile
    proc,       \* process -> the state of its command
    final,      \* bundle file -> inode, or NoFile
    temp,       \* the same with .tmp
    content,    \* inode -> inputs whose document it holds, or Torn
    replaced,   \* input files replaced so far
    assembled   \* history: inputs some Assemble accepted

directory == << final, temp, content >>
vars == << scenario, disk, owner, proc, directory, replaced, assembled >>

-----------------------------------------------------------------------------
Others == DOMAIN Command
Processes == Assemblers \cup Others
Verifiers == { p \in Others : Command[p] = "verify-fixture" }
CommandOf(p) == IF p \in Assemblers THEN "assemble" ELSE Command[p]

Parts == << "graph", "manifest", "trace" >>
PartNames == { Parts[i] : i \in 1..Len(Parts) }
Inodes == Assemblers \X PartNames

\* Files a command reads before it computes, in its order.
ReadOrder(p) ==
    CASE CommandOf(p) \in { "assemble", "verify-fixture" } ->
             << "artifact", "events", "provenance", "policy" >>
      [] CommandOf(p) = "create-local-provenance" -> << "artifact", "events" >>
      [] OTHER -> << "events" >>

AfterRead(p) ==
    CASE CommandOf(p) = "assemble" -> "assemble"
      [] CommandOf(p) = "verify-fixture" -> "load"
      [] CommandOf(p) = "validate-events" -> "validate"
      [] OTHER -> "create"

\* The new file of the commands that end in WriteCanonicalExclusive.
Outputs == { "provenance", "graph" }
OutputOf(p) == IF CommandOf(p) = "graph-events" THEN "graph" ELSE "provenance"

\* What a file may hold: a given version, for an output also the versions read by the
\* command that made it, or the beginning of that document.
Files == { "artifact", "events", "provenance", "policy", "graph" }

Made(output) == IF output = "graph" THEN { << events >> : events \in DOMAIN EventDocs }
                ELSE (DOMAIN Artifacts) \X (DOMAIN EventDocs)

Contents(file) ==
    CASE file = "artifact" -> DOMAIN Artifacts \cup {NoFile}
      [] file = "events" -> DOMAIN EventDocs \cup {NoFile}
      [] file = "policy" -> DOMAIN Policies \cup {NoFile}
      [] file = "provenance" -> DOMAIN Provenances \cup Made("provenance") \cup { Torn, NoFile }
      [] file = "graph" -> Made("graph") \cup { Torn, NoFile }

\* The versions of the four inputs, in the order in which they are read.
InputVersions ==
    (DOMAIN Artifacts) \X (DOMAIN EventDocs)
        \X (DOMAIN Provenances \cup Made("provenance") \cup {Torn}) \X (DOMAIN Policies)

ASSUME CommandAssumption ==
    /\ IsFiniteSet(Assemblers)
    /\ Assemblers \cap Others = {}
    /\ \A p \in Others : Command[p] \in { "verify-fixture", "validate-events", "graph-events",
                                         "create-local-provenance" }

\* An absent file, and half a document, are no document, inode or decision.
ASSUME NamesAssumption ==
    /\ NoFile \notin Inodes \cup Others \cup { "ALLOW", Torn }
    /\ \A output \in Outputs : NoFile \notin Made(output)
    /\ Torn \notin InputVersions

ASSUME ScenariosAssumption ==
    \A s \in DOMAIN Scenarios :
        /\ \A d \in Scenarios[s].disks :
              /\ DOMAIN d = Files /\ d = [ file \in Files |-> d[file] ]
              /\ \A file \in Files : d[file] \in Contents(file) \ {Torn}
        /\ Scenarios[s].others \subseteq Others
        /\ Scenarios[s].replacements \in Nat
        /\ DOMAIN Scenarios[s].alternatives \subseteq Files
        /\ \A file \in DOMAIN Scenarios[s].alternatives :
              Scenarios[s].alternatives[file] \subseteq Contents(file) \ {Torn}

\* A provenance file is one of the given statements, one made by
\* create-local-provenance, or the beginning of one.
ProvenanceDoc(version) ==
    CASE version = Torn -> [ decodes |-> FALSE ]
      [] version # Torn /\ version \in DOMAIN Provenances -> Provenances[version]
      [] OTHER -> CreateLocalFixtureProvenance(Artifacts[version[1]].name,
                      Artifacts[version[1]].bytes, EventDocs[version[2]].lines, Source)

InputsOf(versions) ==
    [ artifact   |-> Artifacts[versions[1]].bytes,
      name       |-> Artifacts[versions[1]].name,
      events     |-> EventDocs[versions[2]],
      provenance |-> ProvenanceDoc(versions[3]),
      policy     |-> Policies[versions[4]] ]

\* at: the call before which the command stands; got: versions it has read;
\* todo: bundle files WriteBundle has not renamed; fd: the file it writes;
\* loaded: inputs behind the files LoadBundle has read; outcome: of Verify.
Fresh(at) ==
    [ at |-> at, got |-> << >>, todo |-> {}, fd |-> NoFile, loaded |-> << >>, outcome |-> NoFile ]

Ended == { "ok", "failed" }

At(p, place) == proc' = [ proc EXCEPT ![p].at = place ]

\* fail: a message and exit status 4; the process and what it had read are gone.
Fail(p) == proc' = [ proc EXCEPT ![p] = Fresh("failed") ]

\* A command inside WriteCanonicalExclusive that has created its file.
Exclusive == { "created", "written", "synced", "remove" }

Places == Ended \cup Exclusive \cup { "idle", "read", "assemble", "write", "opened", "filled",
                                      "load", "decide", "validate", "create" }

TypeOK ==
    /\ DOMAIN disk = Files /\ owner \in [ Files -> Others \cup {NoFile} ]
    /\ \A p \in Processes :
          /\ proc[p].at \in Places
          /\ Len(proc[p].got) <= Len(ReadOrder(p))
          /\ proc[p].todo \subseteq PartNames /\ (proc[p].at = "ok" => proc[p].todo = {})
          /\ Len(proc[p].loaded) <= Len(Parts)
    /\ \A n \in PartNames : {final[n], temp[n]} \subseteq (Assemblers \X {n}) \cup {NoFile}
    /\ DOMAIN content = Inodes
    /\ replaced \in 0..Scenarios[scenario].replacements

Init ==
    /\ scenario \in DOMAIN Scenarios
    /\ disk \in Scenarios[scenario].disks /\ owner = [ file \in Files |-> NoFile ]
    /\ \E running \in { S \in SUBSET Assemblers : Cardinality(S) = Scenarios[scenario].assemblers } :
          proc = [ p \in Processes |->
                     Fresh(IF p \in running \cup Scenarios[scenario].others THEN "read" ELSE "idle") ]
    /\ final = [ n \in PartNames |-> NoFile ] /\ temp = [ n \in PartNames |-> NoFile ]
    /\ content = [ i \in Inodes |-> Torn ]
    /\ replaced = 0 /\ assembled = {}

-----------------------------------------------------------------------------
(* ReadInputs, and the reads of the other commands                         *)

ReadInput(p) ==
    LET count == Len(proc[p].got) + 1
        version == disk[ReadOrder(p)[count]]
    IN  /\ proc[p].at = "read"
        /\ \/ version = NoFile /\ Fail(p)
           \/ /\ version # NoFile
              /\ proc' = [ proc EXCEPT
                             ![p].got = Append(@, version),
                             ![p].at = IF count = Len(ReadOrder(p)) THEN AfterRead(p) ELSE "read" ]
        /\ UNCHANGED << scenario, disk, owner, directory, replaced, assembled >>

-----------------------------------------------------------------------------
(* assemble: Assemble and WriteBundle                                      *)

AssembleCommand(a) ==
    LET got == proc[a].got
    IN  /\ proc[a].at = "assemble"
        /\ \/ /\ AssembleAccepts(InputsOf(got))
              /\ proc' = [ proc EXCEPT ![a].at = "write", ![a].todo = PartNames ]
              /\ assembled' = assembled \cup {got}
           \/ ~AssembleAccepts(InputsOf(got)) /\ Fail(a) /\ UNCHANGED assembled
        /\ UNCHANGED << scenario, disk, owner, directory, replaced >>

Opened(a, part, inode) ==
    proc' = [ proc EXCEPT ![a].at = "opened", ![a].fd = [ part |-> part, inode |-> inode ] ]

\* Mutant: the file is written under its own name.
OpenInPlace(a) ==
    /\ proc[a].at = "write"
    /\ \E part \in proc[a].todo :
          LET inode == IF final[part] = NoFile THEN << a, part >> ELSE final[part]
          IN  /\ final' = [ final EXCEPT ![part] = inode ]
              /\ temp' = [ temp EXCEPT ![part] = inode ]
              /\ content' = [ content EXCEPT ![inode] = Torn ]
              /\ Opened(a, part, inode)
    /\ UNCHANGED << scenario, disk, owner, replaced, assembled >>

\* os.WriteFile opens with O_CREATE|O_TRUNC: an existing .tmp is emptied.  The
\* range over the map of files takes them in any order.
OpenTemp(a) ==
    /\ proc[a].at = "write"
    /\ \E part \in proc[a].todo :
          LET inode == IF temp[part] = NoFile THEN << a, part >> ELSE temp[part]
          IN  /\ temp' = [ temp EXCEPT ![part] = inode ]
              /\ content' = [ content EXCEPT ![inode] = Torn ]
              /\ Opened(a, part, inode)
    /\ UNCHANGED << scenario, disk, owner, final, replaced, assembled >>

\* The bytes land in the inode, whatever name it has by now; over another
\* document they may leave its longer tail behind.
FillTemp(a) ==
    LET inode == proc[a].fd.inode
        got == proc[a].got
    IN  /\ proc[a].at = "opened"
        /\ \E result \in {got} \cup (IF content[inode] \in { Torn, got } THEN {} ELSE {Torn}) :
              content' = [ content EXCEPT ![inode] = result ]
        /\ At(a, "filled")
        /\ UNCHANGED << scenario, disk, owner, final, temp, replaced, assembled >>

Renamed(a) ==
    LET rest == proc[a].todo \ {proc[a].fd.part}
    IN  proc' = [ proc EXCEPT ![a].todo = rest, ![a].fd = NoFile,
                              ![a].at = IF rest = {} THEN "ok" ELSE "write" ]

\* Mutant: the error of os.Rename is ignored.
RenameIgnoringError(a) ==
    LET part == proc[a].fd.part
    IN  /\ proc[a].at = "filled"
        /\ final' = [ final EXCEPT ![part] = IF temp[part] = NoFile THEN @ ELSE temp[part] ]
        /\ temp' = [ temp EXCEPT ![part] = NoFile ]
        /\ Renamed(a)
        /\ UNCHANGED << scenario, disk, owner, content, replaced, assembled >>

\* Mutant: WriteBundle returns after its first file.
RenameOnce(a) ==
    LET part == proc[a].fd.part
    IN  /\ proc[a].at = "filled" /\ temp[part] # NoFile
        /\ final' = [ final EXCEPT ![part] = temp[part] ]
        /\ temp' = [ temp EXCEPT ![part] = NoFile ]
        /\ At(a, "ok")
        /\ UNCHANGED << scenario, disk, owner, content, replaced, assembled >>

RenameTemp(a) ==
    LET part == proc[a].fd.part
    IN  /\ proc[a].at = "filled"
        /\ \/ /\ temp[part] # NoFile
              /\ final' = [ final EXCEPT ![part] = temp[part] ]
              /\ temp' = [ temp EXCEPT ![part] = NoFile ]
              /\ Renamed(a)
           \/ temp[part] = NoFile /\ Fail(a) /\ UNCHANGED << final, temp >>
        /\ UNCHANGED << scenario, disk, owner, content, replaced, assembled >>

-----------------------------------------------------------------------------
(* verify-fixture: LoadBundle and Verify                                   *)

Readable(part, inode) ==
    /\ inode # NoFile
    /\ content[inode] # Torn
    /\ walkJSON(BuildGraph(InputsOf(content[inode]).events.lines))[part] <= maxValues

LoadPart(v) ==
    LET count == Len(proc[v].loaded) + 1
        part == Parts[count]
    IN  /\ proc[v].at = "load"
        /\ \/ /\ Readable(part, final[part])
              /\ proc' = [ proc EXCEPT ![v].loaded = Append(@, content[final[part]]),
                                       ![v].at = IF count = Len(Parts) THEN "decide" ELSE "load" ]
           \/ ~Readable(part, final[part]) /\ Fail(v)
        /\ UNCHANGED << scenario, disk, owner, directory, replaced, assembled >>

LoadedBundle(loaded) ==
    [ graph    |-> Assemble(InputsOf(loaded[1])).graph,
      manifest |-> Assemble(InputsOf(loaded[2])).manifest,
      trace    |-> Assemble(InputsOf(loaded[3])).trace ]

VerifyCommand(v) ==
    /\ proc[v].at = "decide"
    /\ proc' = [ proc EXCEPT ![v].at = "ok",
                   ![v].outcome = Verify(InputsOf(proc[v].got), LoadedBundle(proc[v].loaded)).decision ]
    /\ UNCHANGED << scenario, disk, owner, directory, replaced, assembled >>

-----------------------------------------------------------------------------
(* create-local-provenance and graph-events: WriteCanonicalExclusive       *)

Parsed(version) == ParseEventStreamAccepts(EventDocs[version].lines, EventDocs[version].torn)

ValidateEvents(p) ==
    /\ proc[p].at = "validate"
    /\ IF Parsed(proc[p].got[1]) THEN At(p, "ok") ELSE Fail(p)
    /\ UNCHANGED << scenario, disk, owner, directory, replaced, assembled >>

\* CreateLocalFixtureProvenance or BuildGraphFromStream accepts what was read.
OutputAccepted(p) ==
    LET got == proc[p].got
    IN  IF OutputOf(p) = "graph"
        THEN Parsed(got[1]) /\ BuildGraphAccepts(EventDocs[got[1]].lines)
        ELSE /\ Parsed(got[2])
             /\ CreateLocalFixtureProvenanceAccepts(Artifacts[got[1]].name, Artifacts[got[1]].bytes,
                                                    EventDocs[got[2]].lines, Source)

\* Mutant: the output is opened without O_EXCL.
CreateOverwriting(p) ==
    /\ proc[p].at = "create" /\ OutputAccepted(p)
    /\ disk' = [ disk EXCEPT ![OutputOf(p)] = Torn ]
    /\ owner' = [ owner EXCEPT ![OutputOf(p)] = p ]
    /\ At(p, "created")
    /\ UNCHANGED << scenario, directory, replaced, assembled >>

\* O_CREATE|O_EXCL: an existing file is an error.
CreateExclusive(p) ==
    LET free == disk[OutputOf(p)] = NoFile
    IN  /\ proc[p].at = "create"
        /\ \/ /\ OutputAccepted(p) /\ free
              /\ disk' = [ disk EXCEPT ![OutputOf(p)] = Torn ]
              /\ owner' = [ owner EXCEPT ![OutputOf(p)] = p ]
              /\ At(p, "created")
           \/ ~(OutputAccepted(p) /\ free) /\ Fail(p) /\ UNCHANGED << disk, owner >>
        /\ UNCHANGED << scenario, directory, replaced, assembled >>

\* The write goes to the file that was created, whatever has its name by now; a
\* write that fails may leave the beginning of the document.
WriteExclusive(p) ==
    /\ proc[p].at = "created"
    /\ \/ /\ disk' = [ disk EXCEPT ![OutputOf(p)] = IF owner[OutputOf(p)] = p THEN proc[p].got ELSE @ ]
          /\ At(p, "written")
       \/ At(p, "remove") /\ UNCHANGED disk
    /\ UNCHANGED << scenario, owner, directory, replaced, assembled >>

\* Sync and Close leave the whole document visible even when they fail.
SyncExclusive(p) ==
    /\ proc[p].at = "written"
    /\ At(p, "synced") \/ At(p, "remove")
    /\ UNCHANGED << scenario, disk, owner, directory, replaced, assembled >>

CloseExclusive(p) ==
    /\ proc[p].at = "synced"
    /\ At(p, "ok") \/ At(p, "remove")
    /\ UNCHANGED << scenario, disk, owner, directory, replaced, assembled >>

\* os.Remove goes by the name: whoever's file has it is gone.
RemoveExclusive(p) ==
    /\ proc[p].at = "remove"
    /\ disk' = [ disk EXCEPT ![OutputOf(p)] = NoFile ]
    /\ owner' = [ owner EXCEPT ![OutputOf(p)] = NoFile ]
    /\ Fail(p)
    /\ UNCHANGED << scenario, directory, replaced, assembled >>

-----------------------------------------------------------------------------
(* Environment                                                             *)

\* Somebody removes a file or moves another one over it, also over one that a
\* command is still writing.
Replace(file) ==
    /\ replaced < Scenarios[scenario].replacements
    /\ \E version \in Scenarios[scenario].alternatives[file] \ {disk[file]} :
          disk' = [ disk EXCEPT ![file] = version ]
    /\ owner' = [ owner EXCEPT ![file] = NoFile ]
    /\ replaced' = replaced + 1
    /\ UNCHANGED << scenario, proc, directory, assembled >>

\* A command is killed, or a write of it fails: what it wrote stays.
Stop(p) ==
    /\ proc[p].at \notin Ended \cup {"idle"}
    /\ Fail(p)
    /\ UNCHANGED << scenario, disk, owner, directory, replaced, assembled >>

-----------------------------------------------------------------------------
Next ==
    \/ \E p \in Processes : ReadInput(p) \/ Stop(p)
    \/ \E a \in Assemblers :
          AssembleCommand(a) \/ OpenTemp(a) \/ FillTemp(a) \/ RenameTemp(a)
    \/ \E p \in Others :
          \/ LoadPart(p) \/ VerifyCommand(p)
          \/ ValidateEvents(p) \/ CreateExclusive(p) \/ WriteExclusive(p)
          \/ SyncExclusive(p) \/ CloseExclusive(p) \/ RemoveExclusive(p)
    \/ \E file \in DOMAIN Scenarios[scenario].alternatives : Replace(file)

Spec == Init /\ [][Next]_vars

-----------------------------------------------------------------------------
(* Properties                                                              *)

Decided(v) == proc[v].outcome # NoFile
Allowed(v) == proc[v].outcome = "ALLOW"
Judged(v) == InputsOf(proc[v].got)

\* verify-fixture exits 0 only for inputs that meet every key invariant, taken
\* from the inputs themselves and whatever the bundle directory held.
AllowIsAdmissible == \A v \in Verifiers : Allowed(v) => Admissible(Judged(v))

\* No false alarm: with the bundle of its own inputs, an admissible build is
\* allowed.
AdmissibleIsAllowed ==
    \A v \in Verifiers :
        /\ Decided(v)
        /\ proc[v].loaded = [ i \in 1..Len(Parts) |-> proc[v].got ]
        /\ Admissible(Judged(v))
        => Allowed(v)

\* An ALLOW is about inputs some assemble saw together: input files replaced
\* between reads, or bundle files of two assemblies, never add up to one.
AllowMeansAssembled ==
    \A v \in Verifiers : Allowed(v) => Judged(v) \in { InputsOf(i) : i \in assembled }

Assembling == { a \in Assemblers : proc[a].at # "idle" }

\* Assemblers that share a directory and all report success left whole files,
\* each written by one of them.
SuccessMeansWhole ==
    Assembling # {} /\ (\A a \in Assembling : proc[a].at = "ok") =>
        \A n \in PartNames : content[final[n]] \in { proc[a].got : a \in Assembling }

\* With one assembler at a time no reader meets half a file, wherever the
\* assembler is killed: the rename publishes a finished document.
PublishedWhole ==
    Scenarios[scenario].assemblers = 1 =>
        \A n \in PartNames : final[n] # NoFile => content[final[n]] # Torn

Creators(file) == { p \in Others : OutputOf(p) = file /\ proc[p].at \in Exclusive }

\* Commands whose file somebody has removed or replaced while they were writing it:
\* they report success all the same, and their clean-up takes the name from its new owner.
Displaced(file) == { p \in Creators(file) : owner[file] # p }

\* While nobody else touches an output file, commands that write to the same path do not
\* harm each other: a file none of them is writing stays as it is, a command that
\* ends well leaves its whole document there, and none displaces another, although a failed
\* one removes the file by its name.
FinishedOutputStays ==
    [][ \A file \in Outputs :
          Displaced(file) = {} /\ replaced' = replaced =>
              /\ disk[file] # NoFile /\ Creators(file) = {} => disk'[file] = disk[file]
              /\ \A p \in Creators(file) : proc'[p].at = "ok" => disk'[file] = proc[p].got
              /\ Displaced(file)' = {} ]_vars

-----------------------------------------------------------------------------
(* What the documents say and the code does not                            *)

\* docs/event-schema.md: "2,000 values per event", so a bundle of small events
\* that assemble wrote is one that verify-fixture can load.
WrittenBundleLoads ==
    \A n \in PartNames :
        final[n] # NoFile /\ content[final[n]] # Torn => Readable(n, final[n])
=============================================================================
