# TLA+ verification of runtime-provenance-firewall

The program records what a build does and decides whether its artifact may be
released. BPF programs observe the processes of one cgroup, a collector turns
their records into a hash-chained evidence file, and the `rpf` command combines
that evidence with a provenance statement and a policy into `ALLOW`, `REVIEW` or
`REJECT`. What matters is that the chain of these parts *fails closed*: no loss,
race, crash or mix of files may end in an `ALLOW` that nobody earned.

This directory holds TLA+ modules for those parts, TLC configurations for small
instances, and proofs checked by TLAPS for every instance. `PROJECT.json` lists
for every definition the source lines it stands for.

## 1. Inventory

| Part | State | Operations | Talks to | What is hard | Correct when |
|---|---|---|---|---|---|
| BPF programs (`internal/sensor/bpf/sensor.bpf.c`) | ring buffer, `pending_opens`, five per-CPU loss counters | `observe_exec`, `observe_openat_enter`, `observe_openat_exit`, `observe_connect4` | ring and counters, read by the collector | programs on several CPUs; ring or map full; a thread moved between cgroups inside a system call; two counters bumped one after the other | every operation of the target is submitted or counted, exactly once, and no record is made from another call's arguments |
| Loader and reader (`internal/sensor/sensor_linux.go`) | links, reader | `Open`, `Read`, `decodeEvent`, `Loss`, `Close` | collector | cancellation against pending records; counters read while they move | see collector |
| Collector (`cmd/rpf-sensor`) | process map, artifact producer, decode loss, event chain, evidence file | start-up, read loop, finalization | kernel, file system, signals | crash or failed write anywhere; restart on the same path; a busy ring at the signal; full process map | the file is one build's linked chain, never resumed or changed; activity is attributed to the image last executed; evidence that calls itself complete lost nothing; a signalled collector ends |
| Event chain, parser, graph (`internal/rpf/chain.go`, `evidence.go`, `model.go`) | sequence number and previous hash | `NewEventChain`, `Append`, `ParseEventStream`, `BuildGraph`, `completeness` | collector, verifier | wrap-around of summed counters, absent fields | parser accepts what the chain seals; loss never reads as none |
| Decoding (`internal/rpf/parse.go`) | none | `decodeStrict`, `walkJSON`, `decodeStatement`, `decodePolicy` | verifier | limits the writer does not know | what is written can be read |
| Assemble and Verify (`internal/rpf/verify.go`) | none | `Assemble`, `Verify` | files | many checks, their order and early returns | `ALLOW` exactly for admissible inputs |
| Bundle files (`verify.go`) | bundle directory, `.tmp` names, exclusive output | `ReadInputs`, `WriteBundle`, `LoadBundle`, `WriteCanonicalExclusive` | processes on one file system | inputs replaced between reads; two assemblers sharing temporary names; a kill between renames | no `ALLOW` from a mixture; no success over a torn file; a finished statement is not replaced |
| `rpf` command (`cmd/rpf`) | exit status | `assemble`, `verify-fixture`, `create-local-provenance`, `validate-events`, `graph-events` | files | commands run while the collector still writes, or after it died | exit 0 only for `ALLOW`; a finished output is not replaced |
| Local provenance (`local_provenance.go`) | none | `CreateLocalFixtureProvenance` | `rpf` command | | passes the identity checks of the verifier |
| Cgroup launcher (`cmd/rpf-cgroup-enter`) | credentials of its threads, cgroup | join, drop, exec | kernel, Go scheduler | credentials are per thread and a goroutine changes threads; any step may fail | a program runs only inside the cgroup and without privileges |
| Lab peers (`cmd/rpf-mock-server`, `rpf-local-connect`, `rpf-authz-target`, `rpf-authz-proof`) | listener, readiness marker, one connection | serve one client, under deadlines | each other, driver scripts | clients that are done while the server times out; servers left over from a killed script | a marker means a listener; a proof shows the mode of the target that answered; nobody waits for ever |
| Fixtures (`cmd/rpf-build-fixture`, `rpf-package-fixture`) | the artifact file | check, open, truncate, write, sync | driver scripts | a fixture of a killed round still has the file open | they run only in the lab and leave a whole artifact |
| Driver scripts (`tools/test-sensor.sh`, `test-adversarial-case.sh`) | background server, markers | start, poll, wait, clean up | everything above | killed without the trap, started again | a script that passes did its work |

## 2. Modules

```
RecordSource - - KernelSensor --- MCKernelSensor         -- : EXTENDS
     :                 \--------- KernelSensorProofs     - - : INSTANCE
     :     Ledger (EXTENDS Evidence)
     :       :
Evidence --- Collector --- MCCollector
   |             |   \---- CollectorProofs --- LedgerProofs --- LossProofs ---\
   |          Pipeline --- MCPipeline                                          |
   |             |   \------------------------------------------- PipelineProofs
   |             |                                                             |
   \--------- Verifier --- VerifierProofs -------------------------------------/
                 |               \--- FirewallProofs
              Firewall -----------------/
                     \---- MCFirewall

Launcher ----\
Rendezvous --- Lab --- MCLab
                  \--- LabProofs
```

**Evidence** has no variables: sealing (`ChainEvent`, `ChainAppend`), the strict
parser (`validateEvent`, `verifyChain`, `ParseEventStreamAccepts`), the execution
graph and `completeness`. The collector writes with it and the verifier reads
with it, as in the code. An event keeps the fields that some code branches on.
SHA-256 is collision free: the hash of an event is the sequence of all bodies up
to it, the digest of anything else a tagged copy. Counters are added modulo
`Wrap`, which stands for 2^64.

**RecordSource** is the contract between the BPF programs and the collector: a
bounded ring whose slots are reserved, filled by the thread that reserved them and
read in order, and five counters, of which an aggregate correlation loss never
shows before its cause. The collector's environment takes the steps of this module
(with bounds of its own), and `KernelSensor` is shown to implement it
(`KeepsContract`), so what is checked of the collector holds above the programs.

**KernelSensor** has the programs. A thread runs one at a time;
a program that reserves a slot or counts a cause finishes in a second step
(`Submit`, `CountCorrelation`) and other threads run in between. `openat` is two
program runs with the system call in the middle, where `Migrate` may move the
thread. Sets of operation numbers record what was owed, submitted and counted.
`Attach` attaches one program after the other. `BeginClose`, after a failed
attachment or at the end, closes the reader, `CloseLink` detaches one program at a
time in the order of their attachment, with calls in progress, and `FreeCollection`
frees the maps once no program runs. A call that returns after the exit program was
detached leaves its entry in `pending_opens`: no program reads it any more, and it
goes with the map. A thread keeps of its call what the programs ask for at its
end: its number, its kind, and whether `observe_openat_enter` saw it. The build enters the target after `Open` has attached the last
program, as `tools/test-sensor.sh` arranges it.

**Collector** is the process `rpf-sensor`. `pc` names the place in `main`:
`flags`, `open`, `create`, `started` (the first event), `check` (the context test
in `Read`), `poll`, `error` (before the context test of `main`), `artifact`, `loss` (one map of `Loss()` per step), `final`,
and the ends `done`, `fatal`, `crashed`. Each branch of the record switch is an
action (`HandleExec`, `HandleOpen`, `HandleSensitive`, `HandleConnect`), a record
the decoder refuses is `ReadMalformed`. A failing `Read` and the test of
`ctx.Err()` behind it (`AfterReadError`) are two steps: a signal in between makes
`main` finalize although a record was refused, and `rejected` counts it. `writeEvent`
covers append, write and
sync: a failing write leaves nothing or a cut line (`torn`), a failing sync a
whole one. `Crash`, `Signal` and `Restart` (on the same output path, perhaps for
another build) may come at any step. A signal that arrives before
`signal.NotifyContext` ends the process. There are two clocks: `boottimeNS` of the
collector is `CLOCK_BOOTTIME`, `ktime` of the programs `CLOCK_MONOTONIC`, and
`Suspend` advances only the first. The programs are attached by `Open`, before
`sensor_started` is written. That the build runs only after that event is what
`docs/threat-model.md:44` and `docs/event-schema.md:79` ask for; the scripts just
`sleep 1`. With `EarlyBuild` the build may run earlier: so it is in
`collector_stream` and `pipeline`, and in every proof. Only `OnlyKernelRecordsRace`
has `~EarlyBuild` as a hypothesis. Four history variables, read by properties
only, count records taken, refused, submitted before the signal, and losses and
refusals before it.

**Ledger** says what the evidence file is to its readers: absent, then open for
one writer, then closed for good; every entry continues the chain, the build and
the lifecycle (`sensor_started` first, `artifact_finalized` directly before
`sensor_finalized`, nothing after that); a cut line only at the very end.
`Collector` implements it under the mapping `Log` (`ImplementsLedger`).

**Verifier** has `Assemble`, `Verify` and `CreateLocalFixtureProvenance` as
functions of their inputs: all checks, reasons and early returns. An error is
the outcome `ERROR` (exit status 4). A document carries whether `decodeStrict`
accepts it. `walkJSON` computes the number of JSON values of the bundle files.
`Admissible`, at its end, is the reference definition the decisions are compared
with: it speaks of raw events, statement and policy, and not of manifest, trace or
reasons.

**Firewall** is `rpf` run by several processes on shared files, one step per
`os` call: the reads of each command, truncation, filling and rename of each
temporary file in any order (the code ranges over a map), three reads of
`LoadBundle`, and exclusive creation, write, sync, close and removal by name of a
provenance or a graph. A name of the bundle points at an inode, so a writer that lost its name to another's
rename still writes to the file. `Replace` lets the next build change an input
between reads, or remove or move another file over an exclusive output, also over
one that a command is still writing; `owner` is the command whose file still has
the name. A command that lost the name reports success all the same, and after a
failed write, sync or close it removes whatever file has the name by then; no
document of the repository says otherwise. Nobody writes into a file of another in
place. `Stop` kills a command anywhere. A scenario fixes which commands run, on which files,
and how many files are replaced.

**Pipeline** puts `Collector` and the commands of `Verifier` on one set of files:
the build rewrites the artifact at any time, `digestFile` hashes what is there,
and provenance, bundle and verdict are made whenever somebody runs the commands,
on evidence that is unfinished, finished or left behind by a crash. A command is
one step here; `Firewall` has its single reads and writes.

**Launcher** is `rpf-cgroup-enter`: one action per system call, credentials per
runtime thread, and `Reschedule`, which moves the goroutine to another thread
until it is locked. `unix.Setgid` and `Setuid` reach all threads in Go,
`prctl` and `Setgroups` of the `unix` package only the calling one.

**Rendezvous** has the one-shot servers and their clients. A connection is
complete for the client before the server accepts it; a deadline may pass wherever
a process waits under one.

**Lab** composes both with the fixtures and the driver scripts: a script starts a
server in the background, polls for its marker, runs clients and fixtures through
the launcher, waits, cleans up; it may be killed without its trap and started
again while programs of the earlier round still run.

## 3. Runs

Properties that hold:

| Run | Properties | Shows |
|---|---|---|
| `collector_stream` | `TypeOK`, `StreamChained`, `WriterOwnsStream`, `EvidenceAppendOnly`, `ImplementsLedger`, `AttributionSound`, `ProducerIsLastOpener`, `FinalizedStreamParses` | two builds and a bad command line on one output path, failed writes, crashes, one restart, and one process that execs two images and opens the artifact under both, beside a second one that finds the process map full and whose open is skipped and counted: the file is a ledger, every activity has the image last executed, and a finished stream is refused only for its length (`maxEvents` is within reach here) or the order of its times |
| `collector_clock` | `OnlyKernelRecordsRace`, `SignalEndsCollector` | two ring slots, two clocks, a suspend, kernel losses, skipped and refused records: without a suspend, and with the build released after `sensor_started`, only two kernel records can be out of order; and a signalled collector ends, however busy the ring |
| `kernel_sensor` | `TypeOK`, `PendingMatchesCall`, `NoSilentLoss`, `NoPhantomRecord`, `LossCountedOnce`, `CausesAddUp`, `PendingDrains`, `KeepsContract` | two threads, one ring slot, one map entry, programs attached and detached one by one: every operation is accounted for once, no entry of `pending_opens` that a program may still read outlives its call, and the programs implement `RecordSource` |
| `firewall` | `TypeOK`, `AllowIsAdmissible`, `AdmissibleIsAllowed`, `AllowMeansAssembled`, `SuccessMeansWhole`, `PublishedWhole`, `FinishedOutputStays` | assemble, killed anywhere, then verify: allowed are exactly the admissible inputs; two assemblers and a verifier while an input is replaced: no `ALLOW` from a mixture and no success over a torn file; commands racing for one output, with failing writes, syncs and closes: while nobody else touches the name, a finished document stays, and a command that ends well leaves its own there |
| `pipeline` | `ReleaseIsWitnessed`, `ForbiddenNeverAllowed`, `CompleteEvidenceIsLossless`, `CausesCoverCorrelation` | what is allowed are the bytes the collector hashed, on evidence it finished; a decoded record that the policy forbids prevents `ALLOW` even when no event could be written for it; evidence that calls itself complete has an event for every decoded record and hides no loss known at the signal, a full process map included. Of the records the decoder refused it may hide one, refused just before the signal and not reported (see `unread_records`); and each reported correlation loss has a reported cause, although `Loss()` reads the maps one by one |
| `lab` | `LabProgramsConfined`, `ReadyMeansListening`, `PassedScriptDidItsWork`, `ProofShowsMode`, `EverythingEnds` | two rounds of both scripts, killed or not: programs run confined, passed scripts did their work with their own servers, a proof shows the mode of the target that answered, and all waits end |

Properties the code does not have. Each is taken from a document or a test of the
repository, and the run gives a behaviour of the code that violates it:

| Run | Property | What happens |
|---|---|---|
| `unread_records` | `NoRecordLeftOut` | records submitted before the signal are neither written nor counted, in two ways: `Read` tests the context before the ring and leaves them there, or `decodeEvent` refuses one and the signal comes before the test of `main_linux.go:109` |
| `record_order` | `FinalizedStreamInOrder` | slots are reserved in one order and stamped in the other; the parser rejects the finalized stream |
| `second_exec` | `FinalizedStreamHasGraph` | a process that execs twice has two identities under one key; `BuildGraph` refuses |
| `boot_clock` | `KernelEventsInBootTime` | after a suspend kernel events are older than `sensor_started`, because they have the monotonic clock |
| `thread_key` | `RecordsNameTheProcess` | the start time is the thread's, so threads of a process have different keys |
| `bundle_size` | `WrittenBundleLoads` | a bundle of small events exceeds the value limit of its own reader |

In `unread_records` a loss passes unseen. The other five err on the closed side:
the evidence becomes unusable, or a record is skipped and counted.

Smaller disagreements met while modelling, for which no run is kept: five counters
in a loss report that add up to 2^64 read as no loss (`evidence.go:224`; that this
collector does not write such a report is part of `CompleteMeansLossless`); a write-open
that begins outside the target and ends inside is not counted, though
`docs/kernel-support.md:51` says that migration during the system call is
(`sensor.bpf.c:246` returns without an entry; moves *out* of the target are
counted, which is part of `NoSilentLoss`); an absent loss field makes evidence
`incomplete`, where `docs/event-schema.md:129` says `unknown`, and neither is
allowed; `docs/kernel-support.md:53` expects the three causes to sum up to the
aggregate, which a drop between two reads of `Loss()` can break in one direction
only (`CausesCoverCorrelation`).

### Bounds

* Collector: `MaxRecords` 2 to 4 records, `RingSlots` 1 or 2, `MaxDrops` 0 or 1,
  `maxTrackedProcesses` 1 or 2, `MaxClock` 1 or 2, `MaxSuspend` 0 or 1, `MaxRestarts` 0 or 1.
  Two slots are needed for two CPUs to disagree on an order, one tracked process
  for a map that a second process finds full, four records for exec, open, exec
  and open of one process with two images, and `maxEvents` 6 for a finished stream
  of seven events. The chain, the lifecycle and attribution do not depend on time,
  so `collector_stream` leaves the clock alone; losses counted by the kernel are in
  `collector_clock` and in `pipeline`, where they meet `Loss()` and the verifier. A second restart meets the
  same file as the first.
* KernelSensor: two threads, one slot, one map entry, three operations: the third
  meets a full ring and a full map while the others are in flight. `ThreadKey`
  adds a second thread of one process.
* Pipeline: one build, up to three records of a compiler and of a second process
  with another image, whose exec may have been seen, have found the process map
  full, or not have been seen; a record the decoder refuses; one kernel loss; two
  versions of the artifact, interchangeable and declared symmetric (no code looks
  at the bytes but to hash them).
* Firewall: 26 event streams, 16 statements, 9 policies and 3 artifacts, each
  deviating in one respect from the fixture of `verify_test.go`; all pairs of
  deviations in two files. `Wrap` is 64 and `maxValues` 2000, 50 in `bundle_size`,
  whose stream has three processes more than the fixture, where the real limit
  takes a few hundred. The scenarios about races have two versions of an input and
  up to two replacements: an old and a new value are all a mixture needs. An exclusive
output may be removed or replaced once while it is written. The two
  assemblers are interchangeable and declared symmetric.
* Lab: two rounds, so that a script meets what a killed one left; two runtime
  threads; one poll for the fifty of the script, as the marker may appear before or
  after the last one. Both mock servers use one port, as two runs of one script
  do; the two scripts have one each.
* Deadlock is not checked: every process of this system ends. That `Lab` ends well
  is `EverythingEnds`.

### Fairness

`collector_clock` assumes only that a collector that can take a step takes one
(its own process is scheduled); nothing is assumed of the build, the kernel or
the signal. `kernel_sensor` assumes that a BPF program and a system call, once
begun, end, that the collector reads the ring, and that a close once begun is
completed; that programs end is what the BPF verifier guarantees, and the links of a
process that dies are closed by the kernel. `lab` assumes that the host keeps running some process
that can run, time included: a deadline is a step a waiting process can take.
Nothing is assumed of single processes there, of kills or of restarts.

## 4. Proofs

These hold for every set of command lines, records, digests, documents, threads and
rounds, and for every bound; both refinements are among them. Every invariant and
every action property that a run shows to hold is stated by a theorem.

| Module | Theorem | Statement |
|---|---|---|
| `CollectorProofs` | `EvidenceIsChained` | `Spec => []StreamChained` |
|  | `EvidenceHasOneWriter` | `Spec => []WriterOwnsStream` |
|  | `EvidenceOnlyGrows` | `Spec => EvidenceAppendOnly` |
|  | `CollectorTypes` | `Spec => []TypeOK` |
| `LedgerProofs` | `CollectorKeepsLedger` | `Spec => ImplementsLedger` |
|  | `FinishedStreamsParse` | `Spec => []FinalizedStreamParses` |
|  | `ActivityIsAttributed` | `Spec => []AttributionSound` |
|  | `ProducerIsAttributed` | `Spec => []ProducerIsLastOpener` |
|  | `OnlyRecordsRace` | `Spec => []OnlyKernelRecordsRace` |
| `LossProofs` | `ReportedLossHasCause` | `Spec => []CausesCoverCorrelation` |
| `KernelSensorProofs` | `PendingIsCurrent` | `Spec => []PendingMatchesCall` |
|  | `LossIsNeverSilent` | `Spec => []NoSilentLoss` |
|  | `RecordsAreReal` | `Spec => []NoPhantomRecord` |
|  | `ProgramsKeepContract` | `Spec => KeepsContract` |
|  | `EveryLossCountedOnce` | `Spec => []LossCountedOnce` |
|  | `CausesAreComplete` | `Spec => []CausesAddUp` |
|  | `KernelTypes` | `Spec => []TypeOK` |
| `VerifierProofs` | `AllowedInputsAreAdmissible` | `Verify` allows only `Admissible` inputs, with any bundle (`ReportFits`, see below) |
|  | `AdmissibleInputsAreAllowed` | `Verify` allows `Admissible` inputs with the bundle `Assemble` makes of them |
|  | `AllowedInputsWereAssembled` | what `Verify` allows on the trace of an assembly is what was assembled |
| `FirewallProofs` | `TypeCorrect` | `Spec => []TypeOK` |
|  | `AllowIsAdmissibleAlways` | `Spec => []AllowIsAdmissible` (assuming `ReportsFit`) |
|  | `AdmissibleIsAllowedAlways` | `Spec => []AdmissibleIsAllowed` |
|  | `AllowMeansAssembledAlways` | `Spec => []AllowMeansAssembled` |
|  | `SuccessMeansWholeAlways` | `Spec => []SuccessMeansWhole` |
|  | `PublishedWholeAlways` | `Spec => []PublishedWhole` |
|  | `FinishedOutputStaysAlways` | `Spec => FinishedOutputStays` |
| `PipelineProofs` | `CompleteMeansLossless` | `Spec => []CompleteEvidenceIsLossless` |
|  | `AllowedReleaseIsWitnessed` | `PipelineSpec => []ReleaseIsWitnessed` |
|  | `ForbiddenIsNeverAllowed` | `PipelineSpec => []ForbiddenNeverAllowed` |
| `LabProofs` | `ProgramsRunConfined` | `Spec => []LabProgramsConfined` |
|  | `MarkersMeanListening` | `Spec => []ReadyMeansListening` |
|  | `ProofsShowMode` | `Spec => []ProofShowsMode` |
|  | `PassedScriptsDidTheirWork` | `Spec => []PassedScriptDidItsWork` |

**The chain** (`ChainInv`). `StreamChained` is not inductive: an append
keeps the file chained only when the chain in memory ends where the file ends
(`WriterOwnsStream`) and the first line was written under the same command line;
that in turn holds because `O_EXCL` lets only a process with a fresh chain and an
empty file through (`~exists => stream = << >>`, `pc = "started" => ...`). The
proof has a lemma about sealing (`SealedEvent`: an event carries the digest of its
own body, whatever placeholder was hashed), one about appending to a chain
(`ChainedAppend`), one for all writing steps (`WriteEventKeepsChain`) and one for
all others (`QuietStepKeepsChain`). `CollectorTypes` needs two more facts, kept in
`TypeInv`: `Loss()` has read all maps only in `final`, and the process map is
finite.

**The ledger** (`LifeInv`). What `ChainInv` does not know is where the lifecycle
stands: between `loss` and `final` the last event is `artifact_finalized`, in the
loop it is neither of the two final ones. `FileSteps` sorts all actions into those
that leave the file alone, the one that creates it, and the ones that write one
event whose operation fits the place in `main`; each kind then is a step of
`Ledger` or none. A step that ends the writer without writing is `Abandon`. That a
finished stream parses follows from the same two invariants.

**Attribution** (`AttributionInv`). The process map and the artifact producer are
caches of what the file says. While `main` may write, the map holds for each key
the process of the last `process_exec` of that key in the stream, and the producer
is the process of the last open of the artifact in it. The invariant has to speak
of `pc \in Writing` only: after a failed write of an exec the map is ahead of the
file, which is harmless because nothing is written any more, and a restart starts
with empty caches and cannot open the old file.

**The order of times** (`TimeInv`). With the build released after `sensor_started`
a program takes its time while `main` monitors. So, without a suspend, a time in the ring or in the stream is not before that of
`sensor_started` and not in the future, and an event that `main` stamps itself can
only be the latest. The pair left over is two kernel records.

**The loss report** (`LossInv`). While `Loss()` reads, programs go on counting.
The aggregate that has been read is covered by the causes already read plus those
still in the maps, which can only grow; the five maps are read with the aggregate
second and the causes after it, and the contract keeps the aggregate below its
causes at any moment.

**Complete evidence** (`WitnessInv`). Four counts move together: records decoded,
events written for them, `decodeLoss`, and losses known at the signal. While `main`
may write, `taken - KernelEvents <= decodeLoss` (`RecordInv`); what was missed before
the signal is covered by the counters read plus those still to be read, unless a map
could not be read (`ReportInv`). A refused record ends the loop, so there is none
while `main` reads and at most one when it finalizes: the one of the window between
the refusal and the context test (also in `ReportInv`). `KernelBounds` keeps all of it below `Wrap`, so that
the sum of `completeness` is zero only when every summand is.

**The programs** (`KernelInv`). An operation number is fresh and belongs to one
call (`IdInv`); links are closed only while closing and the maps are freed after
the last program; the build is released after the last attachment, so no call of the
target begins before that (`AttachInv`); an entry of `pending_opens` that the
exit program can still find, because it is attached or already runs, carries the
operation of the call its thread is in (`PendingInv`); what a running program will do agrees with its call
(`ProgramInv`). `NoSilentLoss` is proved one operation at a time (`Accounted`).
`CountInv` relates counters to sets: a program between its two increments is one
member of `CountingThreads`. `RingInv` pairs each busy slot with exactly one program
that will fill it, which is what `Submit` of the contract asks; `LimitInv` bounds
ring and map.

**The decision** (`VerifierProofs`). `Verify` allows exactly when every reason it
collected is harmless, so each check is turned into one fact about the documents and
the facts are put together to `Admissible`; in the other direction the bundle of
`Assemble` passes each comparison. The proof refuted an earlier form of the
reference: a policy list may contain the empty string, and an event without a
destination or a category would have matched it, where the code refuses such an
event; `BehaviourPermitted` now says so.

**The command** (`CommandInv`). What a process has read, written and judged agrees
with its place (`StageInv`), a name stands for an inode created under it (`NamesInv`),
and a document in the bundle directory comes from one assembly (`ContentInv`); the
theorems on decisions then follow from those about `Verify`. The file a command created exclusively, while it
still has its name, is there, and whole once it is written; a command that was not
displaced is the only one at work on that name (`OwnerInv`). Two assemblers that
hold one temporary name at once collide, and the collision lasts until a rename
fails; so when none failed, a part has one holder, with the temporary name and what
that one wrote, or is published whole (`BundleInv`, for `SuccessMeansWhole`). With one assembler a kill
leaves no torn part under a final name (`SoleInv`, `TidyInv`).

**The whole path** (`PathInv`). The steps of `Pipeline` keep the collector's
invariants (`CollectInv`). In addition the digest in the stream is that of the bytes
`main` hashed (`HashInv`), and a forbidden record has an event that shows it or was
counted (`ForbidInv`). Only finished evidence parses with `sensor_finalized`, and it
changes no more, so what `verify-fixture` found stays true (`ReleaseInv`).

**The lab**, in four invariants, each on top of the one before:

* `ConfineInv`: where the launcher stands tells what its thread has already given up
  (`Prepared`); before the goroutine is locked it has no other duty, after that no
  other thread matters. A program runs only if its launcher went all the way.
* `MarkerInv`: the server named by a marker is past `listen`, a port belongs to the
  server that listens on it, and nothing of a round runs before its script started it.
* `AnswerInv`: a client in a backlog or being served is connected to that server, and
  a reply is what `authorize` says in the mode of the server the client is connected to.
* `PassInv`: every position of the script stands for finished work of this round
  (`DoneInv`), and the artifact its fixture finished is whole unless another fixture
  has the same file open (`BuildInv`).

Assumptions, each evaluated by a run: `Wrap` is a natural above 1; `maxEvents`,
`maxTrackedProcesses`, `RingSlots`, `MaxPending`, `maxValues`, `MaxRounds` are naturals;
fewer than `Wrap` records and losses occur in a collection (`CountersAssumption`: 2^64
of them); a record has a time (`RecordsAssumption`); a thread has a leader
(`LeaderAssumption`); the assemblers are finitely many and are not the other commands
(`CommandAssumption`); the marks for an absent and for a half-written file are no
documents, and the first no command either (`NamesAssumption`); `EarlyBuild` is a Boolean
(`ReleaseAssumption`); scenarios start with files that have contents
(`ScenariosAssumption`); the lab has the programs of the two scripts
(`LabAssumption`). `AllowIsAdmissibleAlways` has one hypothesis more, that the loss
counters in an event document do not add up to 2^64 (`ReportsFit`): for a document
that did not come from this collector the code does allow it, see section 3. SHA-256
without collisions is part of the model.

Only model-checked: the liveness properties `SignalEndsCollector`, `PendingDrains` and
`EverythingEnds`, since fairness and `ENABLED` are outside the prover, and the six
runs that show a violation.

## 5. Not modelled

* JSON text: nesting depth, string length, duplicate keys, bytes per document.
  Documents either decode or do not. The token machine of `walkJSON` is a
  recursive-descent scan of one document without state that survives it; only its
  value count couples it to another component, and that is modelled.
* The checks of `Open` before a collection is loaded, one by one (`OpenSensor` may
  fail as a whole).
* Payloads nothing branches on: event ids, wall-clock times, uid and gid of an
  event, what commands print.
* Of the driver scripts: the sensor they start, sleep for and wait for (`Collector`
  has it, with signals at any time), the three launches of a shell in the cgroup
  (`test-adversarial-case.sh:100-108`; the launcher itself is modelled), and the greps
  over evidence and graph; the build and release scripts.
* A loss report of 2^64 among the inputs of `Firewall`: no run has it, see section 3.

## 6. Plan

1. Shorter proofs: the frame lemmas of `FirewallProofs` and `LabProofs` have much in
   common and can be stated once.
2. The converses of the violated properties: the exact conditions under which a
   finished stream is in order and has a graph, as theorems.
3. The single reads of the commands in `Pipeline`, if TLC can be made to bear it.
