-------------------------------- MODULE Ledger --------------------------------
(***************************************************************************)
(* What the evidence file is to everybody who reads it: a log with one     *)
(* writer, created once, never resumed, in which every entry continues the *)
(* chain and the lifecycle, and which may end in a cut line when its       *)
(* writer failed.  Collector, with its crashes, failed writes and further  *)
(* starts on the same path, is shown to implement it.                      *)
(***************************************************************************)
EXTENDS Evidence

VARIABLES
    status,     \* "absent", "open" for its one writer, or "closed" for good
    entries,    \* the complete lines
    damaged     \* a cut line follows them

ledger == << status, entries, damaged >>

Last == entries[Len(entries)]

\* The operations that may stand behind the entries written so far.
InLifecycle(operation) ==
    /\ operation = "sensor_started" <=> entries = << >>
    /\ operation = "sensor_finalized" <=> entries # << >> /\ Last.operation = "artifact_finalized"
    /\ entries # << >> => Last.operation # "sensor_finalized"

Continues(entry) ==
    /\ validateEvent(entry)
    /\ InLifecycle(entry.operation)
    /\ entry.sequence = Len(entries) + 1
    /\ entry.previous_event_hash = IF entries = << >> THEN zeroHash ELSE Last.event_hash
    /\ entry.event_hash = eventDigest(entry)
    /\ entries # << >> => entry.build = Last.build /\ entry.sensor = Last.sensor

LedgerInit == status = "absent" /\ entries = << >> /\ damaged = FALSE

Create == status = "absent" /\ status' = "open" /\ UNCHANGED << entries, damaged >>

\* The writer may end with the write: its last event, or a failed sync.
Write ==
    /\ status = "open" /\ status' \in { "open", "closed" }
    /\ Len(entries') = Len(entries) + 1
    /\ entries' = Append(entries, entries'[Len(entries) + 1])
    /\ Continues(entries'[Len(entries) + 1])
    /\ damaged' = damaged

\* The writer ends, perhaps in the middle of a line.
Abandon ==
    /\ status = "open" /\ status' = "closed"
    /\ entries' = entries /\ damaged' \in BOOLEAN

LedgerNext == Create \/ Write \/ Abandon

LedgerSpec == LedgerInit /\ [][LedgerNext]_ledger
=============================================================================
