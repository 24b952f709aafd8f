----------------------------- MODULE RecordSource -----------------------------
(***************************************************************************)
(* What the BPF programs promise the collector: a bounded ring in which a  *)
(* thread reserves a slot and fills it later, and five loss counters, of   *)
(* which a correlation failure bumps the one of its cause before the       *)
(* aggregate.  Collector runs against this contract; KernelSensor, the     *)
(* programs themselves, is shown to implement it.                          *)
(***************************************************************************)
EXTENDS Integers, Sequences

CONSTANTS
    Threads,     \* threads whose programs may run
    Records,     \* what a slot may be filled with, besides its pid and kind
    RingSlots    \* records that fit the ring buffer

VARIABLES
    ring,        \* ring-buffer slots in reservation order
    drops        \* the loss counters, summed over CPUs

Causes == { "path_read_drops", "map_update_drops", "cgroup_mismatch_drops" }
Counters == Causes \cup { "ringbuf_drops", "correlation_drops" }

\* A slot that a thread's program has reserved and not yet submitted.
Busy(pid) == [ kind |-> "busy", pid |-> pid ]

CausesCounted == drops["path_read_drops"] + drops["map_update_drops"]
                     + drops["cgroup_mismatch_drops"]

Fresh == ring = << >> /\ drops = [ c \in Counters |-> 0 ]

\* A thread runs one program at a time, different threads on different CPUs.
Reserve(pid) ==
    /\ Len(ring) < RingSlots
    /\ \A i \in 1..Len(ring) : ring[i] # Busy(pid)
    /\ ring' = Append(ring, Busy(pid))
    /\ drops' = drops

DropFull ==
    /\ Len(ring) = RingSlots
    /\ ring' = ring
    /\ drops' = [ drops EXCEPT !["ringbuf_drops"] = @ + 1 ]

Submit(i, record) ==
    /\ ring[i] = Busy(record.pid)
    /\ ring' = [ ring EXCEPT ![i] = record ]
    /\ drops' = drops

CauseDrop(cause) ==
    /\ drops' = [ drops EXCEPT ![cause] = @ + 1 ]
    /\ ring' = ring

CorrelationDrop ==
    /\ drops["correlation_drops"] < CausesCounted
    /\ drops' = [ drops EXCEPT !["correlation_drops"] = @ + 1 ]
    /\ ring' = ring

\* Slots are read in the order they were reserved, the oldest once submitted.
HeadReady == ring # << >> /\ ring[1].kind # "busy"

Consume ==
    /\ HeadReady
    /\ ring' = Tail(ring)
    /\ drops' = drops

\* The collection is loaded anew, or closed.
Reset == ring' = << >> /\ drops' = [ c \in Counters |-> 0 ]

Next ==
    \/ \E pid \in Threads : Reserve(pid)
    \/ DropFull
    \/ \E i \in 1..Len(ring), record \in Records : Submit(i, record)
    \/ \E cause \in Causes : CauseDrop(cause)
    \/ CorrelationDrop \/ Consume \/ Reset

Spec == Fresh /\ [][Next]_<< ring, drops >>
=============================================================================
