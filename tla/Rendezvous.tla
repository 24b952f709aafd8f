----------------------------- MODULE Rendezvous -----------------------------
(***************************************************************************)
(* The one-shot loopback peers of the lab: rpf-mock-server with            *)
(* rpf-local-connect, and rpf-authz-target with rpf-authz-proof.           *)
(*                                                                         *)
(* A server listens, creates its readiness marker exclusively, accepts one *)
(* connection and reads one message, each under a deadline.  The kernel    *)
(* completes a client's connection before the server accepts it, so a      *)
(* client may write, and even be done, while the server times out.  Time   *)
(* is abstracted: a deadline may pass whenever a process waits under it.   *)
(***************************************************************************)
EXTENDS Integers, Sequences

CONSTANTS
    Servers, Clients,   \* processes
    Port,               \* process -> the loopback port it listens on or dials
    Nobody

VARIABLES
    place,    \* process -> the call it stands before
    mode,     \* process -> --mode of the target, --expect of the proof
    holder,   \* port -> the server that listens on it
    ready,    \* port -> the server that created the readiness marker
    backlog,  \* server -> connected clients it has not accepted
    serving,  \* server -> the client whose connection it accepted
    peer,     \* client -> the server it is connected to
    sent,     \* client -> what it wrote
    reply     \* client -> what was written to it

sockets == << holder, ready, backlog, serving, peer, sent, reply >>
rendezvous == << place, mode, sockets >>

-----------------------------------------------------------------------------
Peers == Servers \cup Clients
Ports == { Port[p] : p \in Peers }

PeerEnded == { "ok", "failed" }

targetIdentity == "rpf-authz-fixture-v1"

\* The marker byte of rpf-local-connect, the request of rpf-authz-proof.
Marker == [ byte |-> "R" ]
ProofRequest ==
    [ target_identity |-> targetIdentity, session_role |-> "builder-reader",
      adapter_role |-> "builder-admin" ]

Answers(s) == mode[s] # Nobody   \* rpf-authz-target, not rpf-mock-server

\* Mutant: the patched target reads the role of the adapter as well.
authorizeByAdapter(targetMode, input) ==
    [ granted |-> /\ input.target_identity = targetIdentity
                  /\ input.adapter_role = "builder-admin" ]

\* The marker is in the response exactly when it is granted.
authorize(targetMode, input) ==
    LET role == IF targetMode = "intentionally-vulnerable"
                THEN input.adapter_role ELSE input.session_role
    IN  [ granted |-> input.target_identity = targetIdentity /\ role = "builder-admin" ]

RendezvousInit ==
    /\ place = [ p \in Peers |-> "idle" ]
    /\ mode = [ p \in Peers |-> Nobody ]
    /\ holder = [ q \in Ports |-> Nobody ] /\ ready = [ q \in Ports |-> Nobody ]
    /\ backlog = [ s \in Servers |-> << >> ] /\ serving = [ s \in Servers |-> Nobody ]
    /\ peer = [ c \in Clients |-> Nobody ]
    /\ sent = [ c \in Clients |-> Nobody ] /\ reply = [ c \in Clients |-> Nobody ]

Goes(p, to) == place' = [ place EXCEPT ![p] = to ]

\* The process ends and the kernel closes its listener.
ServerEnds(s, status) ==
    /\ Goes(s, status)
    /\ holder' = [ holder EXCEPT ![Port[s]] = IF @ = s THEN Nobody ELSE @ ]

-----------------------------------------------------------------------------
(* serve                                                                   *)

\* Mutant: the marker is created before the listener.
ListenAfterReady(s) ==
    /\ place[s] = "listen" /\ ready[Port[s]] = Nobody
    /\ ready' = [ ready EXCEPT ![Port[s]] = s ]
    /\ Goes(s, "ready")
    /\ UNCHANGED << mode, holder, backlog, serving, peer, sent, reply >>

\* Loopback address, marker path and mode are those of the scripts.
Listen(s) ==
    /\ place[s] = "listen"
    /\ \/ /\ holder[Port[s]] = Nobody
          /\ holder' = [ holder EXCEPT ![Port[s]] = s ]
          /\ Goes(s, "ready")
       \/ ServerEnds(s, "failed")   \* the address is in use, or another error
    /\ UNCHANGED << mode, ready, backlog, serving, peer, sent, reply >>

\* O_CREATE|O_EXCL, then the accept deadline is set.
CreateReady(s) ==
    /\ place[s] = "ready"
    /\ \/ /\ ready[Port[s]] = Nobody
          /\ ready' = [ ready EXCEPT ![Port[s]] = s ]
          /\ Goes(s, "accept")
          /\ UNCHANGED holder
       \/ ServerEnds(s, "failed") /\ UNCHANGED ready
    /\ UNCHANGED << mode, backlog, serving, peer, sent, reply >>

Accept(s) ==
    /\ place[s] = "accept" /\ backlog[s] # << >>
    /\ serving' = [ serving EXCEPT ![s] = Head(backlog[s]) ]
    /\ backlog' = [ backlog EXCEPT ![s] = Tail(@) ]
    /\ Goes(s, "read")
    /\ UNCHANGED << mode, holder, ready, peer, sent, reply >>

\* Mutant: what was read is not looked at.
ReadAnything(s) ==
    LET client == serving[s]
    IN  /\ place[s] = "read" /\ (sent[client] # Nobody \/ place[client] \in PeerEnded)
        /\ ServerEnds(s, "ok")
        /\ UNCHANGED << mode, ready, backlog, serving, peer, sent, reply >>

\* The mock compares the byte; the target answers the request.
ReadMessage(s) ==
    LET client == serving[s]
    IN  /\ place[s] = "read" /\ sent[client] # Nobody
        /\ \/ /\ ~Answers(s) /\ sent[client] = Marker
              /\ ServerEnds(s, "ok")
              /\ UNCHANGED reply
           \/ /\ Answers(s) /\ sent[client] # Marker
              /\ reply' = [ reply EXCEPT ![client] = authorize(mode[s], sent[client]) ]
              /\ ServerEnds(s, "ok")
        /\ UNCHANGED << mode, ready, backlog, serving, peer, sent >>

\* Mutant: the listener and the connection have no deadline.
WaitForever(s) ==
    /\ place[s] = "read" /\ place[serving[s]] \in PeerEnded /\ sent[serving[s]] = Nobody
    /\ ServerEnds(s, "failed")
    /\ UNCHANGED << mode, ready, backlog, serving, peer, sent, reply >>

\* The accept deadline or the read deadline passes, the client closes without a
\* message, or writing the response fails.
ServerError(s) ==
    /\ place[s] \in { "accept", "read" }
    /\ ServerEnds(s, "failed")
    /\ UNCHANGED << mode, ready, backlog, serving, peer, sent, reply >>

ServerStep(s) == Listen(s) \/ CreateReady(s) \/ Accept(s) \/ ReadMessage(s) \/ ServerError(s)

-----------------------------------------------------------------------------
(* run of rpf-local-connect, prove of rpf-authz-proof                      *)

Dial(c) ==
    /\ place[c] = "dial"
    /\ LET s == holder[Port[c]]
       IN  \/ /\ s # Nobody
              /\ peer' = [ peer EXCEPT ![c] = s ]
              /\ backlog' = [ backlog EXCEPT ![s] = Append(@, c) ]
              /\ Goes(c, "write")
           \/ Goes(c, "failed") /\ UNCHANGED << peer, backlog >>   \* refused, or timed out
    /\ UNCHANGED << mode, holder, ready, serving, sent, reply >>

\* A write to a connection the server has closed may still succeed.
Write(c) ==
    /\ place[c] = "write"
    /\ \/ /\ sent' = [ sent EXCEPT ![c] = IF mode[c] = Nobody THEN Marker ELSE ProofRequest ]
          /\ Goes(c, IF mode[c] = Nobody THEN "ok" ELSE "receive")
       \/ Goes(c, "failed") /\ UNCHANGED sent
    /\ UNCHANGED << mode, holder, ready, backlog, serving, peer, reply >>

Receive(c) ==
    /\ place[c] = "receive" /\ reply[c] # Nobody
    /\ Goes(c, IF reply[c].granted = (mode[c] = "grant") THEN "ok" ELSE "failed")
    /\ UNCHANGED << mode, sockets >>

\* The connection ends without a response, or its deadline passes.
ReceiveError(c) ==
    /\ place[c] = "receive"
    /\ Goes(c, "failed")
    /\ UNCHANGED << mode, sockets >>

ClientStep(c) == Dial(c) \/ Write(c) \/ Receive(c) \/ ReceiveError(c)
=============================================================================
