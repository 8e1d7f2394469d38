------------------------------ MODULE Listener ------------------------------
(***************************************************************************)
(* The accept loop of main.rs, after the start that Boot describes, and    *)
(* what it shares with the tasks it spawns: the process's file             *)
(* descriptors.  A connection holds one from accept() on and a second one  *)
(* from when its task begins to connect to PostgreSQL.  When none is free  *)
(* accept() fails, and so does the connection upstream.                    *)
(***************************************************************************)
EXTENDS Boot, FiniteSets, FiniteSetsExt

CONSTANTS
    Clients,
    MaxFds,         \* descriptors left to connections (RLIMIT_NOFILE)
    FirstBackoff,   \* the first pause of a failing listener (10 ms)
    MaxBackoff      \* ACCEPT_BACKOFF_MAX (1 s)

ASSUME ListenerAssumption ==
    /\ IsFiniteSet(Clients)
    /\ MaxFds \in Nat \ {0}
    /\ FirstBackoff \in Nat \ {0} /\ MaxBackoff \in Nat /\ FirstBackoff =< MaxBackoff

VARIABLES
    conn,       \* where each client's connection is
    backlog,    \* the kernel's queue of connections not yet accepted
    listener,   \* the loop is in "accept" or in "sleep"
    backoff

loop == <<conn, backlog, listener, backoff>>
vars == <<boot, loop>>

Init ==
    /\ BootInit
    /\ conn = [c \in Clients |-> "away"]
    /\ backlog = <<>>
    /\ listener = "accept"
    /\ backoff = 0

\* The descriptors a connection holds.
Fds(state) ==
    CASE state = "handshake" -> 1
      [] state \in {"connecting", "relay"} -> 2
      [] OTHER -> 0

FdsInUse == MapThenSumSet(LAMBDA c : Fds(conn[c]), Clients)
FdFree == FdsInUse < MaxFds

-----------------------------------------------------------------------------
(* The clients, and the kernel that queues them.                           *)

Arrive(c) ==
    /\ proc = "serving" /\ conn[c] = "away"
    /\ conn' = [conn EXCEPT ![c] = "pending"]
    /\ backlog' = Append(backlog, c)
    /\ UNCHANGED <<boot, listener, backoff>>

-----------------------------------------------------------------------------
(* The loop in main.                                                       *)

\* listener.accept() returned a socket: spawn a task for it.
Accept ==
    /\ proc = "serving" /\ listener = "accept" /\ backlog # <<>> /\ FdFree
    /\ conn' = [conn EXCEPT ![Head(backlog)] = "handshake"]
    /\ backlog' = Tail(backlog)
    /\ backoff' = 0
    /\ UNCHANGED <<boot, listener>>

\* Mutant: the pause doubles without a ceiling.
NextBackoffUnbounded == IF backoff = 0 THEN FirstBackoff ELSE backoff * 2

NextBackoff == IF backoff = 0 THEN FirstBackoff ELSE Min({backoff * 2, MaxBackoff})

\* accept() failed: for want of a descriptor, or the client at the head of
\* the queue has gone.
AcceptFails ==
    /\ proc = "serving" /\ listener = "accept" /\ backlog # <<>>
    /\ \/ ~FdFree /\ UNCHANGED <<conn, backlog>>
       \/ conn' = [conn EXCEPT ![Head(backlog)] = "away"] /\ backlog' = Tail(backlog)
    /\ backoff' = NextBackoff
    /\ listener' = "sleep"
    /\ UNCHANGED boot

\* tokio::time::sleep is over.
Wake ==
    /\ listener = "sleep"
    /\ listener' = "accept"
    /\ UNCHANGED <<boot, conn, backlog, backoff>>

-----------------------------------------------------------------------------
(* The tasks (see Handshake and Relay).                                    *)

\* connect_upstream has got a socket.
Connecting(c) ==
    /\ conn[c] = "handshake" /\ FdFree
    /\ conn' = [conn EXCEPT ![c] = "connecting"]
    /\ UNCHANGED <<boot, backlog, listener, backoff>>

\* It succeeded.
Connected(c) ==
    /\ conn[c] = "connecting"
    /\ conn' = [conn EXCEPT ![c] = "relay"]
    /\ UNCHANGED <<boot, backlog, listener, backoff>>

\* Mutant: a task that finds no descriptor waits for one.
WaitsForFd(c) ==
    /\ conn[c] = "connecting" \/ (conn[c] = "handshake" /\ FdFree)
    /\ conn' = [conn EXCEPT ![c] = "away"]
    /\ UNCHANGED <<boot, backlog, listener, backoff>>

\* It failed, perhaps for want of a descriptor, or the handshake did.
TurnedAway(c) ==
    /\ conn[c] \in {"handshake", "connecting"}
    /\ conn' = [conn EXCEPT ![c] = "away"]
    /\ UNCHANGED <<boot, backlog, listener, backoff>>

SessionEnds(c) ==
    /\ conn[c] = "relay"
    /\ conn' = [conn EXCEPT ![c] = "away"]
    /\ UNCHANGED <<boot, backlog, listener, backoff>>

\* A restart drops every connection, established or queued.
Crash ==
    /\ Killed
    /\ conn' = [c \in Clients |-> "away"] /\ backlog' = <<>>
    /\ listener' = "accept" /\ backoff' = 0

Task(c) == Connecting(c) \/ Connected(c) \/ TurnedAway(c) \/ SessionEnds(c)

Main == Accept \/ AcceptFails \/ Wake

Next ==
    \/ Booting /\ UNCHANGED loop
    \/ Crash
    \/ Main
    \/ \E c \in Clients : Arrive(c) \/ Task(c)

Spec == Init /\ [][Next]_vars

(***************************************************************************)
(* Fairness.  The runtime polls main and fires its timer; a handshake is   *)
(* over by its deadline, as is the connection upstream (Handshake shows    *)
(* it).  A session is not asked to end: an idle one may last for ever.  No *)
(* start is asked to succeed.                                              *)
(***************************************************************************)
FairSpec ==
    /\ Spec
    /\ WF_vars(Main)
    /\ \A c \in Clients : WF_vars(Connecting(c) \/ Connected(c) \/ TurnedAway(c))

-----------------------------------------------------------------------------
TypeOK ==
    /\ proc \in {"down", "starting", "certificate", "generate", "export", "load", "bind", "bound", "serving"}
    /\ env \in Environments
    /\ p12 \in {"absent", "damaged", "whole"} /\ crt \in BOOLEAN /\ openssl \in {"ok", "failed"}
    /\ conn \in [Clients -> {"away", "pending", "handshake", "connecting", "relay"}]
    /\ backlog \in Seq(Clients)
    /\ listener \in {"accept", "sleep"}
    /\ backoff \in {0} \cup (FirstBackoff .. MaxBackoff)

\* c waits to be accepted although established sessions leave a descriptor.
KeptOut(c) ==
    /\ conn[c] = "pending"
    /\ 2 * Cardinality({d \in Clients : conn[d] = "relay"}) < MaxFds

(***************************************************************************)
(* Running out of descriptors is survived: a client that waits to be       *)
(* accepted is, or leaves, unless established sessions alone hold every    *)
(* descriptor.  Connections that say nothing, failed accepts, the pauses   *)
(* after them and tasks that need a second descriptor never keep it out.   *)
(***************************************************************************)
Served == \A c \in Clients : KeptOut(c) ~> ~KeptOut(c)
=============================================================================
