------------------------------- MODULE Relay -------------------------------
(***************************************************************************)
(* The forwarding half of one PG-Prism session (proxy.rs, handle_client    *)
(* from the split of the sockets to the end).  One task drives two futures *)
(* that interleave at every await:                                         *)
(*                                                                         *)
(*   client_to_server  reads the client message by message, lets Guardian  *)
(*                     look at small Query and Parse messages, answers a   *)
(*                     refused one itself and forwards everything else;    *)
(*   server_to_client  copies whatever PostgreSQL sends, chunk by chunk.   *)
(*                                                                         *)
(* Both write to the client, so the client's write half is behind a mutex. *)
(* A select! ends the session, asymmetrically.                             *)
(*                                                                         *)
(* Streams are append-only histories with read cursors.  A unit of the     *)
(* client's stream is a message header (type byte and length) or one       *)
(* transfer-buffer-sized piece of a payload; a unit of PostgreSQL's stream *)
(* is what one read of the socket returns.  A reset may destroy what its   *)
(* reader has not taken yet, all of it or the tail of it.  A piece arrives *)
(* as a whole or not at all: of a bulk message cut inside a piece, the     *)
(* bytes of that piece are read by read_exact and lost when it fails, and  *)
(* here they are not part of the stream.                                   *)
(***************************************************************************)
EXTENDS Integers, Sequences, FiniteSets

CONSTANTS
    Shapes,         \* the kinds of message the client may send
    InspectLimit,   \* Guardian looks at payloads shorter than this (1024)
    TransferBuf,    \* transfer_buf.len(): the chunk of a blind forward (8192)
    MaxMsgs,        \* bound: messages the client starts
    MaxSrv,         \* bound: reads PostgreSQL's stream is cut into
    Cuts,           \* whether such a read may end a message, or inside one
    ClientCap,      \* what the kernel buffers for a client that is not reading
    PgCap,          \* and for a PostgreSQL that is not reading
    ClientTls       \* whether the client's side is encrypted

(***************************************************************************)
(* A message is its type byte, the length it declares and whether          *)
(* Guardian's lists for this session match it (check_query is false).      *)
(***************************************************************************)
ASSUME RelayAssumption ==
    /\ Shapes \subseteq [type : {"Q", "P", "other"}, len : Nat, forbidden : BOOLEAN]
    /\ Shapes # {}
    /\ InspectLimit \in Nat \ {0}
    /\ TransferBuf \in Nat \ {0}
    /\ InspectLimit =< TransferBuf
    /\ MaxMsgs \in Nat
    /\ MaxSrv \in Nat
    /\ Cuts \subseteq BOOLEAN
    /\ ClientCap \in Nat \ {0}
    /\ PgCap \in Nat \ {0}
    /\ ClientTls \in BOOLEAN

\* msg_len.saturating_sub(4): a declared length below four means no payload.
PayloadLen(m) == IF m.len >= 4 THEN m.len - 4 ELSE 0

\* The number of reads the payload takes in the blind-forward loop.
Chunks(m) == (PayloadLen(m) + (TransferBuf - 1)) \div TransferBuf

\* Which messages Guardian looks at.
Inspected(m) == m.type \in {"Q", "P"} /\ PayloadLen(m) < InspectLimit

VARIABLES
    msgs,       \* messages the client has started, in order
    cs,         \* the client's stream: units [msg, part], part 0 is the header
    cEnd,       \* the client's end of its connection
    cRead,      \* how much of toClient the client has taken off its socket
    rd,         \* units of cs that client_to_server has read
    at,         \* the first unit in its buffers that is not written upstream
    left,       \* pieces of the current payload not yet read
    c2s,        \* where client_to_server is
    cur,        \* the message it takes the header it read last for
    toPg,       \* positions of cs written to PostgreSQL, in order
    pgFin,      \* pg_write_half is shut down
    ss,         \* PostgreSQL's stream: TRUE for a unit that ends a message
    pgEnd,      \* PostgreSQL's end of its connection
    pgRead,     \* how much of toPg PostgreSQL has taken off its socket
    srd,        \* units of ss that server_to_client has read
    s2c,        \* where server_to_client is
    lock,       \* who holds client_write_half
    toClient,   \* what was written to the client, in order
    clientFin,  \* client_write_half is shut down
    phase       \* where the select! at the end of handle_client is

clientVars == <<msgs, cs, cEnd, cRead>>
c2sVars    == <<rd, at, left, c2s, cur>>
upVars     == <<toPg, pgFin>>
pgVars     == <<ss, pgEnd, pgRead>>
s2cVars    == <<srd, s2c>>
downVars   == <<toClient, clientFin>>
vars == <<clientVars, c2sVars, upVars, pgVars, s2cVars, lock, downVars, phase>>

\* An end of a connection: "lost" is unreachable without a FIN or a RST.
Ends == {"open", "eof", "reset", "lost"}

C2sPoints == {"header", "inspect", "lock", "error", "ready", "writeHeader",
              "writeBody", "readChunk", "writeChunk", "shutdown", "done"}

S2cPoints == {"read", "lock", "write", "shutdown", "close", "done"}

Phases == {"both", "awaitServer", "drain", "closed"}

\* What a reset may leave of a stream of which n units were read.
Kept(s, n) == {SubSeq(s, 1, k) : k \in n .. Len(s)}

\* What the client is sent: a unit of ss, or Guardian's answer to a message.
Sent == [from : {"server", "error", "ready"}, n : Nat]

Init ==
    /\ msgs = <<>> /\ cs = <<>> /\ cEnd = "open" /\ cRead = 0
    /\ rd = 0 /\ at = 1 /\ left = 0 /\ c2s = "header"
    /\ cur = CHOOSE m \in Shapes : TRUE
    /\ toPg = <<>> /\ pgFin = FALSE
    /\ ss = <<>> /\ pgEnd = "open" /\ pgRead = 0
    /\ srd = 0 /\ s2c = "read"
    /\ lock = "free"
    /\ toClient = <<>> /\ clientFin = FALSE
    /\ phase = "both"

-----------------------------------------------------------------------------
(* The client: sends whole or truncated messages, half-closes, resets,     *)
(* disappears, and reads when it likes.                                    *)

\* The client has sent all of what it started.
AtBoundary ==
    cs # <<>> => cs[Len(cs)].part = Chunks(msgs[Len(msgs)])

ClientStarts(m) ==
    /\ phase # "closed" /\ cEnd = "open" /\ AtBoundary /\ Len(msgs) < MaxMsgs
    /\ msgs' = Append(msgs, m)
    /\ cs' = Append(cs, [msg |-> Len(msgs) + 1, part |-> 0])
    /\ UNCHANGED <<cEnd, cRead, c2sVars, upVars, pgVars, s2cVars, lock, downVars, phase>>

ClientContinues ==
    /\ phase # "closed" /\ cEnd = "open" /\ ~AtBoundary
    /\ cs' = Append(cs, [msg |-> Len(msgs), part |-> cs[Len(cs)].part + 1])
    /\ UNCHANGED <<msgs, cEnd, cRead, c2sVars, upVars, pgVars, s2cVars, lock, downVars, phase>>

ClientEnds(how) ==
    /\ phase # "closed"
    /\ \/ how \in {"eof", "lost"} /\ cEnd = "open"
       \/ how = "reset" /\ cEnd \in {"open", "eof"}
    /\ cEnd' = how
    /\ cs' \in IF how = "reset" THEN Kept(cs, rd) ELSE {cs}
    /\ UNCHANGED <<msgs, cRead, c2sVars, upVars, pgVars, s2cVars, lock, downVars, phase>>

ClientReads ==
    /\ phase # "closed" /\ cEnd \in {"open", "eof"} /\ cRead < Len(toClient)
    /\ cRead' = cRead + 1
    /\ UNCHANGED <<msgs, cs, cEnd, c2sVars, upVars, pgVars, s2cVars, lock, downVars, phase>>

-----------------------------------------------------------------------------
(* PostgreSQL: sends messages cut at any byte, closes, crashes, disappears, *)
(* and reads when it likes.                                                 *)

PgSends(last) ==
    /\ phase # "closed" /\ pgEnd = "open" /\ Len(ss) < MaxSrv
    /\ ss' = Append(ss, last)
    /\ UNCHANGED <<clientVars, c2sVars, upVars, pgEnd, pgRead, s2cVars, lock, downVars, phase>>

PgEnds(how) ==
    /\ phase # "closed"
    /\ \/ how \in {"eof", "lost"} /\ pgEnd = "open"
       \/ how = "reset" /\ pgEnd \in {"open", "eof"}
    /\ pgEnd' = how
    /\ ss' \in IF how = "reset" THEN Kept(ss, srd) ELSE {ss}
    /\ UNCHANGED <<clientVars, c2sVars, upVars, pgRead, s2cVars, lock, downVars, phase>>

PgReads ==
    /\ phase # "closed" /\ pgEnd = "open" /\ pgRead < Len(toPg)
    /\ pgRead' = pgRead + 1
    /\ UNCHANGED <<clientVars, c2sVars, upVars, ss, pgEnd, s2cVars, lock, downVars, phase>>

\* Mutant: keepalive is not enabled on the client's socket, which stays as it is.
KeepaliveUpstreamOnly ==
    /\ phase # "closed"
    /\ \/ cEnd = "lost" /\ UNCHANGED pgEnd
       \/ pgEnd = "lost" /\ pgEnd' = "reset"
    /\ UNCHANGED <<clientVars, c2sVars, upVars, ss, pgRead, s2cVars, lock, downVars, phase>>

(***************************************************************************)
(* configure_socket turns keepalive on for both sockets: an unreachable    *)
(* peer becomes a failed one.  What it sent before has arrived or has not. *)
(***************************************************************************)
KeepaliveFails ==
    /\ phase # "closed"
    /\ \/ cEnd = "lost" /\ cEnd' = "reset" /\ cs' \in Kept(cs, rd) /\ UNCHANGED <<pgEnd, ss>>
       \/ pgEnd = "lost" /\ pgEnd' = "reset" /\ ss' \in Kept(ss, srd) /\ UNCHANGED <<cEnd, cs>>
    /\ UNCHANGED <<msgs, cRead, pgRead, c2sVars, upVars, s2cVars, lock, downVars, phase>>

-----------------------------------------------------------------------------
(* client_to_server.  It runs until the select! drops it.                  *)

C2sRuns == phase \in {"both", "drain"}

\* What the sockets do for a write: it fails once the peer has reset the
\* connection or the proxy has shut it down, and it waits, with no deadline,
\* while the kernel's buffer for a peer that does not read is full.
PgBroken == pgEnd = "reset"
PgWritable == ~PgBroken /\ Len(toPg) - pgRead < PgCap
ClientBroken == cEnd = "reset" \/ clientFin
ClientWritable == ~ClientBroken /\ Len(toClient) - cRead < ClientCap

\* n more units can be read; a read that can never be satisfied fails.
Readable(n) == rd + n =< Len(cs)

ReadFails(n) == cEnd \in {"reset", "eof"} /\ rd + n > Len(cs)

(***************************************************************************)
(* read_u8 and read_exact of the length.  Whatever unit comes next is      *)
(* taken for a header; a piece of a payload taken for one may look like    *)
(* any message.                                                            *)
(***************************************************************************)
ReadHeader ==
    /\ C2sRuns /\ c2s = "header" /\ Readable(1)
    /\ rd' = rd + 1 /\ at' = rd + 1
    /\ \E m \in IF cs[rd + 1].part = 0 THEN {msgs[cs[rd + 1].msg]} ELSE Shapes :
          /\ cur' = m
          /\ left' = Chunks(m)
          /\ c2s' = IF Inspected(m) THEN "inspect" ELSE "writeHeader"
    /\ UNCHANGED <<clientVars, upVars, pgVars, s2cVars, lock, downVars, phase>>

ReadHeaderFails ==
    /\ C2sRuns /\ c2s = "header" /\ ReadFails(1)
    /\ c2s' = "shutdown"
    /\ UNCHANGED <<clientVars, rd, at, left, cur, upVars, pgVars, s2cVars, lock, downVars, phase>>

\* read_exact of query_buf and, with no await in between, check_query.
InspectBody ==
    /\ C2sRuns /\ c2s = "inspect" /\ Readable(left)
    /\ rd' = rd + left /\ left' = 0
    /\ c2s' = IF cur.forbidden THEN "lock" ELSE "writeHeader"
    /\ UNCHANGED <<clientVars, at, cur, upVars, pgVars, s2cVars, lock, downVars, phase>>

InspectBodyFails ==
    /\ C2sRuns /\ c2s = "inspect" /\ ReadFails(left)
    /\ c2s' = "shutdown"
    /\ UNCHANGED <<clientVars, rd, at, left, cur, upVars, pgVars, s2cVars, lock, downVars, phase>>

\* Mutant: a refusal that finds the client's write half taken is not given.
TryLockForRefusal ==
    /\ C2sRuns /\ c2s = "lock"
    /\ IF lock = "free" THEN lock' = "c2s" /\ c2s' = "error" ELSE c2s' = "header" /\ UNCHANGED lock
    /\ UNCHANGED <<clientVars, rd, at, left, cur, upVars, pgVars, s2cVars, downVars, phase>>

\* A refused message: take the client's write half, ErrorResponse, ReadyForQuery.
LockForRefusal ==
    /\ C2sRuns /\ c2s = "lock" /\ lock = "free"
    /\ lock' = "c2s" /\ c2s' = "error"
    /\ UNCHANGED <<clientVars, rd, at, left, cur, upVars, pgVars, s2cVars, downVars, phase>>

WriteErrorThen(point, holder) ==
    /\ C2sRuns /\ c2s = "error" /\ ClientWritable
    /\ toClient' = Append(toClient, [from |-> "error", n |-> cs[rd].msg])
    /\ c2s' = point /\ lock' = holder
    /\ UNCHANGED <<clientVars, rd, at, left, cur, upVars, pgVars, s2cVars, clientFin, phase>>

\* Mutants: the guard is dropped between the two writes; no ReadyForQuery follows.
WriteErrorUnlocks == WriteErrorThen("ready", "free")
WriteErrorAlone == WriteErrorThen("header", "free")

WriteError == WriteErrorThen("ready", "c2s")

\* A failed ErrorResponse skips the ReadyForQuery; the loop goes on.
WriteErrorFails ==
    /\ C2sRuns /\ c2s = "error" /\ ClientBroken
    /\ lock' = "free" /\ c2s' = "header"
    /\ UNCHANGED <<clientVars, rd, at, left, cur, upVars, pgVars, s2cVars, downVars, phase>>

WriteReadyThen(point) ==
    /\ C2sRuns /\ c2s = "ready"
    /\ \/ ClientWritable /\ toClient' = Append(toClient, [from |-> "ready", n |-> cs[rd].msg])
       \/ ClientBroken /\ UNCHANGED toClient
    /\ lock' = "free" /\ c2s' = point
    /\ UNCHANGED <<clientVars, rd, at, left, cur, upVars, pgVars, s2cVars, clientFin, phase>>

\* Mutants: the "continue" after a refusal is missing; a refusal ends the loop.
WriteReadyThenForward == WriteReadyThen("writeHeader")
WriteReadyBreaks == WriteReadyThen("shutdown")

WriteReady == WriteReadyThen("header")

\* The type byte and the length go upstream, of an inspected message or not.
WriteHeader ==
    /\ C2sRuns /\ c2s = "writeHeader" /\ PgWritable
    /\ toPg' = Append(toPg, at) /\ at' = at + 1
    /\ c2s' = IF rd > at THEN "writeBody" ELSE IF left > 0 THEN "readChunk" ELSE "header"
    /\ UNCHANGED <<clientVars, rd, left, cur, pgFin, pgVars, s2cVars, lock, downVars, phase>>

WriteBody ==
    /\ C2sRuns /\ c2s = "writeBody" /\ PgWritable
    /\ toPg' = Append(toPg, at) /\ at' = at + 1
    /\ c2s' = "header"
    /\ UNCHANGED <<clientVars, rd, left, cur, pgFin, pgVars, s2cVars, lock, downVars, phase>>

WriteMessageFails ==
    /\ C2sRuns /\ c2s \in {"writeHeader", "writeBody"} /\ PgBroken
    /\ c2s' = "shutdown"
    /\ UNCHANGED <<clientVars, rd, at, left, cur, upVars, pgVars, s2cVars, lock, downVars, phase>>

ReadChunk ==
    /\ C2sRuns /\ c2s = "readChunk" /\ Readable(1)
    /\ rd' = rd + 1 /\ c2s' = "writeChunk"
    /\ UNCHANGED <<clientVars, at, left, cur, upVars, pgVars, s2cVars, lock, downVars, phase>>

WriteChunkCounting(n) ==
    /\ C2sRuns /\ c2s = "writeChunk" /\ PgWritable
    /\ toPg' = Append(toPg, at) /\ at' = at + 1
    /\ left' = left - n
    /\ c2s' = IF left > 1 THEN "readChunk" ELSE "header"
    /\ UNCHANGED <<clientVars, rd, cur, pgFin, pgVars, s2cVars, lock, downVars, phase>>

\* Mutant: a chunk is counted twice.
WriteChunkTwice == WriteChunkCounting(2)

WriteChunk == WriteChunkCounting(1)

\* Both breaks of the chunk loop leave that loop only: the next unit of the
\* stream, if there is one, is read as a header.
ChunkFails ==
    /\ C2sRuns
    /\ \/ c2s = "readChunk" /\ ReadFails(1)
       \/ c2s = "writeChunk" /\ PgBroken
    /\ c2s' = "header"
    /\ UNCHANGED <<clientVars, rd, at, left, cur, upVars, pgVars, s2cVars, lock, downVars, phase>>

ShutdownPgTo(fin) ==
    /\ C2sRuns /\ c2s = "shutdown"
    /\ pgFin' = fin /\ c2s' = "done"
    /\ UNCHANGED <<clientVars, rd, at, left, cur, toPg, pgVars, s2cVars, lock, downVars, phase>>

\* Mutant: the half-close is not propagated.
ShutdownPgOmitted == ShutdownPgTo(pgFin)

ShutdownPg == ShutdownPgTo(TRUE)

-----------------------------------------------------------------------------
(* server_to_client.                                                       *)

S2cRuns == phase \in {"both", "awaitServer"}

ReadServer ==
    /\ S2cRuns /\ s2c = "read" /\ srd < Len(ss)
    /\ srd' = srd + 1 /\ s2c' = "lock"
    /\ UNCHANGED <<clientVars, c2sVars, upVars, pgVars, lock, downVars, phase>>

\* Ok(0), or an error, after everything that can be read.
ReadServerEnds ==
    /\ S2cRuns /\ s2c = "read"
    /\ pgEnd \in {"reset", "eof"} /\ srd = Len(ss)
    /\ s2c' = "shutdown"
    /\ UNCHANGED <<clientVars, c2sVars, upVars, pgVars, srd, lock, downVars, phase>>

\* Mutant: a chunk that finds the client's write half taken is dropped.
TryLockForRelay ==
    /\ S2cRuns /\ s2c = "lock"
    /\ IF lock = "free" THEN lock' = "s2c" /\ s2c' = "write" ELSE s2c' = "read" /\ UNCHANGED lock
    /\ UNCHANGED <<clientVars, c2sVars, upVars, pgVars, srd, downVars, phase>>

LockForRelay ==
    /\ S2cRuns /\ s2c = "lock" /\ lock = "free"
    /\ lock' = "s2c" /\ s2c' = "write"
    /\ UNCHANGED <<clientVars, c2sVars, upVars, pgVars, srd, downVars, phase>>

WriteClient ==
    /\ S2cRuns /\ s2c = "write" /\ ClientWritable
    /\ toClient' = Append(toClient, [from |-> "server", n |-> srd])
    /\ lock' = "free" /\ s2c' = "read"
    /\ UNCHANGED <<clientVars, c2sVars, upVars, pgVars, srd, clientFin, phase>>

WriteClientFails ==
    /\ S2cRuns /\ s2c = "write" /\ ClientBroken
    /\ lock' = "free" /\ s2c' = "shutdown"
    /\ UNCHANGED <<clientVars, c2sVars, upVars, pgVars, srd, downVars, phase>>

LockForShutdown ==
    /\ S2cRuns /\ s2c = "shutdown" /\ lock = "free"
    /\ lock' = "s2c" /\ s2c' = "close"
    /\ UNCHANGED <<clientVars, c2sVars, upVars, pgVars, srd, downVars, phase>>

\* Of a TLS stream shutdown() first writes a close_notify: it waits for room,
\* with the mutex held.  Its result is ignored.
ShutdownClient ==
    /\ S2cRuns /\ s2c = "close" /\ (ClientTls => ClientWritable \/ ClientBroken)
    /\ clientFin' = TRUE /\ lock' = "free" /\ s2c' = "done"
    /\ UNCHANGED <<clientVars, c2sVars, upVars, pgVars, srd, toClient, phase>>

-----------------------------------------------------------------------------
(* The select! that ends the session.                                      *)

SelectClientDoneTo(next) ==
    /\ phase = "both" /\ c2s = "done"
    /\ phase' = next
    /\ UNCHANGED <<clientVars, c2sVars, upVars, pgVars, s2cVars, lock, downVars>>

\* Mutant: the session ends with whichever direction finishes first.
SelectClientDoneEnds == SelectClientDoneTo("closed")

\* The client's direction finished: wait for PostgreSQL's, with no deadline.
SelectClientDone == SelectClientDoneTo("awaitServer")

\* PostgreSQL's direction finished: give the client's drain_timeout.
SelectServerDone ==
    /\ phase = "both" /\ s2c = "done"
    /\ phase' = "drain"
    /\ UNCHANGED <<clientVars, c2sVars, upVars, pgVars, s2cVars, lock, downVars>>

SessionEnds ==
    /\ \/ phase = "awaitServer" /\ s2c = "done"
       \/ phase = "drain" /\ c2s = "done"
    /\ phase' = "closed"
    /\ UNCHANGED <<clientVars, c2sVars, upVars, pgVars, s2cVars, lock, downVars>>

DrainEnds(overdue) ==
    /\ phase = "drain" /\ overdue
    /\ phase' = "closed" /\ lock' = "free"
    /\ UNCHANGED <<clientVars, c2sVars, upVars, pgVars, s2cVars, downVars>>

\* Mutant: wait for the client without a deadline, as try_join! did.
DrainWithoutTimeout == DrainEnds(c2s = "done")

\* The timeout drops client_to_server wherever it is, and with it the sockets.
DrainTimeout == DrainEnds(TRUE)

Terminated == phase = "closed" /\ UNCHANGED vars

-----------------------------------------------------------------------------
Client ==
    \/ \E m \in Shapes : ClientStarts(m)
    \/ ClientContinues
    \/ \E how \in {"eof", "reset", "lost"} : ClientEnds(how)
    \/ ClientReads

Pg ==
    \/ \E last \in Cuts : PgSends(last)
    \/ \E how \in {"eof", "reset", "lost"} : PgEnds(how)
    \/ PgReads

ClientToServer ==
    \/ ReadHeader \/ ReadHeaderFails
    \/ InspectBody \/ InspectBodyFails
    \/ LockForRefusal \/ WriteError \/ WriteErrorFails \/ WriteReady
    \/ WriteHeader \/ WriteBody \/ WriteMessageFails
    \/ ReadChunk \/ WriteChunk \/ ChunkFails
    \/ ShutdownPg

ServerToClient ==
    \/ ReadServer \/ ReadServerEnds
    \/ LockForRelay \/ WriteClient \/ WriteClientFails
    \/ LockForShutdown \/ ShutdownClient

Select == SelectClientDone \/ SelectServerDone \/ SessionEnds \/ DrainTimeout

Next == Client \/ Pg \/ KeepaliveFails \/ ClientToServer \/ ServerToClient \/ Select \/ Terminated

Spec == Init /\ [][Next]_vars

(***************************************************************************)
(* Fairness.  The runtime polls a future that can progress; tokio's mutex  *)
(* hands itself over in FIFO order, hence SF for the three lock steps; the *)
(* drain timer fires; the kernel declares a lost peer dead.  Nothing is    *)
(* asked of the client; of PostgreSQL, not that it reads, only that it     *)
(* closes once it has read its input to the end.                           *)
(***************************************************************************)
ProxyFairness ==
    /\ WF_vars(ClientToServer)
    /\ WF_vars(ServerToClient)
    /\ WF_vars(Select)
    /\ SF_vars(LockForRefusal)
    /\ SF_vars(LockForRelay)
    /\ SF_vars(LockForShutdown)
    /\ WF_vars(KeepaliveFails)

PeerFairness == WF_vars(pgFin /\ pgRead = Len(toPg) /\ PgEnds("eof"))

FairSpec == Spec /\ ProxyFairness /\ PeerFairness

-----------------------------------------------------------------------------
TypeOK ==
    /\ msgs \in Seq(Shapes)
    /\ cs \in Seq([msg : Nat, part : Nat])
    /\ cEnd \in Ends
    /\ cRead \in Nat
    /\ rd \in Nat /\ at \in Nat /\ left \in Nat
    /\ c2s \in C2sPoints
    /\ cur \in Shapes
    /\ toPg \in Seq(Nat)
    /\ pgFin \in BOOLEAN
    /\ ss \in Seq(BOOLEAN)
    /\ pgEnd \in Ends
    /\ pgRead \in Nat
    /\ srd \in Nat
    /\ s2c \in S2cPoints
    /\ lock \in {"free", "c2s", "s2c"}
    /\ toClient \in Seq(Sent)
    /\ clientFin \in BOOLEAN
    /\ phase \in Phases

\* What README.md promises to keep from PostgreSQL: a Query or Parse smaller
\* than the inspection size that matches one of the session's lists.
Refusable(m) ==
    /\ m.type \in {"Q", "P"} /\ m.len < InspectLimit + 4
    /\ m.forbidden

Withheld(k) == Refusable(msgs[cs[k].msg])

Forwarded(k) == \E j \in 1 .. Len(toPg) : toPg[j] = k

(***************************************************************************)
(* PostgreSQL gets the client's stream with the refused messages cut out   *)
(* and nothing else changed: no unit is repeated or overtaken, none of a   *)
(* refused message gets through, and none that precedes a forwarded one is *)
(* missing, so every payload stays behind its own header whatever fails    *)
(* (the chunk loop's breaks included).                                     *)
(***************************************************************************)
PgStreamFaithful ==
    /\ \A i, j \in 1 .. Len(toPg) : i < j => toPg[i] < toPg[j]
    /\ \A i \in 1 .. Len(toPg) :
          /\ toPg[i] \in 1 .. rd
          /\ ~Withheld(toPg[i])
          /\ \A k \in 1 .. toPg[i] : Withheld(k) \/ Forwarded(k)

\* The message k belongs to ends before its last piece and is one Guardian
\* wanted to see whole.
CutShort(k) ==
    /\ Inspected(msgs[cs[k].msg])
    /\ cs[k].msg = Len(msgs)
    /\ cs[Len(cs)].part < Chunks(msgs[Len(msgs)])

(***************************************************************************)
(* The half-close given to PostgreSQL comes after the data: while both     *)
(* connections work, everything the client sent before its own half-close  *)
(* was forwarded or refused, except a statement it cut short itself.       *)
(***************************************************************************)
FinAfterData ==
    pgFin /\ pgEnd # "reset" /\ cEnd # "reset" =>
        \A k \in 1 .. Len(cs) : Withheld(k) \/ Forwarded(k) \/ CutShort(k)

Delivered(k) == \E i \in 1 .. Len(toClient) : toClient[i] = [from |-> "server", n |-> k]

(***************************************************************************)
(* The client gets PostgreSQL's stream in order and without a gap, however *)
(* Guardian's answers are mixed into it.                                   *)
(***************************************************************************)
ServerStreamInOrder ==
    \A i \in 1 .. Len(toClient) : toClient[i].from = "server" =>
        /\ \A j \in 1 .. i - 1 : toClient[j].from = "server" => toClient[j].n < toClient[i].n
        /\ \A k \in 1 .. toClient[i].n : Delivered(k)

(***************************************************************************)
(* The proxy closes the stream of a client that is still connected only    *)
(* after PostgreSQL's has ended and all of it that arrived was passed on:  *)
(* also for a half-closed client, for which server_to_client is awaited    *)
(* with no deadline, and also when PostgreSQL crashes.                     *)
(***************************************************************************)
EofAfterResults ==
    (clientFin \/ phase = "closed") /\ cEnd # "reset" =>
        pgEnd \in {"eof", "reset"} /\ \A k \in 1 .. Len(ss) : Delivered(k)

(***************************************************************************)
(* Guardian's answer is never torn: its ErrorResponse is directly followed *)
(* by its ReadyForQuery, which never appears on its own, although          *)
(* server_to_client writes to the same socket between any two awaits.      *)
(***************************************************************************)
RefusalWhole ==
    /\ \A i \in 1 .. Len(toClient) - 1 : toClient[i].from = "error" =>
          toClient[i + 1] = [from |-> "ready", n |-> toClient[i].n]
    /\ \A i \in 1 .. Len(toClient) : toClient[i].from = "ready" =>
          i > 1 /\ toClient[i - 1] = [from |-> "error", n |-> toClient[i].n]

(***************************************************************************)
(* The refinement mapping.  A refusal has been given once its              *)
(* ReadyForQuery is written (RefusalWhole says that its ErrorResponse      *)
(* stands before it); the mutex and the control points are hidden.         *)
(***************************************************************************)
AskedUnits == [k \in 1 .. Len(cs) |-> [msg |-> cs[k].msg, withheld |-> Withheld(k)]]

Unbroken == {k \in 1 .. Len(cs) : ~CutShort(k)}

\* All that is written to the client but ErrorResponses, by its place among it.
ShownAt == {i \in 1 .. Len(toClient) : toClient[i].from # "error"}
Place(i) == Cardinality({j \in ShownAt : j =< i})
MemberOf(S) == CHOOSE x \in S : TRUE

AsShown(x) == IF x.from = "ready" THEN [from |-> "refusal", n |-> x.n] ELSE x

Shown == [k \in 1 .. Cardinality(ShownAt) |->
             AsShown(toClient[MemberOf({i \in ShownAt : Place(i) = k})])]

Promise == INSTANCE Session WITH
    Units <- [msg : 1 .. MaxMsgs, withheld : BOOLEAN],
    asked <- AskedUnits, owed <- Cardinality(Unbroken), clientEnd <- cEnd,
    replies <- Len(ss), toClient <- Shown, open <- phase # "closed"

(***************************************************************************)
(* The two futures, the mutex and the select! implement Session: they do   *)
(* in some order what a relay of whole streams would do, refusals are      *)
(* given in their turn, and no stream ends and no session closes early,    *)
(* whatever fails and in whatever order the awaits return.                 *)
(***************************************************************************)
ImplementsSession == Promise!Spec

(***************************************************************************)
(* write_all has no deadline in either direction, so a peer that stays     *)
(* connected and does not read can hold a direction for ever.  Stuffed: a  *)
(* write to the client, or the close_notify of its TLS stream, waits for   *)
(* the client.  Clogged: a write upstream waits for PostgreSQL.  Unread:   *)
(* PostgreSQL leaves what it was sent where it is, blocked writer or not.  *)
(* The properties below say that nothing else lasts.                       *)
(***************************************************************************)
Stuffed ==
    /\ phase # "closed"
    /\ \/ s2c = "write" \/ c2s \in {"error", "ready"}
       \/ ClientTls /\ s2c = "close"
    /\ cEnd \in {"open", "eof"} /\ ~ClientWritable /\ ~ClientBroken

Unread == phase # "closed" /\ pgEnd = "open" /\ pgRead < Len(toPg)

Clogged == Unread /\ c2s \in {"writeHeader", "writeBody", "writeChunk"} /\ ~PgWritable

(***************************************************************************)
(* A client that stops sending, cleanly or not, is made known to           *)
(* PostgreSQL, unless a write of client_to_server's waits for ever: for    *)
(* the client to read, or for PostgreSQL, which then never hears of it.    *)
(***************************************************************************)
ClientEndReachesPg ==
    (cEnd # "open" ~> pgFin \/ phase = "closed") \/ <>[]Stuffed \/ <>[]Clogged

(***************************************************************************)
(* A session whose client is gone ends and frees both sockets, if          *)
(* PostgreSQL reads what it is sent: server_to_client is awaited with no   *)
(* deadline, and a PostgreSQL that hangs keeps the session.                *)
(***************************************************************************)
ClientEndClosesSession == (cEnd # "open" ~> phase = "closed") \/ <>[]Stuffed \/ <>[]Unread

\* A session whose PostgreSQL is gone ends, whatever client_to_server waits
\* for and also if the client ignores the close.
PgEndClosesSession == (pgEnd # "open" ~> phase = "closed") \/ <>[]Stuffed

\* A refused statement is answered unless the client or PostgreSQL has left.
RefusalAnswered ==
    \/ c2s = "lock" ~>
          \/ toClient # <<>> /\ toClient[Len(toClient)].from = "ready" /\ c2s = "header"
          \/ ClientBroken \/ phase = "closed"
    \/ <>[]Stuffed

(***************************************************************************)
(* guide 4.2: "PG-Prism behaves like the database and returns an error".   *)
(* The database never puts a message inside another one.                   *)
(***************************************************************************)
ServerMessagesWhole ==
    \A i \in 1 .. Len(toClient) - 1 :
        toClient[i].from = "server" /\ ~ss[toClient[i].n] => toClient[i + 1].from = "server"

(***************************************************************************)
(* proxy.rs: "Anything at or above the inspection size is forwarded        *)
(* without being looked at", so Guardian answers only a small statement.   *)
(***************************************************************************)
OnlySmallStatementsAnswered ==
    \A i \in 1 .. Len(toClient) :
        toClient[i].from = "error" => Refusable(msgs[toClient[i].n])
=============================================================================
