--------------------------- MODULE QueryProtocol ---------------------------
(***************************************************************************)
(* A session at the level of the query protocol: what the client and       *)
(* PostgreSQL each believe while Guardian answers some messages itself.    *)
(* Relay's streams, mutex and failures are abstracted to reliable queues   *)
(* of whole messages.                                                      *)
(*                                                                         *)
(* A cycle is one simple Query, or Parse, Bind, Execute and Sync of the    *)
(* unnamed statement; a client takes a cycle to be over at the next        *)
(* ReadyForQuery.  A message carries the cycle it belongs to; nobody on    *)
(* the wire sees that number.                                              *)
(***************************************************************************)
EXTENDS Naturals, Sequences, FiniteSets, SequencesExt

CONSTANTS
    MaxCycles,  \* bound: cycles the client starts
    Depth       \* bound: cycles a pipelining client has in flight

ASSUME QueryAssumption == MaxCycles \in Nat /\ Depth \in Nat \ {0}

\* Statements by what they do to PostgreSQL, and one that Guardian blocks.
Texts == {"begin", "commit", "read", "faulty", "blocked"}
NoText == "none"

VARIABLES
    patient,    \* the client waits for each cycle to be over
    cycles,     \* cycles the client has started: [text, extended]
    fromClient, \* on its way to client_to_server
    toPg,       \* on its way to PostgreSQL
    stmt,       \* PostgreSQL's unnamed prepared statement
    portal,     \* and its unnamed portal
    skip,       \* it discards messages up to the next Sync
    tx,         \* its transaction: "idle", "block" or "failed"
    ran,        \* what it ran, for which cycle
    fromPg,     \* on its way to server_to_client
    toClient,   \* on its way to the client
    ready,      \* ReadyForQuery messages the client has received
    strayed     \* it has taken an answer for that of another cycle

client == <<patient, cycles, ready, strayed>>
pg == <<stmt, portal, skip, tx, ran>>
vars == <<client, fromClient, toPg, pg, fromPg, toClient>>

Init ==
    /\ patient \in BOOLEAN
    /\ cycles = <<>> /\ ready = 0 /\ strayed = FALSE
    /\ fromClient = <<>> /\ toPg = <<>> /\ fromPg = <<>> /\ toClient = <<>>
    /\ stmt = NoText /\ portal = NoText /\ skip = FALSE /\ tx = "idle" /\ ran = <<>>

Msg(type, c) == [type |-> type, cycle |-> c]

-----------------------------------------------------------------------------
(* The client.                                                             *)

InFlight == IF ready > Len(cycles) THEN 0 ELSE Len(cycles) - ready

StartCycle(text, extended) ==
    /\ Len(cycles) < MaxCycles
    /\ InFlight < (IF patient THEN 1 ELSE Depth)
    /\ cycles' = Append(cycles, [text |-> text, extended |-> extended])
    /\ LET types == IF extended THEN <<"P", "B", "E", "S">> ELSE <<"Q">>
       IN  fromClient' = fromClient \o [i \in DOMAIN types |-> Msg(types[i], Len(cycles) + 1)]
    /\ UNCHANGED <<patient, ready, strayed, toPg, pg, fromPg, toClient>>

Receive ==
    /\ toClient # <<>>
    /\ toClient' = Tail(toClient)
    /\ strayed' = (strayed \/ Head(toClient).cycle # ready + 1)
    /\ ready' = IF Head(toClient).type = "ready" THEN ready + 1 ELSE ready
    /\ UNCHANGED <<patient, cycles, fromClient, toPg, pg, fromPg>>

-----------------------------------------------------------------------------
(* client_to_server and server_to_client.                                  *)

\* Mutant: only simple Query messages are looked at.
RefusesQueries(m) == m.type = "Q" /\ cycles[m.cycle].text = "blocked"

\* check_query on a small Query or Parse message.
Refuses(m) == m.type \in {"Q", "P"} /\ cycles[m.cycle].text = "blocked"

\* Mutant: no ReadyForQuery.
RefusalErrorOnly(m) == <<Msg("error", m.cycle)>>

\* ErrorResponse, ReadyForQuery; the message itself goes no further, and the
\* ones behind it are looked at on their own.
Refusal(m) == <<Msg("error", m.cycle), Msg("ready", m.cycle)>>

FilterThen(forwards) ==
    /\ fromClient # <<>>
    /\ fromClient' = Tail(fromClient)
    /\ LET m == Head(fromClient) IN
       /\ toClient' = IF Refuses(m) THEN toClient \o Refusal(m) ELSE toClient
       /\ toPg' = IF Refuses(m) /\ ~forwards THEN toPg ELSE Append(toPg, m)
    /\ UNCHANGED <<client, pg, fromPg>>

\* Mutant: the "continue" after a refusal is missing.
FilterForwards == FilterThen(TRUE)

Filter == FilterThen(FALSE)

Pass ==
    /\ fromPg # <<>>
    /\ toClient' = Append(toClient, Head(fromPg))
    /\ fromPg' = Tail(fromPg)
    /\ UNCHANGED <<client, fromClient, toPg, pg>>

-----------------------------------------------------------------------------
(* PostgreSQL's message loop.  An error in an extended message discards    *)
(* what follows up to a Sync; a simple Query drops the unnamed statement.  *)

Fails(text) == text = "faulty" \/ (tx = "failed" /\ text # "commit")

TxAfter(text) ==
    CASE Fails(text) -> IF tx = "idle" THEN "idle" ELSE "failed"
      [] text = "begin" -> "block"
      [] text = "commit" -> "idle"
      [] OTHER -> tx

Answer(types, c) == fromPg' = fromPg \o [i \in DOMAIN types |-> Msg(types[i], c)]

RunText(text, c) ==
    /\ tx' = TxAfter(text)
    /\ ran' = IF Fails(text) THEN ran ELSE Append(ran, [text |-> text, cycle |-> c])

Take(m) == toPg # <<>> /\ m = Head(toPg) /\ toPg' = Tail(toPg) /\ UNCHANGED <<client, fromClient, toClient>>

Discard(m) ==
    /\ Take(m) /\ skip /\ m.type # "S"
    /\ UNCHANGED <<pg, fromPg>>

ExecQuery(m) ==
    LET text == cycles[m.cycle].text IN
    /\ Take(m) /\ ~skip /\ m.type = "Q"
    /\ stmt' = NoText /\ portal' = NoText
    /\ RunText(text, m.cycle)
    /\ Answer(<<IF Fails(text) THEN "error" ELSE "result", "ready">>, m.cycle)
    /\ UNCHANGED skip

ExecParse(m) ==
    LET text == cycles[m.cycle].text
        bad == tx = "failed" /\ text # "commit"
    IN
    /\ Take(m) /\ ~skip /\ m.type = "P"
    /\ stmt' = IF bad THEN NoText ELSE text
    /\ skip' = bad
    /\ IF bad THEN Answer(<<"error">>, m.cycle) ELSE UNCHANGED fromPg
    /\ UNCHANGED <<portal, tx, ran>>

ExecBind(m) ==
    /\ Take(m) /\ ~skip /\ m.type = "B"
    /\ IF stmt = NoText
       THEN /\ Answer(<<"error">>, m.cycle) /\ skip' = TRUE
            /\ tx' = TxAfter("faulty") /\ UNCHANGED portal
       ELSE portal' = stmt /\ UNCHANGED <<fromPg, skip, tx>>
    /\ UNCHANGED <<stmt, ran>>

ExecExecute(m) ==
    /\ Take(m) /\ ~skip /\ m.type = "E"
    /\ RunText(portal, m.cycle)
    /\ skip' = Fails(portal)
    /\ Answer(<<IF Fails(portal) THEN "error" ELSE "result">>, m.cycle)
    /\ UNCHANGED <<stmt, portal>>

ExecSync(m) ==
    /\ Take(m) /\ m.type = "S"
    /\ skip' = FALSE /\ portal' = NoText
    /\ Answer(<<"ready">>, m.cycle)
    /\ UNCHANGED <<stmt, tx, ran>>

Postgres ==
    \E m \in ToSet(toPg) :
        \/ Discard(m) \/ ExecQuery(m)
        \/ ExecParse(m) \/ ExecBind(m) \/ ExecExecute(m) \/ ExecSync(m)

-----------------------------------------------------------------------------
Drained == fromClient = <<>> /\ toPg = <<>> /\ fromPg = <<>> /\ toClient = <<>>

Finished == Drained /\ Len(cycles) = MaxCycles /\ UNCHANGED vars

Next ==
    \/ \E text \in Texts, extended \in BOOLEAN : StartCycle(text, extended)
    \/ Receive \/ Filter \/ Pass \/ Postgres
    \/ Finished

Spec == Init /\ [][Next]_vars

\* Both futures are polled, PostgreSQL works off its input and the client reads.
FairSpec == Spec /\ WF_vars(Receive) /\ WF_vars(Filter) /\ WF_vars(Pass) /\ WF_vars(Postgres)

-----------------------------------------------------------------------------
RefusedParses == {c \in DOMAIN cycles : cycles[c].extended /\ cycles[c].text = "blocked"}

(***************************************************************************)
(* What PostgreSQL runs is a statement of this session that Guardian let   *)
(* through, although a refused Parse leaves the Bind and Execute behind it *)
(* on their way; and unless a Parse was refused it is the statement of the *)
(* very cycle, at most once.                                               *)
(***************************************************************************)
RunsWhatPassed ==
    /\ \A i \in DOMAIN ran : \E c \in 1 .. ran[i].cycle :
          cycles[c].text = ran[i].text /\ ran[i].text # "blocked"
    /\ \A i \in DOMAIN ran : ran[i].cycle \notin RefusedParses =>
          /\ ran[i].text = cycles[ran[i].cycle].text
          /\ \A j \in DOMAIN ran : ran[j].cycle = ran[i].cycle => j = i

(***************************************************************************)
(* A client that waits for each cycle to be over takes no answer for that  *)
(* of another cycle, although refusals bypass PostgreSQL: as long as what  *)
(* was refused was a simple Query.                                         *)
(***************************************************************************)
WaitingClientInStep == patient /\ RefusedParses = {} => ~strayed

(***************************************************************************)
(* Each refused Parse costs the client exactly one ReadyForQuery more than *)
(* it has cycles: its own, and the one for the Sync that still reaches     *)
(* PostgreSQL.  Nothing else unbalances the count, for a client that waits *)
(* or one that pipelines.                                                  *)
(***************************************************************************)
ReadyBalanced ==
    Drained => ready = Len(cycles) + Cardinality(RefusedParses)

\* A client that is owed a ReadyForQuery gets it, refused or not: nobody waits
\* on everybody.
CycleEnds == \A n \in 1 .. MaxCycles : Len(cycles) >= n ~> ready >= n

(***************************************************************************)
(* guide 4.2: "PG-Prism behaves like the database and returns an error".   *)
(* After an error in a Parse the database runs nothing of that cycle: it   *)
(* discards the messages up to the Sync.                                   *)
(***************************************************************************)
RefusedCycleRunsNothing == \A i \in DOMAIN ran : cycles[ran[i].cycle].text # "blocked"
=============================================================================
