------------------------------ MODULE Session ------------------------------
(***************************************************************************)
(* What PG-Prism promises of one session, with no futures, buffers, mutex  *)
(* or select!: PostgreSQL gets what the client sent without the refused    *)
(* messages, the client gets what PostgreSQL sent with the refusals mixed  *)
(* in, a refusal is given before anything behind the refused message is    *)
(* passed on, and each stream ends once, after the data.  Relay implements *)
(* it.                                                                     *)
(***************************************************************************)
EXTENDS Naturals, Sequences

CONSTANT Units      \* what the client's stream is made of: [msg, withheld]

VARIABLES
    asked,      \* the client's stream
    owed,       \* how much of it is not part of a statement cut short
    clientEnd,  \* "open", "eof", "lost" or "reset"
    replies,    \* the length of PostgreSQL's stream
    pgEnd,
    toPg,       \* positions of asked passed on to PostgreSQL
    pgFin,      \* and that stream has been ended
    toClient,   \* what the client was given: [from, n]
    clientFin,
    open        \* the session holds its sockets

requests == <<asked, owed, clientEnd>>
results == <<replies, pgEnd>>
up == <<toPg, pgFin>>
down == <<toClient, clientFin>>
vars == <<requests, results, up, down, open>>

Init ==
    /\ asked = <<>> /\ owed = 0 /\ clientEnd = "open"
    /\ replies = 0 /\ pgEnd = "open"
    /\ toPg = <<>> /\ pgFin = FALSE
    /\ toClient = <<>> /\ clientFin = FALSE
    /\ open = TRUE

Given(s, x) == \E i \in DOMAIN s : s[i] = x
Reply(n) == [from |-> "server", n |-> n]
Refusal(n) == [from |-> "refusal", n |-> n]

ClientGone == clientEnd = "reset" \/ clientFin

\* Position k is dealt with: passed on, or its refusal given to whoever is there.
Settled(k) ==
    IF asked[k].withheld THEN Given(toClient, Refusal(asked[k].msg)) \/ ClientGone
    ELSE Given(toPg, k)

-----------------------------------------------------------------------------
(* The peers.  A reset destroys what has not been taken yet, or part of it. *)

MayEnd(end, how) ==
    \/ end = "open" /\ how \in {"eof", "lost", "reset"}
    \/ end \in {"eof", "lost"} /\ how = "reset"

ClientSends ==
    /\ open /\ clientEnd = "open"
    /\ \E u \in Units : asked' = Append(asked, u)
    /\ owed' \in {Len(asked), Len(asked) + 1}
    /\ UNCHANGED <<clientEnd, results, up, down, open>>

ClientLeaves(how) ==
    /\ open /\ MayEnd(clientEnd, how)
    /\ clientEnd' = how
    /\ \E n \in 0 .. Len(asked) :
          /\ how # "reset" => n = Len(asked)
          /\ \A i \in DOMAIN toPg : toPg[i] =< n
          /\ asked' = SubSeq(asked, 1, n)
          /\ owed' \in 0 .. n
    /\ UNCHANGED <<results, up, down, open>>

PgReplies ==
    /\ open /\ pgEnd = "open"
    /\ replies' = replies + 1
    /\ UNCHANGED <<requests, pgEnd, up, down, open>>

PgLeaves(how) ==
    /\ open /\ MayEnd(pgEnd, how)
    /\ pgEnd' = how
    /\ replies' \in IF how = "reset" THEN 0 .. replies ELSE {replies}
    /\ \A n \in replies' + 1 .. replies : ~Given(toClient, Reply(n))
    /\ UNCHANGED <<requests, up, down, open>>

-----------------------------------------------------------------------------
(* The proxy.                                                              *)

Forward ==
    /\ open /\ ~pgFin /\ pgEnd # "reset"
    /\ \E k \in DOMAIN asked :
          /\ ~asked[k].withheld /\ ~Given(toPg, k)
          /\ \A j \in 1 .. k - 1 : Settled(j)
          /\ toPg' = Append(toPg, k)
    /\ UNCHANGED <<requests, results, pgFin, down, open>>

\* One refusal for each withheld message, in its turn.  Once PostgreSQL is
\* gone nothing is promised of what the rest of the stream is taken for.
Refuse ==
    /\ open /\ ~ClientGone
    /\ \E k \in DOMAIN asked :
          /\ \/ /\ asked[k].withheld /\ ~Given(toClient, Refusal(asked[k].msg))
                /\ \A j \in 1 .. k : asked[j].msg < asked[k].msg => Settled(j)
             \/ pgEnd = "reset"
          /\ toClient' = Append(toClient, Refusal(asked[k].msg))
    /\ UNCHANGED <<requests, results, up, clientFin, open>>

Deliver ==
    /\ open /\ ~ClientGone
    /\ \E n \in 1 .. replies :
          /\ ~Given(toClient, Reply(n))
          /\ \A m \in 1 .. n - 1 : Given(toClient, Reply(m))
          /\ toClient' = Append(toClient, Reply(n))
    /\ UNCHANGED <<requests, results, up, clientFin, open>>

\* PostgreSQL is told that nothing more comes: the client said so and all of
\* it was dealt with, or a connection broke.
EndRequests ==
    /\ open /\ ~pgFin
    /\ \/ clientEnd = "eof" /\ \A k \in 1 .. owed : Settled(k)
       \/ clientEnd = "reset" \/ pgEnd = "reset"
    /\ pgFin' = TRUE
    /\ UNCHANGED <<requests, results, toPg, down, open>>

EndResults ==
    /\ open /\ ~clientFin
    /\ \/ pgEnd \in {"eof", "reset"} /\ \A n \in 1 .. replies : Given(toClient, Reply(n))
       \/ clientEnd = "reset"
    /\ clientFin' = TRUE
    /\ UNCHANGED <<requests, results, up, toClient, open>>

\* The sockets are given up only after the client was told.
Close ==
    /\ open /\ clientFin
    /\ open' = FALSE
    /\ UNCHANGED <<requests, results, up, down>>

Next ==
    \/ ClientSends \/ PgReplies
    \/ \E how \in {"eof", "lost", "reset"} : ClientLeaves(how) \/ PgLeaves(how)
    \/ Forward \/ Refuse \/ Deliver \/ EndRequests \/ EndResults \/ Close

Spec == Init /\ [][Next]_vars
=============================================================================
