# A TLA+ model of PG-Prism

PG-Prism is a proxy between a load balancer and PostgreSQL. It takes the
client's address from a PROXY v1 header, writes it into the session's
`application_name`, applies an optional rule engine (Guardian) to connections
and small statements, and otherwise forwards bytes. This directory models the
Rust core under `src/core/rust/src` in TLA+, checks it with TLC and proves with
TLAPS, for every value of the constants, every safety property that the passing
runs check.

`PROJECT.json` is the index: components, runs, the source lines behind every
definition, hazards, findings and theorems.

## 1. The system

| Part | Source | State | Operations |
|---|---|---|---|
| start of the process | `main.rs` 16-84, `limits.rs`, `tls.rs`, `Guardian::load`, `TrustedProxies::from_env` | the configuration; `server.key`, `server.crt` and `identity.p12` on disk | read and validate the configuration, make or load the TLS identity, bind |
| accept loop | `main.rs` 82-113 | backoff; shares the descriptor table with the tasks | accept, back off, spawn a task per connection |
| handshake | `proxy.rs` 139-324, 484-622 | one socket, a `BufReader`, the packet read last, the TLS stream | trust check, PROXY header, SSL/GSSENC negotiation, startup message, CancelRequest, version check, Guardian, upstream connection, all but the last few under one deadline |
| startup message | `protocol.rs` | none | `extract_user_db`, `inject_ip_startup`, `format_application_name` |
| Guardian | `guardian.rs` | rules, fixed after loading | `check_connection` (first match), `time_in_range`, `check_query` (whole tokens) |
| query protocol | `proxy.rs` 337-377, 417-430 | none in the proxy; the client's count of open cycles, PostgreSQL's unnamed statement, portal and transaction | refuse or forward one message |
| relay | `proxy.rs` 321-463 | two sockets, a mutex on the client's write half, two futures under a `select!` | `client_to_server`, `server_to_client`, end of session |
| trusted proxies, rejection log | `trust.rs` | allowlist, fixed; last timestamp and count of swallowed rejections | `is_trusted`, `should_log` |

How they interact. `main` spawns one task per connection; tasks share only the
configuration, the rejection log and the process's descriptors. Inside a task
everything is sequential up to the split of the sockets. From there two futures
of one task interleave at every `await`, and both write to the client.

What is hard here:

- the two directions of a session write to one socket, and Guardian's answer is
  two writes;
- a session must neither end too early (a half-closed client still reads its
  results, a crashed PostgreSQL's last bytes are still on their way) nor stay
  for ever (a peer that disappears, a client that ignores the close);
- every read and write may fail, and one `break` leaves only the inner of two
  loops;
- `BufReader::into_inner` discards what was read ahead, at five places;
- the handshake has a dozen exits, each of which must or must not tell the
  client something and must or must not touch the backend;
- the user Guardian judges is computed by one function, the message PostgreSQL
  gets by another, and PostgreSQL parses it by rules of its own;
- a refusal is decided message by message, while client and server think in
  cycles of several messages;
- an IPv4 address has two notations, and the trust check and Guardian's rules
  treat them differently;
- a start that fails or is killed half way leaves files that the next start
  takes for its own;
- PostgreSQL expands and cuts `application_name` after the proxy did;
- the rejection log takes its timestamp before the mutex and writes after it;
- descriptors run out, in `accept()` and in a task that needs its second one.

`PROJECT.json` lists these as hazards, each at its line with the properties that
would catch it going wrong, or a note on why none does yet.

## 2. Modules

| Module | Models | Abstraction |
|---|---|---|
| `Relay` | `handle_client` from the split to the end | streams are histories with read cursors; a unit is a header or one transfer-buffer-sized piece of a payload; each socket has a bounded buffer (`ClientCap`, `PgCap`) that its peer empties when it likes (`cRead`, `pgRead`) |
| `Session` | the promise of one session, as an abstract specification | two streams, one of them filtered, refusals in their turn, each stream ended once and after the data |
| `RelayProofs` | proofs about `Relay` | |
| `RelayRefinement` | proof that `Relay` implements `Session` | |
| `QueryProtocol` | the message filter between a client and PostgreSQL's message loop | reliable queues of whole messages; a cycle is a simple Query or Parse, Bind, Execute and Sync of the unnamed statement |
| `QueryProofs` | proofs about `QueryProtocol` | |
| `Handshake` | `handle_client` up to the split, `perform_handshake`, `connect_upstream` | a unit is a PROXY line, a startup-phase packet, a ClientHello or data; Guardian's verdict and the trust check are free choices |
| `HandshakeProofs` | proofs about `Handshake` | |
| `Startup` | `protocol.rs`, and PostgreSQL's reading of a startup packet | words are sequences of characters with their UTF-8 length and stored length; the names of parameters are one character long; PostgreSQL's cuts to `NAMEDATALEN` - 1 are `PgCut` (user, database) and `PgStored` (`application_name`) |
| `StartupProofs` | lemmas about `Startup`: what its loops compute for every input | |
| `Cidr` | addresses and blocks (external) | a family and bits; a prefix for the IPv4-mapped addresses |
| `Trust` | `TrustedProxies` | a list is what stands between its commas |
| `Guardian` | `check_connection`'s tests, `time_in_range`, `check_query` | times are minutes, an `Option` is a set of at most one element |
| `Admission` | one connection's data through `Trust`, `Startup` and `Guardian` | sequential; no failures |
| `AdmissionProofs` | proofs about `Admission` | |
| `RejectionLog` | `should_log` and its caller's `warn!`, run by many tasks | a clock of bounded ticks |
| `RejectionLogProofs` | proofs about `RejectionLog` | |
| `Boot` | `main` up to the accept loop, with `Limits::from_env`, `Guardian::load`, `ensure_ssl_certificates` and `load_tls_acceptor` | an identity is absent, damaged (whatever `load_tls_acceptor` refuses) or whole; a rule is what stands behind each field name, sensible, meaningless or of the wrong type; the process may be killed at any point and start again in another environment |
| `Listener` | `Boot`, then the accept loop and the descriptors | a connection is away, pending, in its handshake, connecting upstream or in its session, and holds two descriptors from connecting on |
| `ListenerProofs` | proofs about `Boot` and `Listener` | |
| `MC...` | instances for TLC | |

Names follow the source. Each module's actions are the awaits of the code: an
action covers what happens between two points where another future, another
task or the network can intervene. In `Relay`, `ReadHeader` reads type and length
and decides between the inspected and the blind path; `InspectBody`,
`LockForRefusal`, `WriteError` and `WriteReady` are the refused statement;
`WriteHeader` and `WriteBody` the allowed one; `ReadChunk` and `WriteChunk` the
blind loop, whose failures (`ChunkFails`) go back to the outer loop as the code's
`break` does; `ShutdownPg` is what follows the loop. `ReadServer`, `LockForRelay`,
`WriteClient`, `LockForShutdown` and `ShutdownClient` are `server_to_client`, and `SelectClientDone`,
`SelectServerDone`, `SessionEnds` and `DrainTimeout` are the `select!`.

`Relay` implements `Session`. The mapping (`Promise` in `Relay`) takes the client's
stream with a mark on what is withheld for `asked`, what was handed to each peer
for what it was given, a refusal for given once its second half is written, and
the phase of the `select!` for whether the session is open; the futures, the
mutex, the buffers and the phase disappear. `Session` says what the separate
invariants do not: a refusal is given after everything before the refused
message was passed on and before anything behind it is, once. It promises
nothing of refusals after PostgreSQL's connection broke, because the code reads
the rest of a bulk message as messages then (finding 2).

`QueryProtocol` looks at the same session from further away. `Relay` shows that
the streams are faithful; `QueryProtocol` takes them for reliable and asks what
a client and PostgreSQL make of a stream with some messages missing and some
answers added. PostgreSQL's message loop is external: it is modelled from the
protocol's rules for the unnamed statement.

The peers are external and adversarial only in what TCP lets happen: a client
sends whole or truncated messages, half-closes, resets or becomes unreachable;
PostgreSQL sends, closes or crashes. A reset may destroy any tail of what its
reader has not taken yet. An unreachable peer turns into a reset when keepalive
gives up. A write waits, in either direction and with no deadline, while the
buffer is full, and so does the close_notify that `shutdown()` writes to a client
with TLS (`ClientTls`).

`Guardian::load` reads rules leniently, and `LoadRules` does the same: a rule needs
its name and action and no known field of the wrong type (`Deserializes`), and is
kept with its known fields only (`Deserialized`).

Operators named in comments as *Mutant* are not part of the specification. Each
is a plausible mistake in the code that makes one property fail; `PROJECT.json`
says which.

## 3. Runs

| Run | Instance | Question | Result |
|---|---|---|---|
| `relay_safety` | two messages of five shapes, two server chunks, buffer 2 to the client and 1 to PostgreSQL, TLS | are both streams faithful, half-closes last, answers whole, under every interleaving and failure, and is every step one of `Session`? | holds |
| `relay_live` | two messages of two shapes, one server chunk, buffers of 1, TLS, fairness | does a session end when either side is gone, does PostgreSQL hear of it, is a refusal answered? | holds, unless a peer stays connected and stops reading for good |
| `relay_whole_messages` | two shapes, server messages of one or more chunks | can an answer land inside a PostgreSQL message? | it can (finding) |
| `relay_answers` | two shapes | is only a small statement ever answered? | no, after a failure in a bulk message (finding) |
| `handshake` | four units of ten kinds, waiting and pipelining clients, TLS on and off, fairness | trust check, verdict before backend, one packet per backend connection, diagnostics, TLS, nothing lost for a client that waits; does every connection get out of its handshake? | holds, 2.1 million states |
| `handshake_pipelined` | three units | does the proxy forward what a client sends behind its startup message? | not if it was read ahead (finding) |
| `handshake_cancel` | four units through TLS | is every CancelRequest relayed? | not inside TLS (finding) |
| `admission` | twelve peers, four allowlists, messages of up to three parameters and five endings, names up to and beyond the limit, three rulesets, a day of five minutes, all statements of up to four characters | is exactly the listed peer admitted, does PostgreSQL start the session Guardian judged (up to its cut of long names), with the address stored uncut and the message grown within bounds, and do the verdicts equal their reference definitions? | holds, 4.8 million states |
| `rejection_log` | five tasks, interval 2, six ticks | lines apart, rate bounded, nothing lost or counted twice | holds |
| `listener` | 1050 environments, kills at any point, four clients, four descriptors, fairness | does the proxy run as configured, keep TLS, and serve a waiting client unless sessions hold every descriptor? | holds |
| `query_protocol` | three cycles of five statements, simple or extended, one or two in flight, fairness | is nothing refused ever run, who gets out of step, is every cycle answered? | holds |
| `query_refusal` | two cycles | does PostgreSQL run anything for a refused cycle? | it does (finding) |

Why the bounds are enough. In `Relay` two messages are the least for an order to
be wrong, for a failure in the first to shift the reading of the second, and for
an answer to follow a forwarded message; a bulk payload of two chunks is the
least with a chunk between; the five shapes sit on both sides of the inspection
size, at it, and below the length field's own size; two server chunks are the
least for an answer to come between; a socket buffer of two lets a write block
between the two halves of an answer, and one of one lets a write upstream block
between a header and its payload. In `Handshake` the way through TLS takes four units, the longest
refused path takes fewer, and the ten kinds take every path there is (a message
with a bad length or data in the clear takes that of any other non-packet). In `Admission` three parameters allow a repeated key
with an empty one between, the limit of 11 stored characters leaves room for one
character that costs four but not for one that costs eight, names of eleven
bytes and more end at the limit, behind it and inside a character, and the statements
allow a word at each end and inside another; the addresses include an IPv4 one,
its mapped twin and an IPv6 one that is neither, and one ruleset lists IPv6 blocks
of both kinds. In `QueryProtocol` one cycle
leaves a statement behind, the second is refused and the third shows whether the
client is still in step. In `Listener` the environments hold each kind of
malformed, absent and proper setting at least once, one setting out of order at
a time or several, and rules with a misspelled field, a meaningless block, a
missing action and a mistyped window; four descriptors are used up by two
sessions and also by one and two handshakes. In `RejectionLog` two lines can be
allowed and written in either order with rejections before, between and after.
For the invariants that section 5 proves the bounds do not matter: the theorems
hold for all of them.

### Properties

Relay: `PgStreamFaithful` (PostgreSQL gets the client's stream minus what
Guardian refuses, in order, without gaps), `FinAfterData`, `ServerStreamInOrder`,
`EofAfterResults`, `RefusalWhole`; live: `ClientEndReachesPg`,
`ClientEndClosesSession`, `PgEndClosesSession`, `RefusalAnswered`; and
`ImplementsSession`.
QueryProtocol: `RunsWhatPassed`, `WaitingClientInStep`, `ReadyBalanced`; live:
`CycleEnds`.
Handshake: `UntrustedPeerIgnored`, `BackendNeedsVerdict`,
`OnePacketPerBackendConnection`, `RefusedStartupDiagnosed`,
`NoPlaintextAfterTls`, `PoliteLosesNothing`; live: `HandshakeEnds`.
Admission: `PeerListedEitherWay`, `JudgedAsRead`, `OthersUntouched`,
`AddressStored`, `LongestNameKept`, `GrowthBounded`, `FirstRuleDecides`,
`NotationDoesNotMatter`, `WholeWordsRefused`. Several compare the loops of the
code with definitions written another way (the longest prefix that fits, minutes
counted around the clock, the maximal words of a statement). The five about the
startup message are stated of what PostgreSQL reads: `JudgedAsRead` (the message
is taken, with the user and database that were judged or, of a name longer than
PostgreSQL's limit, with just so many bytes of it), `OthersUntouched` (pair
by pair, the parameters other than `application_name` are those of the client's
message), `AddressStored` (after PostgreSQL's escaping and cut the name still ends
with the address), `LongestNameKept` (and the client's own name is cut no shorter
than that needs), `GrowthBounded` (the bytes added are those of the suffixes or of
the one parameter).
RejectionLog: `LinesApart`, `LogRateBounded`, `RejectionsAccountedFor`,
`LastNeverGoesBack`. Listener: `ServesAsParsed`, `TlsUnlessBroken`, `Served`.

`NotationDoesNotMatter` has a condition, and needs both halves of it. A rule that
lists an IPv4 block alone does not match the same client in mapped notation,
although the trust check would: so every IPv4 block must lie, mapped, in an IPv6
block of its list. And a rule with `::/0` but no `0.0.0.0/0` matches the mapped
notation alone: so the mapped addresses of an IPv6 block must all be in one IPv4
block of its list. IPv6 blocks that hold no mapped address are not restricted.
`JudgedAsRead` does not say that a name over 63 bytes is judged as it is used:
Guardian compares the whole of it, PostgreSQL uses its beginning, so a rule for
the short form does not hold for the long one.
`WaitingClientInStep` and `ReadyBalanced` have the other known
limit: a refused Parse is answered by the proxy and its Sync by PostgreSQL, so
from then on the client is one ReadyForQuery ahead. `ServesAsParsed` takes a
`guardian.yaml` that exists but cannot be opened for an absent one, as
`Guardian::load` does, and it does not say that a rule does what its author
meant: a misspelled field is gone (`AUDIT.md` 53), and an address block or a
time window that does not parse is loaded and matches nothing (54, 55).
`TlsUnlessBroken` leaves a failed command and a damaged `identity.p12` out: the
proxy then serves in the clear (57), and the file is never made again.

`LinesApart` is about timestamps. The timestamp is taken before the mutex, so two
lines whose stamps are an interval apart may still be written one right after
the other; `LogRateBounded` says what remains true of the log as a whole.

### Findings

Five runs show the code doing something other than a document or comment says;
`PROJECT.json` quotes both sides.

1. The mutex covers one chunk, not one message, so Guardian's answer can be
   written inside a PostgreSQL message.
2. A failed write in the chunk loop leaves only that loop; the rest of the bulk
   payload is then read as messages, and one may be answered.
3. Bytes read ahead behind the startup message are discarded.
4. A CancelRequest inside TLS is refused as an unsupported protocol version.
5. A refused Parse does not keep the Bind and Execute behind it from PostgreSQL,
   which runs the previous unnamed statement once more.

Beside these, reading the code for `Handshake` showed that a protocol error in
the handshake closes the connection with nothing written to it (`proxy.rs`
195-198), although the comment on `HandshakeError::Protocol` promises an
ErrorResponse; in the model `Close("protocol")` leaves `answers` alone.

## 4. Fairness

`Relay`: weak fairness for each future and for the `select!`, since the runtime
polls a future that can progress; strong fairness for the steps that take the
mutex, since tokio's mutex is FIFO; weak fairness for keepalive, since
`configure_socket` sets it on both sockets. Of the peers one thing is assumed:
PostgreSQL closes once it has read its input to the end. Nobody is assumed to
read: `write_all` has no deadline in either direction. Two things can therefore
last, and the liveness properties name them:

- `Stuffed`: a client stays connected and does not read, while a write to it, or
  the close_notify of its TLS stream, waits with the mutex held. `drain_timeout`
  does not help where `server_to_client` has not finished.
- `Clogged`: PostgreSQL stays connected and does not read, while
  `client_to_server` waits in a write upstream. It then does not see the client's
  end, and PostgreSQL is never told of it. `Unread` is wider: PostgreSQL leaves
  something unread, whoever waits. It then need not close, and a session whose
  client is gone stays, because `server_to_client` is awaited with no deadline.

`ClientEndReachesPg` holds unless `Stuffed` or `Clogged` lasts for ever,
`ClientEndClosesSession` unless `Stuffed` or `Unread` does, and
`PgEndClosesSession` and `RefusalAnswered` unless `Stuffed` does; nothing else
can prevent what they promise.

`QueryProtocol`: weak fairness for the filter, the other direction, PostgreSQL
and the client's reading.

`Handshake`: weak fairness for the task and for the deadline. Nothing is assumed
of the client. Connecting upstream ends by its own timeout.

`Listener`: weak fairness for `main` and for each handshake (whose end is
`HandshakeEnds`). Sessions are not assumed to end, no start is assumed to succeed
and the process may be killed for ever.

## 5. Proofs

Thirty-three properties of the runs are theorems. Each holds for every value of the
constants that satisfies the module's named assumption; TLC evaluates the
assumptions on the instances.

| Module | Theorem | States `Spec => []` of | Assumption on the constants |
|---|---|---|---|
| `RelayProofs` | `TypeCorrect` | `TypeOK` | `RelayAssumption`: sizes are natural numbers and the inspection size is at most the transfer buffer (1024 and 8192 in the code), so an inspected payload is one piece |
| | `PgStream` | `PgStreamFaithful` | |
| | `FinComesLast` | `FinAfterData` | |
| | `AnswersAreWhole` | `RefusalWhole` | |
| | `ServerStream` | `ServerStreamInOrder` | |
| | `EofComesLast` | `EofAfterResults` | |
| `RelayRefinement` | `Refinement` | `Spec => ImplementsSession` | the same |
| `HandshakeProofs` | `TypeCorrect` | `TypeOK` | `HandshakeAssumption`: the menu holds units, their number is natural |
| | `UntrustedIgnored` | `UntrustedPeerIgnored` | |
| | `VerdictFirst` | `BackendNeedsVerdict` | |
| | `OnePacket` | `OnePacketPerBackendConnection` | |
| | `RefusalsDiagnosed` | `RefusedStartupDiagnosed` | |
| | `TlsNotBypassed` | `NoPlaintextAfterTls` | |
| | `PoliteClientSafe` | `PoliteLosesNothing` | |
| `QueryProofs` | `OnlyPassedRuns` | `RunsWhatPassed` | `QueryAssumption`: number of cycles and pipeline depth are natural |
| | `WaitingStaysInStep` | `WaitingClientInStep` | |
| | `ReadyForQueryBalanced` | `ReadyBalanced` | |
| `AdmissionProofs` | `PeersTold` | `PeerListedEitherWay` | `DayAssumption` (a day has minutes), `AdmissionAssumption`: addresses and blocks are bits, rules have the fields of `Rule`, a message has at least one word, and the text of an address that parses is printable and leaves room for a name (an IPv6 literal has at most 45 characters, the limit is 63) |
| | `FirstRule` | `FirstRuleDecides` | |
| | `NotationsAlike` | `NotationDoesNotMatter` | |
| | `WordsRefused` | `WholeWordsRefused` | |
| | `Judged` | `JudgedAsRead` | the same and `NameLimitAssumption`: the limit is not zero |
| | `Untouched` | `OthersUntouched` | |
| | `AddressShown` | `AddressStored` | |
| | `LongestName` | `LongestNameKept` | |
| | `Growth` | `GrowthBounded` | |
| `RejectionLogProofs` | `AllowedApart` | `LinesApart` | `RejectionLogAssumption`: finitely many tasks, an interval that is not zero |
| | `LogBounded` | `LogRateBounded` | |
| | `AllAccountedFor` | `RejectionsAccountedFor` | |
| | `LastMonotonic` | `Spec => LastNeverGoesBack` | |
| `ListenerProofs` | `TypeCorrect` | `TypeOK` | `ListenerAssumption`: finitely many clients, the first backoff at most the last; `BootAssumption`: a variable is set at most once, a file is absent, unreadable, malformed or a list of rules |
| | `RunsAsParsed` | `ServesAsParsed` | |
| | `TlsKept` | `TlsUnlessBroken` | |

None of the properties is inductive on its own, apart from a few of the types.
Each invariant below was checked by TLC on the instance of its run first.

`Relay`. The invariant comes in layers that are proved one after the other:

- `TypeInv`: types, the shape of the client's stream (`StreamInv`: every unit
  continues the one before it, and what a reset leaves is a prefix) and the
  cursors. Types need it: the chunk counter stays natural only because a chunk
  is read only while some are left.
- `UpInv`: at every point of `client_to_server`, which positions are accounted
  for (withheld or forwarded, `Covered`) and that those forwarded are in order
  (`Below`). It holds of the reader's position only while PostgreSQL takes its
  writes; once it does not, nothing more is forwarded, and that is why the
  shifted reading of finding 2 does not harm what PostgreSQL sees.
- `LockInv`: who holds the mutex at which point, and which future still runs in
  which phase of the `select!`.
- `AnswerInv`: an ErrorResponse stands last only while its ReadyForQuery is
  being written, or because the client is gone. Needs `LockInv`.
- `DownInv`: the client was given exactly the first so many of PostgreSQL's
  units. Needs `LockInv`.

Lemmas about appending to a stream (`Extend`, `WholeAppend`, `GivenNext`, ...) are
stated over arbitrary sequences and used by every action that writes.

The refinement. `Promise!Init` follows from `Init`, and every step of `Relay` is a
step of `Session` or leaves its variables alone; `RelayRefinement` has one lemma
for each kind of step. It needs more than the layers above: `OrderInv` (the
messages of the client's stream follow each other), `TurnInv` (at each point of
`client_to_server`, every withheld message up to there is answered, unless
nobody is listening, and nothing at or behind the current one is) and `ShownInv`
(the mapping's `Shown` is what was written to the client, without the halves of
refusals, in its order). `TurnInv` holds while PostgreSQL's connection is whole:
after that the code may answer a part of a bulk message (finding 2), and `Session`
promises nothing of refusals.

`Handshake`. `PathInv` says what is known of the packet, the verdict and the
backend at each point; with `PeerInv` and `TlsInv` (the stream is the TLS stream
exactly from the ClientHello on) and the two properties that are inductive with
them it carries all but `PoliteLosesNothing`. That one needs `WaitsInv`: behind a
request under way there is nothing, and the requests made are those answered and
the one under way, so a `BufReader` that is taken apart is empty.

`QueryProtocol`. `OrderInv`: requests under way are in the order the client made
them, and whatever is behind one under way is under way too, unless refused.
`PreparedInv`: between the messages of a cycle PostgreSQL's unnamed statement and
portal are that cycle's, or the cycle's Parse was refused and they are an earlier
one's that passed. `SkipInv`: what is being discarded ends at the Sync of the
cycle PostgreSQL is at. `RanInv`: what was run is not under way any more.
`WaitingInv` adds that for a client that waits one cycle is under way and nothing
is behind the message that ends it. `BalanceInv` counts: the ReadyForQuery
messages received and under way, and the messages that will cause one, are as
many as the cycles and the refused Parses answered so far.

`Admission`. `ScanInv` is the loop invariant of `check_connection`: no rule before
the current one matches, and what comes out is one of three verdicts. The rest
are facts about the operators: the IPv6 notation of a block holds the IPv6
notation of exactly its addresses (`MappedPrefixes`), the comparison of times
with its case for midnight is an interval modulo the day (`WindowIsInterval`),
lists that satisfy the condition of `NotationDoesNotMatter` hold both notations of
an address or neither (from `PrefixOfPrefix` and `PrefixesCompare`),
the checks of the loop body are the reading of a rule in `FirstRuleDecides`
(`MatchesHolds`), and the search for a token is the comparison of whole words
(`WordContainsToken`, `TokenIsWord`). `StartupInv` ties the user and database
judged and the rewritten message to the payload received; that the address
parses when the message is rewritten follows from the verdict, which is a denial
otherwise.

`Startup`. Its loops are recursive functions, and what they compute is proved by
induction. The library's induction rules take a predicate, which the provers
cannot instantiate; `StartupProofs` has them for a set instead: a set of numbers
that is not empty has a least member (`Least`, from the well-foundedness of the
natural numbers), so a set that holds 0 and with each number the next holds them
all (`InductionUpTo`), and so the equations of a loop have a solution
(`Recursion`), which is what makes the recursive functions equal to their
definitions. On that rest three groups of lemmas:

- sums: they never decrease, go on behind a first part (`SumsConcat`), and are
  bounded if their elements are (`SumsBounded`, `SumsInPairs`);
- names: `truncate_to_stored_budget` keeps the longest beginning within the budget
  (`TruncatesToLongest`), pg_clean_ascii makes exactly as many characters of a
  word as it was charged (`CleanIs`) and leaves the printable suffix alone
  (`TailStored`), so the cut to the limit removes nothing (`FormattedStored`);
- pairs: after each turn `new_payload` holds the pairs with a key that is not
  empty, in their order (`Enumerates`), hence the result is a terminated section
  (`InjectRewrites`) whose pairs, as PostgreSQL reads them, have the last value of
  a parameter where the client's message has it (`LastFollows`). A message that
  PostgreSQL takes has no empty key (`TerminatedPairs`), so nothing of it is
  skipped.

PostgreSQL's cut of a user or database name leaves exactly as many bytes as the
limit, and whole characters as they were (`CutKeeps`).

`SameIdentity`, `AddressKept`, `NameKept`, `OthersKept` and `GrowthIsBounded` are the
five properties of one message; `AdmissionProofs` applies them to `payload` and
`out`.

`RejectionLog`. The invariant adds that the last timestamp is the latest allowed
and that a task whose line is in the log is through; without the first, a task
stamped long ago could be allowed next to a later one. `RateInv` bounds the lines
by the last timestamp and that by the clock. `RejectionsAccountedFor` is
inductive with these: an allowed task is dealt all that the counter held.

`Listener` and `Boot`. `ConfigInv`: the configuration is what the parsers make of the
environment and the file as soon as it is there (`LoadedAsParsed`, and `RuleKept`
for what serde keeps of a rule). `TlsInv`: the identity is there when it is read, because the file looked
for is the one written last.

Only model-checked is liveness (`ClientEndReachesPg`, `ClientEndClosesSession`,
`PgEndClosesSession`, `RefusalAnswered`, `HandshakeEnds`, `CycleEnds`, `Served`): the
prover does not handle fairness and `ENABLED`.

## 6. Not modelled

- TLS itself, the YAML and number syntax, logging and the warnings of
  `warn_about_unreachable_rules`: library calls and output that change no state.
  What a parser makes of its input (a value, an error) is modelled.
- `LISTEN_HOST`, `LISTEN_PORT`, `PG_HOST`, `PG_PORT`: strings that are passed on.
- The numeric limits on startup packets and PROXY lines: a packet is well formed
  or not. `GrowthBounded` counts bytes, but no limit of 10000 is reached on a
  small instance; a message close to it may still grow past it.
- Pieces of a bulk message smaller than a chunk: the bytes of a last piece that
  the client cuts short are read by `read_exact` and dropped, and the model's
  stream does not contain them.
- Why an identity does not load (unreadable, truncated, another password): it is
  damaged.
- The transaction status in the synthesised ReadyForQuery (always idle,
  `AUDIT.md` 38), named prepared statements and COPY.
- An `openssl` child that outlives a killed proxy.
- `contrib/python`, `bench`, `scripts`: not part of the deployed program.

## 7. Plan

Done, in this order: `Relay` with its proofs, `Handshake`, `RejectionLog` with its
proofs, `Listener`, `Startup` and `Guardian` composed in `Admission`; then `Session`
and the refinement, `QueryProtocol`, `Cidr` and `Trust` in `Admission`, lengths in
`Startup`, `Boot` under `Listener`; then the proofs about every module, of the
refinement and, last, of the loops of `Startup`.

What is left are the hazards without a property: the window between the
connection to PostgreSQL and the startup message, the silent close after a
protocol error, the status byte of the synthesised ReadyForQuery, and what the
code is known to leave as it is (Guardian's exact reading of addresses, a damaged
identity, TLS that fails); and the limit on the length of a rewritten message,
which `GrowthBounded` only approaches.
