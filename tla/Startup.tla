------------------------------ MODULE Startup ------------------------------
(***************************************************************************)
(* The startup message (protocol.rs): what extract_user_db takes out of    *)
(* it, how inject_ip_startup rewrites it, and what PostgreSQL makes of the *)
(* result.                                                                 *)
(*                                                                         *)
(* A word is a sequence of characters.  The parameter section is the       *)
(* sequence of words between its NULs, so <<"u">>, <<"a">>, <<>>, <<>> is  *)
(* u NUL a NUL NUL.  Names are abbreviated to one character.  "invalid" is *)
(* a byte that is not UTF-8 and "replacement" what from_utf8_lossy puts in *)
(* its place.                                                              *)
(***************************************************************************)
EXTENDS Integers, Sequences, SequencesExt

CONSTANT NameLimit     \* NAMEDATALEN_LIMIT

ASSUME NameLimitAssumption == NameLimit \in Nat \ {0}

Printable == {"u", "d", "n", "o", "a", "b", " ", "-", "."}
Chars == Printable \cup {"tab", "cedilla", "invalid", "replacement"}

User == <<"u">>
Database == <<"d">>
ApplicationName == <<"n">>

Utf8Len(c) == CASE c = "cedilla" -> 2 [] c = "replacement" -> 3 [] OTHER -> 1

\* What a loop over numbers has added up after each of them.
Sums(s) == LET sum[k \in 0 .. Len(s)] == IF k = 0 THEN 0 ELSE sum[k - 1] + s[k] IN sum
Total(s) == Sums(s)[Len(s)]

\* The length of a parameter section: its characters and the NULs between.
WordBytes(w) == Total([k \in DOMAIN w |-> Utf8Len(w[k])])
Bytes(words) == Len(words) - 1 + Total([k \in DOMAIN words |-> WordBytes(words[k])])

Lossy(w) == [i \in DOMAIN w |-> IF w[i] = "invalid" THEN "replacement" ELSE w[i]]

-----------------------------------------------------------------------------
(* application_name.                                                       *)

\* Mutant: a character is charged its bytes.
StoredLenInBytes(c) == Utf8Len(c)

\* PostgreSQL stores four characters for each byte that is not printable.
StoredLen(c) == IF c \in Printable THEN 1 ELSE 4 * Utf8Len(c)

\* stored_len_of the first characters of a word.
StoredLens(w) == Sums([k \in DOMAIN w |-> StoredLen(w[k])])

\* Mutant: the cut leaves room for one more.
TruncateOneShort(w, budget) ==
    LET over == {k \in DOMAIN w : StoredLens(w)[k] >= budget}
    IN  IF over = {} THEN w ELSE SubSeq(w, 1, Min(over) - 1)

\* The loop over the characters, up to the first that does not fit.
TruncateToStoredBudget(w, budget) ==
    LET over == {k \in DOMAIN w : StoredLens(w)[k] > budget}
    IN  IF over = {} THEN w ELSE SubSeq(w, 1, Min(over) - 1)

Suffix(ip) == <<" ", "-", " ">> \o ip

FormatApplicationName(name, ip) ==
    IF Len(Suffix(ip)) >= NameLimit
    THEN TruncateToStoredBudget(Suffix(ip), NameLimit)
    ELSE TruncateToStoredBudget(name, NameLimit - Len(Suffix(ip))) \o Suffix(ip)

\* Mutant: the separator stays in front of the address.
TrimNothing(w) == w

\* trim_start_matches(" -"), which leaves the blank before the address; an
\* address does not begin with a second match.
TrimStart(w) == IF IsPrefix(<<" ", "-">>, w) THEN SubSeq(w, 3, Len(w)) ELSE w

-----------------------------------------------------------------------------
(* Parameters.                                                             *)

\* One trailing NUL is taken off, the rest is split at its NULs and paired; a
\* part without a partner is ignored.
Parts(words) == IF Len(words) > 1 /\ Last(words) = <<>> THEN Front(words) ELSE words

Pairs(words) ==
    [i \in 1 .. Len(Parts(words)) \div 2 |->
        [key |-> Parts(words)[2 * i - 1], val |-> Parts(words)[2 * i]]]

\* The loop assigns the value again at every pair with that key.
LastValue(pairs, key) ==
    LET found == {k \in DOMAIN pairs : Lossy(pairs[k].key) = key}
    IN  IF found = {} THEN <<>> ELSE pairs[Max(found)].val

OrElse(w, default) == IF w = <<>> THEN default ELSE w

ExtractUser(words) == Lossy(LastValue(Pairs(words), User))

ExtractDb(words) == OrElse(Lossy(LastValue(Pairs(words), Database)), ExtractUser(words))

\* Mutant: pairs with an empty key are passed on.
SkippedNever(p) == FALSE

Skipped(p) == p.key = <<>>

NamesApplication(p) == Lossy(p.key) = ApplicationName

\* Mutant: every value is passed on as the text that was compared.
RewrittenLossily(p, ip) ==
    IF NamesApplication(p) THEN FormatApplicationName(Lossy(p.val), ip) ELSE Lossy(p.val)

RewrittenValue(p, ip) ==
    IF NamesApplication(p) THEN FormatApplicationName(Lossy(p.val), ip) ELSE p.val

\* new_payload after so many turns of the loop.
NewPayload(pairs, ip) ==
    LET new[k \in 0 .. Len(pairs)] ==
            IF k = 0 THEN <<>>
            ELSE IF Skipped(pairs[k]) THEN new[k - 1]
            ELSE new[k - 1] \o <<pairs[k].key, RewrittenValue(pairs[k], ip)>>
    IN  new

FoundAppName(pairs) == \E k \in DOMAIN pairs : ~Skipped(pairs[k]) /\ NamesApplication(pairs[k])

InjectIpStartup(words, ip) ==
    LET pairs == Pairs(words)
    IN  NewPayload(pairs, ip)[Len(pairs)]
        \o (IF FoundAppName(pairs) THEN <<>>
            ELSE <<ApplicationName, TrimStart(FormatApplicationName(<<>>, ip))>>)
        \o << <<>>, <<>> >>

-----------------------------------------------------------------------------
(* PostgreSQL's ProcessStartupPacket: pairs up to the first empty name,    *)
(* which must be the last byte; a later value of a parameter replaces an   *)
(* earlier one, the database defaults to the user, and both are cut to     *)
(* NAMEDATALEN - 1 bytes.                                                  *)

PgPairs(words) ==
    LET stops == {k \in 1 .. Len(words) \div 2 : words[2 * k - 1] = <<>>}
        n == IF stops = {} THEN Len(words) \div 2 ELSE Min(stops) - 1
    IN  [k \in 1 .. n |-> [key |-> words[2 * k - 1], val |-> words[2 * k]]]

PgLayoutOK(words) ==
    SubSeq(words, 2 * Len(PgPairs(words)) + 1, Len(words)) = << <<>>, <<>> >>

\* The cut counts bytes: what it leaves of a character it splits is not UTF-8.
PgCut(w) ==
    LET bytes == Sums([k \in DOMAIN w |-> Utf8Len(w[k])])
        n == Max({k \in 0 .. Len(w) : bytes[k] =< NameLimit})
    IN  IF WordBytes(w) =< NameLimit THEN w
        ELSE [k \in 1 .. n + (NameLimit - bytes[n]) |-> IF k =< n THEN w[k] ELSE "invalid"]

PgUser(words) == PgCut(LastValue(PgPairs(words), User))
PgDb(words) ==
    PgCut(OrElse(LastValue(PgPairs(words), Database), LastValue(PgPairs(words), User)))

\* pg_clean_ascii: what the first characters of a word become.
PgEscape(c) == IF c \in Printable THEN <<c>> ELSE [k \in 1 .. 4 * Utf8Len(c) |-> "\\x"]

PgClean(w) ==
    LET clean[k \in 0 .. Len(w)] == IF k = 0 THEN <<>> ELSE clean[k - 1] \o PgEscape(w[k])
    IN  clean

\* The cut to NAMEDATALEN that follows.
PgStored(w) ==
    LET clean == PgClean(w)[Len(w)]
    IN  SubSeq(clean, 1, IF Len(clean) < NameLimit THEN Len(clean) ELSE NameLimit)

PgApplicationName(words) == PgStored(LastValue(PgPairs(words), ApplicationName))
=============================================================================
