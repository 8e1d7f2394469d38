-------------------------- MODULE AdmissionProofs --------------------------
(***************************************************************************)
(* Proofs about Admission: whom the allowlist and Guardian's rules let in, *)
(* what becomes of the startup message (by the lemmas of StartupProofs),   *)
(* and which statements of a session pass, for every ruleset, allowlist,   *)
(* address, message and statement.                                         *)
(***************************************************************************)
EXTENDS Admission, StartupProofs

-----------------------------------------------------------------------------
(* Blocks and the two notations of an address.                             *)

Bits == Seq({0, 1})

\* IsPrefix, element by element.
LEMMA PrefixByElement ==
    ASSUME NEW s \in Bits, NEW t \in Bits
    PROVE  IsPrefix(s, t) <=> Len(s) =< Len(t) /\ \A k \in 1 .. Len(s) : s[k] = t[k]
<1>1. CASE Len(s) > Len(t)
  BY <1>1 DEF IsPrefix, Bits
<1>2. CASE Len(s) =< Len(t)
  <2>1. /\ SubSeq(s, 1, Len(s)) = [k \in 1 .. Len(s) |-> s[k]]
        /\ SubSeq(t, 1, Len(s)) = [k \in 1 .. Len(s) |-> t[k]]
    BY <1>2 DEF Bits
  <2>2. SubSeq(s, 1, Len(s)) = SubSeq(t, 1, Len(s)) <=> \A k \in 1 .. Len(s) : s[k] = t[k]
    BY <2>1, Zenon
  <2> QED BY <1>2, <2>2 DEF IsPrefix
<1> QED BY <1>1, <1>2 DEF Bits

\* The IPv6 notation of a block holds the IPv6 notation of exactly its addresses.
LEMMA MappedPrefixes ==
    ASSUME NEW p \in Bits, NEW b \in Bits
    PROVE  IsPrefix(Mapped(p), Mapped(b)) <=> IsPrefix(p, b)
<1>1. MappedPrefix \in Bits
  BY AdmissionAssumption DEF Bits
<1> DEFINE n == Len(MappedPrefix)
<1>2. /\ n \in Nat /\ Len(p) \in Nat /\ Len(b) \in Nat
      /\ Mapped(p) \in Bits /\ Len(Mapped(p)) = n + Len(p)
      /\ Mapped(b) \in Bits /\ Len(Mapped(b)) = n + Len(b)
  BY <1>1 DEF Mapped, Bits
<1>3. /\ \A k \in 1 .. n : Mapped(p)[k] = Mapped(b)[k]
      /\ \A k \in 1 .. Len(p) : Mapped(p)[n + k] = p[k]
      /\ \A k \in 1 .. Len(b) : Mapped(b)[n + k] = b[k]
  BY <1>1 DEF Mapped, Bits
<1> HIDE DEF n
<1>4. ASSUME IsPrefix(Mapped(p), Mapped(b)) PROVE IsPrefix(p, b)
  <2>1. Len(p) =< Len(b) /\ \A k \in 1 .. n + Len(p) : Mapped(p)[k] = Mapped(b)[k]
    BY <1>2, <1>4, PrefixByElement
  <2>2. ASSUME NEW k \in 1 .. Len(p) PROVE p[k] = b[k]
    <3>1. n + k \in 1 .. n + Len(p) /\ k \in 1 .. Len(b)
      BY <1>2, <2>1
    <3> QED BY <3>1, <2>1, <1>3
  <2> QED BY <2>1, <2>2, PrefixByElement
<1>5. ASSUME IsPrefix(p, b) PROVE IsPrefix(Mapped(p), Mapped(b))
  <2>1. Len(p) =< Len(b) /\ \A k \in 1 .. Len(p) : p[k] = b[k]
    BY <1>5, PrefixByElement
  <2>2. ASSUME NEW k \in 1 .. n + Len(p) PROVE Mapped(p)[k] = Mapped(b)[k]
    <3>1. CASE k =< n
      BY <3>1, <1>2, <1>3
    <3>2. CASE k > n
      <4>1. PICK j \in 1 .. Len(p) : k = n + j
        <5>1. k - n \in 1 .. Len(p) /\ k = n + (k - n)
          BY <1>2, <3>2
        <5> QED BY <5>1
      <4>2. j \in 1 .. Len(b)
        BY <1>2, <2>1
      <4> QED BY <4>1, <4>2, <2>1, <1>3
    <3> QED BY <3>1, <3>2, <1>2
  <2>3. Len(Mapped(p)) =< Len(Mapped(b))
    BY <1>2, <2>1
  <2> QED BY <1>2, <2>2, <2>3, PrefixByElement
<1> QED BY <1>4, <1>5

\* A mapped address is the notation of the bits behind the prefix.
LEMMA Unmapped ==
    ASSUME NEW bits \in Bits, IsPrefix(MappedPrefix, bits)
    PROVE  LET rest == SubSeq(bits, Len(MappedPrefix) + 1, Len(bits))
           IN  rest \in Bits /\ bits = Mapped(rest)
<1>1. MappedPrefix \in Bits
  BY AdmissionAssumption DEF Bits
<1> DEFINE n == Len(MappedPrefix)
           rest == SubSeq(bits, n + 1, Len(bits))
<1>2. n \in Nat /\ Len(bits) \in Nat /\ n =< Len(bits) /\ \A k \in 1 .. n : MappedPrefix[k] = bits[k]
  BY <1>1, PrefixByElement DEF Bits
<1>3. /\ rest \in Bits /\ Len(rest) = Len(bits) - n
      /\ \A k \in 1 .. Len(bits) - n : rest[k] = bits[n + k]
  BY <1>2 DEF Bits
<1> HIDE DEF rest
<1>4. /\ Mapped(rest) \in Bits /\ Len(Mapped(rest)) = Len(bits)
      /\ \A k \in 1 .. Len(bits) : Mapped(rest)[k] = IF k =< n THEN MappedPrefix[k] ELSE rest[k - n]
  BY <1>1, <1>2, <1>3 DEF Mapped, Bits
<1>5. ASSUME NEW k \in 1 .. Len(bits) PROVE Mapped(rest)[k] = bits[k]
  <2>1. CASE k =< n
    BY <2>1, <1>2, <1>4
  <2>2. CASE k > n
    <3>1. k - n \in 1 .. Len(bits) - n /\ n + (k - n) = k
      BY <2>2, <1>2
    <3>2. Mapped(rest)[k] = rest[k - n]
      BY <2>2, <1>2, <1>4
    <3> QED BY <3>1, <3>2, <1>3
  <2> QED BY <2>1, <2>2, <1>2
<1>6. bits = Mapped(rest)
  BY <1>4, <1>5, SeqEqual DEF Bits
<1> QED BY <1>3, <1>6 DEF rest

-----------------------------------------------------------------------------
(* Rules.                                                                  *)

Actions == {"ALLOW", "INSPECT", "DENY"}
Contexts == [action : Actions, block_queries : SUBSET Seq(STRING), block_tables : SUBSET Seq(STRING)]

\* An option holds its one element: what is asked of every element is asked of some.
LEMMA OptionHolds ==
    ASSUME NEW S, NEW opt \in Options(S), NEW x \in opt
    PROVE  opt = {x} /\ UNION opt = x /\ x \in S
BY DEF Options

\* The context of a rule is one.
LEMMA RuleContext ==
    ASSUME NEW rule \in Rules
    PROVE  OfRule(rule) \in Contexts /\ OfRule(rule).action = rule.action
<1>1. /\ rule.action \in Actions
      /\ UNION rule.block_queries \in SUBSET Seq(STRING)
      /\ UNION rule.block_tables \in SUBSET Seq(STRING)
  BY DEF Rules, Options, Actions
<1> QED BY <1>1 DEF OfRule, Context, Contexts

\* The two contexts that come from no rule.
LEMMA FixedContexts ==
    /\ Unparsed \in Contexts /\ Unparsed.action = "DENY"
    /\ NoMatch \in Contexts /\ NoMatch.action = "INSPECT"
BY DEF Unparsed, NoMatch, Context, Contexts, Actions

\* The remainder, within a day of the dividend's range.
LEMMA Remainder ==
    ASSUME NEW d \in Nat \ {0}, NEW a \in Int
    PROVE  /\ 0 =< a /\ a < d => a % d = a
           /\ d =< a /\ a < 2 * d => a % d = a - d
           /\ 0 - d =< a /\ a < 0 => a % d = a + d
OBVIOUS

\* What FirstRuleDecides means by the window: so many minutes from its start.
Inside(t, w) == \E k \in Minutes :
    /\ (w.start + k) % Day = t
    /\ k =< (w.end - w.start) % Day

\* The comparison of two times, with its case for midnight, is that window.
LEMMA WindowIsInterval ==
    ASSUME NEW t \in Minutes, NEW w \in Windows
    PROVE  TimeInRange(t, w) <=> w.valid /\ Inside(t, w)
<1>1. PICK d \in Nat \ {0} : d = Day
  BY DayAssumption
<1>2. PICK s \in Nat, e \in Nat : s = w.start /\ e = w.end /\ s < d /\ e < d
  BY <1>1 DEF Windows, Minutes
<1>3. t \in Nat /\ t < d
  BY <1>1 DEF Minutes
<1> DEFINE In(k) == (s + k) % d = t /\ k =< (e - s) % d
<1>4. Inside(t, w) <=> \E k \in 0 .. d - 1 : In(k)
  BY <1>1, <1>2 DEF Inside, Minutes
<1>5. TimeInRange(t, w) <=> w.valid /\ (IF s =< e THEN t >= s /\ t =< e ELSE t >= s \/ t =< e)
  BY <1>2 DEF TimeInRange
<1>6. (e - s) % d = IF s =< e THEN e - s ELSE e - s + d
  BY <1>2, Remainder
<1>7. ASSUME NEW k \in 0 .. d - 1
      PROVE  (s + k) % d = IF s + k < d THEN s + k ELSE s + k - d
  <2>1. PICK m \in Int : m = s + k /\ 0 =< m /\ m < 2 * d
    BY <1>2
  <2>2. CASE m < d
    <3>1. m % d = m
      BY <2>1, <2>2, Remainder
    <3> QED BY <2>1, <2>2, <3>1
  <2>3. CASE d =< m
    <3>1. m % d = m - d
      BY <2>1, <2>3, Remainder
    <3>2. ~(m < d)
      BY <2>3
    <3> QED BY <2>1, <3>1, <3>2
  <2> QED BY <2>2, <2>3
<1>8. ASSUME NEW k \in 0 .. d - 1, In(k)
      PROVE  IF s =< e THEN t >= s /\ t =< e ELSE t >= s \/ t =< e
  <2>1. k =< (IF s =< e THEN e - s ELSE e - s + d) /\ t = IF s + k < d THEN s + k ELSE s + k - d
    BY <1>6, <1>7, <1>8
  <2> QED BY <2>1, <1>2, <1>3
<1>9. ASSUME IF s =< e THEN t >= s /\ t =< e ELSE t >= s \/ t =< e
      PROVE  \E k \in 0 .. d - 1 : In(k)
  <2>1. CASE t >= s
    <3>1. t - s \in 0 .. d - 1 /\ s + (t - s) = t /\ s + (t - s) < d
      BY <2>1, <1>2, <1>3
    <3>2. t - s =< (e - s) % d
      BY <2>1, <1>2, <1>3, <1>6, <1>9
    <3>3. In(t - s)
      BY <3>1, <3>2, <1>7
    <3> QED BY <3>1, <3>3
  <2>2. CASE t < s
    <3>1. PICK k \in 0 .. d - 1 : k = t - s + d
      BY <2>2, <1>2, <1>3
    <3>2. (s + k) % d = t
      <4>1. ~(s + k < d) /\ s + k - d = t
        BY <3>1, <1>2, <1>3
      <4> QED BY <4>1, <1>7, Zenon
    <3>3. k =< (e - s) % d
      BY <3>1, <2>2, <1>2, <1>3, <1>6, <1>9
    <3> QED BY <3>2, <3>3
  <2> QED BY <2>1, <2>2, <1>2, <1>3
<1> HIDE DEF In
<1>10. (\E k \in 0 .. d - 1 : In(k)) <=> (IF s =< e THEN t >= s /\ t =< e ELSE t >= s \/ t =< e)
  BY <1>8, <1>9
<1> QED BY <1>4, <1>5, <1>10

\* FirstRuleDecides' reading of a rule: a list that is there contains the value.
Holds(rule, a, u, d, t) ==
    /\ rule.ips = {} \/ \E net \in UNION rule.ips : InNet(net, a)
    /\ rule.users = {} \/ u \in UNION rule.users
    /\ rule.databases = {} \/ d \in UNION rule.databases
    /\ rule.time_range = {} \/ \E w \in rule.time_range : w.valid /\ Inside(t, w)

\* The four checks of the loop body are that reading.
LEMMA MatchesHolds ==
    ASSUME NEW rule \in Rules, NEW a, NEW u, NEW d, NEW t \in Minutes
    PROVE  Matches(rule, a, u, d, t) <=> Holds(rule, a, u, d, t)
<1>1. /\ rule.ips \in Options(SUBSET Nets) /\ rule.users \in Options(SUBSET Seq(STRING))
      /\ rule.databases \in Options(SUBSET Seq(STRING)) /\ rule.time_range \in Options(Windows)
  BY DEF Rules
<1>2. (\A list \in rule.ips : \E net \in list : InNet(net, a))
      <=> (rule.ips = {} \/ \E net \in UNION rule.ips : InNet(net, a))
  <2>1. ASSUME NEW list \in rule.ips PROVE rule.ips = {list} /\ UNION rule.ips = list
    BY <1>1, OptionHolds
  <2> QED BY <2>1, Zenon
<1>3. (\A list \in rule.users : u \in list) <=> (rule.users = {} \/ u \in UNION rule.users)
  <2>1. ASSUME NEW list \in rule.users PROVE rule.users = {list} /\ UNION rule.users = list
    BY <1>1, OptionHolds
  <2> QED BY <2>1, Zenon
<1>4. (\A list \in rule.databases : d \in list) <=> (rule.databases = {} \/ d \in UNION rule.databases)
  <2>1. ASSUME NEW list \in rule.databases PROVE rule.databases = {list} /\ UNION rule.databases = list
    BY <1>1, OptionHolds
  <2> QED BY <2>1, Zenon
<1>5. (\A w \in rule.time_range : TimeInRange(t, w))
      <=> (rule.time_range = {} \/ \E w \in rule.time_range : w.valid /\ Inside(t, w))
  <2>1. ASSUME NEW w \in rule.time_range PROVE TimeInRange(t, w) <=> w.valid /\ Inside(t, w)
    BY <1>1, OptionHolds, WindowIsInterval
  <2>2. ASSUME NEW w \in rule.time_range PROVE rule.time_range = {w}
    BY <1>1, OptionHolds
  <2> QED BY <2>1, <2>2, Zenon
<1> QED BY <1>2, <1>3, <1>4, <1>5, Zenon DEF Matches, Holds

-----------------------------------------------------------------------------
(* The other notation of an address.                                       *)

Twin(a) == IF IsMapped(a) THEN Normalise(a) ELSE [family |-> "v6", bits |-> Mapped(a.bits)]

\* The parts of NotationDoesNotMatter: a list whose IPv4 blocks and whose
\* IPv6 blocks hold the same of the IPv4 addresses.
HoldsMapped(net) ==
    IsPrefix(MappedPrefix, net.prefix) \/ IsPrefix(net.prefix, MappedPrefix)
BothWays(list) ==
    /\ \A net \in list : net.family = "v4" =>
          \E other \in list : other.family = "v6" /\ IsPrefix(other.prefix, Mapped(net.prefix))
    /\ \A net \in list : net.family = "v6" /\ HoldsMapped(net) =>
          \E other \in list :
              /\ other.family = "v4"
              /\ other.prefix = <<>> \/ IsPrefix(Mapped(other.prefix), net.prefix)

\* A beginning of a beginning is a beginning.
LEMMA PrefixOfPrefix ==
    ASSUME NEW p \in Bits, NEW q \in Bits, NEW r \in Bits, IsPrefix(p, q), IsPrefix(q, r)
    PROVE  IsPrefix(p, r)
<1>1. /\ Len(p) \in Nat /\ Len(q) \in Nat /\ Len(r) \in Nat
      /\ Len(p) =< Len(q) /\ \A k \in 1 .. Len(p) : p[k] = q[k]
      /\ Len(q) =< Len(r) /\ \A k \in 1 .. Len(q) : q[k] = r[k]
  BY PrefixByElement DEF Bits
<1>2. Len(p) =< Len(r) /\ \A k \in 1 .. Len(p) : k \in 1 .. Len(q)
  BY <1>1
<1>3. \A k \in 1 .. Len(p) : p[k] = r[k]
  BY <1>1, <1>2
<1> QED BY <1>2, <1>3, PrefixByElement

\* Of two beginnings of the same bits one is a beginning of the other.
LEMMA PrefixesCompare ==
    ASSUME NEW p \in Bits, NEW q \in Bits, NEW r \in Bits, IsPrefix(p, r), IsPrefix(q, r)
    PROVE  IsPrefix(p, q) \/ IsPrefix(q, p)
<1>1. /\ Len(p) \in Nat /\ Len(q) \in Nat
      /\ \A k \in 1 .. Len(p) : p[k] = r[k]
      /\ \A k \in 1 .. Len(q) : q[k] = r[k]
  BY PrefixByElement DEF Bits
<1>2. CASE Len(p) =< Len(q)
  <2>1. \A k \in 1 .. Len(p) : k \in 1 .. Len(q)
    BY <1>1, <1>2
  <2>2. \A k \in 1 .. Len(p) : p[k] = q[k]
    BY <1>1, <2>1
  <2> QED BY <1>2, <2>2, PrefixByElement
<1>3. CASE Len(q) =< Len(p)
  <2>1. \A k \in 1 .. Len(q) : k \in 1 .. Len(p)
    BY <1>1, <1>3
  <2>2. \A k \in 1 .. Len(q) : q[k] = p[k]
    BY <1>1, <2>1
  <2> QED BY <1>3, <2>2, PrefixByElement
<1> QED BY <1>1, <1>2, <1>3

\* Such a list holds both notations of an address or neither.
LEMMA ListedInBoth ==
    ASSUME NEW list \in SUBSET Nets, BothWays(list), NEW b \in Bits,
           NEW x4, x4.family = "v4", x4.bits = b,
           NEW x6, x6.family = "v6", x6.bits = Mapped(b)
    PROVE  (\E net \in list : InNet(net, x4)) <=> (\E net \in list : InNet(net, x6))
<1>1. ASSUME NEW net \in list PROVE net.prefix \in Bits /\ Mapped(net.prefix) \in Bits
  BY AdmissionAssumption DEF Nets, Bits, Mapped
<1>4. MappedPrefix \in Bits /\ Mapped(b) \in Bits
  BY AdmissionAssumption DEF Bits, Mapped
<1>2. ASSUME NEW net \in list, InNet(net, x4) PROVE \E n \in list : InNet(n, x6)
  <2>1. net.family = "v4" /\ IsPrefix(net.prefix, b)
    BY <1>2 DEF InNet
  <2>2. IsPrefix(Mapped(net.prefix), Mapped(b))
    BY <1>1, <2>1, MappedPrefixes
  <2>3. PICK other \in list : other.family = "v6" /\ IsPrefix(other.prefix, Mapped(net.prefix))
    BY <2>1 DEF BothWays
  <2>4. IsPrefix(other.prefix, Mapped(b))
    BY <1>1, <1>4, <2>2, <2>3, PrefixOfPrefix
  <2>5. InNet(other, x6)
    BY <2>3, <2>4 DEF InNet
  <2> QED BY <2>5
<1>3. ASSUME NEW net \in list, InNet(net, x6) PROVE \E n \in list : InNet(n, x4)
  <2>1. net.family = "v6" /\ IsPrefix(net.prefix, Mapped(b))
    BY <1>3 DEF InNet
  <2>2. HoldsMapped(net)
    <3>1. IsPrefix(MappedPrefix, Mapped(b))
      <4>1. /\ Len(MappedPrefix) =< Len(Mapped(b))
            /\ \A k \in 1 .. Len(MappedPrefix) : MappedPrefix[k] = Mapped(b)[k]
        BY AdmissionAssumption DEF Bits, Mapped
      <4> QED BY <1>4, <4>1, PrefixByElement
    <3> QED BY <1>1, <1>4, <2>1, <3>1, PrefixesCompare DEF HoldsMapped
  <2>3. PICK other \in list : /\ other.family = "v4"
                              /\ other.prefix = <<>> \/ IsPrefix(Mapped(other.prefix), net.prefix)
    BY <2>1, <2>2 DEF BothWays
  <2>4. IsPrefix(other.prefix, b)
    <3>1. CASE other.prefix = <<>>
      <4>1. /\ Len(other.prefix) =< Len(b)
            /\ \A k \in 1 .. Len(other.prefix) : other.prefix[k] = b[k]
        BY <3>1 DEF Bits
      <4> QED BY <1>1, <4>1, PrefixByElement
    <3>2. CASE IsPrefix(Mapped(other.prefix), net.prefix)
      <4>1. IsPrefix(Mapped(other.prefix), Mapped(b))
        BY <1>1, <1>4, <2>1, <3>2, PrefixOfPrefix
      <4> QED BY <1>1, <4>1, MappedPrefixes
    <3> QED BY <2>3, <3>1, <3>2
  <2>5. InNet(other, x4)
    BY <2>3, <2>4 DEF InNet
  <2> QED BY <2>5
<1> QED BY <1>2, <1>3

\* A rule whose lists are of this kind does not tell the notations apart.
LEMMA RuleForBoth ==
    ASSUME NEW rule \in Rules, \A list \in rule.ips : BothWays(list),
           NEW a, a.bits \in Bits, a.family = "v4" \/ IsMapped(a), NEW u, NEW d, NEW t
    PROVE  Matches(rule, a, u, d, t) <=> Matches(rule, Twin(a), u, d, t)
<1>1. ASSUME NEW list \in rule.ips
      PROVE  (\E net \in list : InNet(net, a)) <=> (\E net \in list : InNet(net, Twin(a)))
  <2>1. list \in SUBSET Nets
    BY DEF Rules, Options
  <2>2. CASE IsMapped(a)
    <3> DEFINE rest == SubSeq(a.bits, Len(MappedPrefix) + 1, Len(a.bits))
    <3>1. a.family = "v6" /\ rest \in Bits /\ a.bits = Mapped(rest)
      BY <2>2, Unmapped DEF IsMapped
    <3>2. Twin(a).family = "v4" /\ Twin(a).bits = rest
      BY <2>2 DEF Twin, Normalise
    <3> HIDE DEF rest
    <3> QED BY <2>1, <3>1, <3>2, ListedInBoth
  <2>3. CASE ~IsMapped(a)
    <3>1. a.family = "v4" /\ Twin(a).family = "v6" /\ Twin(a).bits = Mapped(a.bits)
      BY <2>3 DEF Twin
    <3> QED BY <2>1, <3>1, ListedInBoth
  <2> QED BY <2>2, <2>3
<1> QED BY <1>1, Zenon DEF Matches

-----------------------------------------------------------------------------
(* Statements.                                                             *)

\* The parts of WholeWordsRefused.
IsWord(q, a, b) ==
    /\ \A k \in a .. b : q[k] \in IdentifierBytes
    /\ a = 1 \/ q[a - 1] \notin IdentifierBytes
    /\ b = Len(q) \/ q[b + 1] \notin IdentifierBytes
HasWord(q, w) == \E a, b \in 1 .. Len(q) :
    a =< b /\ IsWord(q, a, b) /\ Fold(SubSeq(q, a, b)) = w

\* Case does not matter for what can be part of an identifier.
LEMMA LowerKeepsIdentifiers ==
    ASSUME NEW c, NEW d, Lower(c) = Lower(d), d \in IdentifierBytes
    PROVE  c \in IdentifierBytes
BY DEF Lower, IdentifierBytes

\* A word that is a blocked entry is found by the search for the entry.
LEMMA WordContainsToken ==
    ASSUME NEW q \in Seq(STRING), NEW token \in Seq(STRING), HasWord(q, Fold(token))
    PROVE  ContainsToken(q, token)
<1>1. PICK a \in 1 .. Len(q), b \in 1 .. Len(q) :
         a =< b /\ IsWord(q, a, b) /\ Fold(SubSeq(q, a, b)) = Fold(token)
  BY DEF HasWord
<1>2. Len(q) \in Nat /\ Len(token) \in Nat
  OBVIOUS
<1>3. Len(token) = b - a + 1
  <2>1. DOMAIN Fold(SubSeq(q, a, b)) = 1 .. b - a + 1
    BY <1>1, <1>2 DEF Fold
  <2>2. DOMAIN Fold(token) = 1 .. Len(token)
    BY DEF Fold
  <2>3. 1 .. b - a + 1 = 1 .. Len(token) /\ b - a + 1 \in Nat
    BY <1>1, <1>2, <2>1, <2>2
  <2> QED BY <1>2, <2>3
<1>4. /\ a - 1 \in 0 .. Len(q) - Len(token) /\ a - 1 + 1 = a /\ a - 1 + Len(token) = b
      /\ token # <<>>
  BY <1>1, <1>2, <1>3
<1>5. Fold(SubSeq(q, a - 1 + 1, a - 1 + Len(token))) = Fold(token)
  BY <1>1, <1>4
<1>6. /\ ~(a - 1 > 0 /\ q[a - 1] \in IdentifierBytes)
      /\ ~(a - 1 + Len(token) < Len(q) /\ q[a - 1 + Len(token) + 1] \in IdentifierBytes)
  BY <1>1, <1>2, <1>4 DEF IsWord
<1> QED BY <1>4, <1>5, <1>6 DEF ContainsToken

\* The search finds an entry of one word only where the statement has that word.
LEMMA TokenIsWord ==
    ASSUME NEW q \in Seq(STRING), NEW token \in Seq(IdentifierBytes), ContainsToken(q, token)
    PROVE  HasWord(q, Fold(token))
<1>1. PICK start \in 0 .. Len(q) - Len(token) :
         LET end == start + Len(token) IN
         /\ Fold(SubSeq(q, start + 1, end)) = Fold(token)
         /\ ~(start > 0 /\ q[start] \in IdentifierBytes)
         /\ ~(end < Len(q) /\ q[end + 1] \in IdentifierBytes)
  BY DEF ContainsToken
<1>2. Len(q) \in Nat /\ Len(token) \in Nat /\ Len(token) > 0
  BY DEF ContainsToken
<1> DEFINE a == start + 1
           b == start + Len(token)
<1>3. a \in 1 .. Len(q) /\ b \in 1 .. Len(q) /\ a =< b /\ a - 1 = start
  BY <1>2
<1>4. ASSUME NEW k \in a .. b PROVE q[k] \in IdentifierBytes
  <2>1. k - start \in 1 .. Len(token) /\ start + (k - start) = k
    BY <1>2
  <2>2. /\ k - start \in DOMAIN SubSeq(q, a, b) /\ k - start \in DOMAIN token
        /\ SubSeq(q, a, b)[k - start] = q[k]
    BY <1>2, <1>3, <2>1
  <2>3. Lower(SubSeq(q, a, b)[k - start]) = Lower(token[k - start])
    <3>1. Fold(SubSeq(q, a, b)) = Fold(token)
      BY <1>1
    <3>2. /\ Fold(SubSeq(q, a, b))[k - start] = Lower(SubSeq(q, a, b)[k - start])
          /\ Fold(token)[k - start] = Lower(token[k - start])
      BY <2>2, Zenon DEF Fold
    <3> QED BY <3>1, <3>2
  <2>4. token[k - start] \in IdentifierBytes
    BY <2>1
  <2> QED BY <2>2, <2>3, <2>4, LowerKeepsIdentifiers
<1>5. /\ a = 1 \/ q[a - 1] \notin IdentifierBytes
      /\ b = Len(q) \/ q[b + 1] \notin IdentifierBytes
  BY <1>1, <1>2, <1>3
<1>6. Fold(SubSeq(q, a, b)) = Fold(token)
  BY <1>1
<1> HIDE DEF a, b
<1>7. IsWord(q, a, b)
  BY <1>4, <1>5 DEF IsWord
<1> QED BY <1>3, <1>6, <1>7 DEF HasWord

-----------------------------------------------------------------------------
(* The inductive invariant.                                                *)

TypeInv ==
    /\ rules \in Rulesets
    /\ i \in Nat \ {0} /\ now \in Minutes /\ ctx \in Contexts
    /\ pc \in {"accepted", "handshake", "rejected"} => nets \in Allowlists /\ peer \in Peers
    /\ pc \in {"startup", "check", "scan", "judged", "started", "session"} => ip \in Addresses
    /\ query \in Seq(STRING)

\* The verdict on the peer is kept until the peer is forgotten.
PeerInv ==
    /\ pc = "handshake" => IsTrusted(nets, peer)
    /\ pc = "rejected" => ~IsTrusted(nets, peer)

Decides(r) ==
    /\ Matches(rules[r], ip, user, db, now)
    /\ \A s \in 1 .. r - 1 : ~Matches(rules[s], ip, user, db, now)

\* The three ways out of check_connection.
Verdict ==
    \/ ~Parses(ip) /\ ctx = Unparsed
    \/ Parses(ip) /\ \E r \in 1 .. Len(rules) : Decides(r) /\ ctx = OfRule(rules[r])
    \/ /\ Parses(ip) /\ ctx = NoMatch
       /\ \A r \in 1 .. Len(rules) : ~Matches(rules[r], ip, user, db, now)

\* The loop has passed over the rules before i, and only those.
ScanInv ==
    /\ pc \in {"startup", "check"} => i = 1
    /\ pc = "scan" =>
          /\ Parses(ip) /\ i =< Len(rules) + 1
          /\ \A r \in 1 .. i - 1 : ~Matches(rules[r], ip, user, db, now)
    /\ pc \in {"judged", "started"} => Verdict
    /\ pc \in {"started", "session"} => ctx.action # "DENY"

EarlyInv == pc \in {"accepted", "handshake"} => i = 1

\* What is forwarded in the session is what check_query lets pass.
QueryInv ==
    /\ pc # "session" => query = <<>> /\ passed = TRUE
    /\ pc = "session" => (passed <=> CheckQuery(query, ctx))

\* The user and database judged, and the message rewritten, are the payload's.
StartupInv ==
    /\ pc \in {"check", "scan", "judged", "started"} =>
          payload \in Payloads /\ user = ExtractUser(payload) /\ db = ExtractDb(payload)
    /\ pc = "started" => out = InjectIpStartup(payload, ip.text)

IInv == TypeInv /\ EarlyInv /\ PeerInv /\ ScanInv /\ QueryInv /\ StartupInv

\* Every rule of a configuration is one.
LEMMA RulesTyped ==
    ASSUME TypeInv
    PROVE  /\ Len(rules) \in Nat /\ DOMAIN rules = 1 .. Len(rules)
           /\ \A r \in 1 .. Len(rules) : rules[r] \in Rules
<1>1. rules \in Seq(Rules)
  BY AdmissionAssumption DEF TypeInv
<1> QED BY <1>1

\* The statement before the first one: nothing is found in it.
LEMMA EmptyPasses ==
    ASSUME NEW c \in Contexts, c.action # "DENY"
    PROVE  CheckQuery(<<>>, c)
<1>1. ASSUME NEW token \in c.block_queries \cup c.block_tables PROVE ~ContainsToken(<<>>, token)
  <2>1. token \in Seq(STRING)
    BY DEF Contexts
  <2>2. CASE token = <<>>
    BY <2>2 DEF ContainsToken
  <2>3. CASE token # <<>>
    <3>1. Len(token) \in Nat /\ Len(token) > 0
      BY <2>1, <2>3
    <3>2. Len(<<>>) = 0
      OBVIOUS
    <3>3. 0 .. Len(<<>>) - Len(token) = {}
      BY <3>1, <3>2
    <3> QED BY <3>3 DEF ContainsToken
  <2> QED BY <2>2, <2>3
<1> QED BY <1>1 DEF CheckQuery

\* It holds initially.
LEMMA InitInv == Init => IInv
<1> SUFFICES ASSUME Init PROVE IInv
  OBVIOUS
<1>1. TypeInv
  <2>1. 0 \in Minutes
    BY DayAssumption DEF Minutes
  <2> QED BY <2>1, FixedContexts DEF Init, TypeInv
<1>2. EarlyInv /\ PeerInv /\ ScanInv
  BY DEF Init, EarlyInv, PeerInv, ScanInv
<1>3. QueryInv /\ StartupInv
  BY DEF Init, QueryInv, StartupInv
<1> QED BY <1>1, <1>2, <1>3 DEF IInv

\* One lemma for each part: every step keeps the types.
LEMMA TypeStep == IInv /\ [Next]_vars => TypeInv'
<1> SUFFICES ASSUME IInv, [Next]_vars PROVE TypeInv'
  OBVIOUS
<1> USE DEF IInv, TypeInv, origin, session, startup
<1>0. CASE UNCHANGED vars
  BY <1>0 DEF vars
<1>1. CASE CheckPeer
  BY <1>1 DEF CheckPeer
<1>2. CASE ReadProxyHeader
  BY <1>2 DEF ReadProxyHeader
<1>3. CASE Receive
  BY <1>3 DEF Receive
<1>4. CASE Check
  BY <1>4, FixedContexts DEF Check
<1>5. CASE NextRule
  <2>1. CASE Matches(rules[i], ip, user, db, now)
    <3>1. rules[i] \in Rules
      BY <1>5, RulesTyped DEF NextRule
    <3>2. OfRule(rules[i]) \in Contexts
      BY <3>1, RuleContext
    <3> QED BY <1>5, <2>1, <3>2 DEF NextRule
  <2>2. CASE ~Matches(rules[i], ip, user, db, now)
    BY <1>5, <2>2 DEF NextRule
  <2> QED BY <2>1, <2>2
<1>6. CASE NoRuleLeft
  BY <1>6, FixedContexts DEF NoRuleLeft
<1>7. CASE Deny
  BY <1>7 DEF Deny
<1>8. CASE Inject
  BY <1>8 DEF Inject
<1>9. CASE Serve
  <2>1. 0 \in Minutes
    BY DayAssumption DEF Minutes
  <2> QED BY <1>9, <2>1 DEF Serve
<1>10. CASE Inspect
  <2>1. query' \in Seq(STRING)
    BY <1>10, AdmissionAssumption DEF Inspect
  <2> QED BY <1>10, <2>1 DEF Inspect
<1>11. CASE Closed
  BY <1>11 DEF Closed, vars
<1> QED
  BY <1>0, <1>1, <1>2, <1>3, <1>4, <1>5, <1>6, <1>7, <1>8, <1>9, <1>10, <1>11 DEF Next

\* The loop over the rules has not begun before the startup message.
LEMMA EarlyStep == IInv /\ [Next]_vars => EarlyInv'
<1> SUFFICES ASSUME IInv, [Next]_vars PROVE EarlyInv'
  OBVIOUS
<1> QED
  BY DEF IInv, EarlyInv, Next, vars, origin, session, startup, CheckPeer, ReadProxyHeader, Receive,
     Check, NextRule, NoRuleLeft, Deny, Inject, Serve, Inspect, Closed

\* The verdict on the peer is kept.
LEMMA PeerStep == IInv /\ [Next]_vars => PeerInv'
<1> SUFFICES ASSUME IInv, [Next]_vars PROVE PeerInv'
  OBVIOUS
<1>1. CASE CheckPeer
  BY <1>1 DEF CheckPeer, PeerInv, origin
<1>2. CASE Closed \/ UNCHANGED vars
  BY <1>2 DEF Closed, vars, origin, PeerInv, IInv
<1>3. CASE ~CheckPeer /\ ~Closed /\ ~UNCHANGED vars
  <2>1. pc' \notin {"handshake", "rejected"}
    BY <1>3 DEF Next, ReadProxyHeader, Receive, Check, NextRule, NoRuleLeft, Deny, Inject,
       Serve, Inspect
  <2> QED BY <2>1 DEF PeerInv
<1> QED BY <1>1, <1>2, <1>3

\* Only inspected statements are forwarded or refused.
LEMMA QueryStep == IInv /\ [Next]_vars => QueryInv'
<1> SUFFICES ASSUME IInv, [Next]_vars PROVE QueryInv'
  OBVIOUS
<1>1. CASE Inspect
  <2>1. PICK q \in Queries : query' = q /\ passed' = CheckQuery(q, ctx)
    BY <1>1 DEF Inspect
  <2>2. pc' = "session" /\ ctx' = ctx
    BY <1>1 DEF Inspect, session
  <2>3. passed' <=> CheckQuery(query', ctx')
    BY <2>1, <2>2, Zenon
  <2> QED BY <2>2, <2>3 DEF QueryInv
<1>2. CASE Serve
  <2>1. query = <<>> /\ passed = TRUE /\ CheckQuery(<<>>, ctx)
    BY <1>2, EmptyPasses DEF Serve, IInv, QueryInv, TypeInv, ScanInv
  <2>2. pc' = "session" /\ query' = query /\ passed' = passed /\ ctx' = ctx
    BY <1>2 DEF Serve, session
  <2>3. passed' <=> CheckQuery(query', ctx')
    BY <2>1, <2>2, Zenon
  <2> QED BY <2>2, <2>3 DEF QueryInv
<1>3. CASE UNCHANGED vars
  <2>1. pc' = pc /\ query' = query /\ passed' = passed /\ ctx' = ctx
    BY <1>3 DEF vars, session
  <2> QED BY <2>1, Zenon DEF QueryInv, IInv
<1>4. CASE ~Inspect /\ ~Serve /\ ~UNCHANGED vars
  <2>1. pc # "session" /\ pc' # "session" /\ query' = query /\ passed' = passed
    BY <1>4 DEF Next, CheckPeer, ReadProxyHeader, Receive, Check, NextRule, NoRuleLeft, Deny,
       Inject, Closed
  <2> QED BY <2>1, Zenon DEF QueryInv, IInv
<1> QED BY <1>1, <1>2, <1>3, <1>4

\* The verdict depends on nothing that the steps after it change.
LEMMA VerdictKept ==
    ASSUME Verdict, UNCHANGED <<rules, ip, user, db, now, ctx>>
    PROVE  Verdict'
BY DEF Verdict, Decides, Matches, InNet, TimeInRange, Parses

\* Every turn of check_connection's loop keeps what it has found.
LEMMA ScanStep == IInv /\ [Next]_vars => ScanInv'
<1> SUFFICES ASSUME IInv, [Next]_vars PROVE ScanInv'
  OBVIOUS
<1> USE DEF IInv
<1> DEFINE M(r) == Matches(rules[r], ip, user, db, now)
<1>0. CASE UNCHANGED vars
  <2>1. pc' = pc /\ UNCHANGED <<rules, ip, user, db, now, ctx, i>>
    BY <1>0 DEF vars, origin, session, startup
  <2> QED BY <2>1, VerdictKept DEF ScanInv, Parses
<1>1. CASE CheckPeer
  BY <1>1 DEF CheckPeer, ScanInv
<1>2. CASE ReadProxyHeader
  BY <1>2 DEF ReadProxyHeader, ScanInv, EarlyInv, startup
<1>3. CASE Receive
  BY <1>3 DEF Receive, ScanInv
<1>4. CASE Check
  <2>1. CASE Parses(ip)
    <3>1. pc' = "scan" /\ i' = 1 /\ ip' = ip /\ rules' = rules
      BY <1>4, <2>1 DEF Check, ScanInv
    <3>2. Parses(ip)' /\ (i =< Len(rules) + 1)'
      BY <2>1, <3>1, RulesTyped DEF Parses
    <3>3. 1 .. i' - 1 = {}
      BY <3>1
    <3> QED BY <3>1, <3>2, <3>3 DEF ScanInv
  <2>2. CASE ~Parses(ip)
    <3>1. pc' = "judged" /\ ctx' = Unparsed /\ ip' = ip
      BY <1>4, <2>2 DEF Check
    <3>2. Verdict'
      BY <2>2, <3>1 DEF Verdict, Parses
    <3> QED BY <3>1, <3>2 DEF ScanInv
  <2> QED BY <2>1, <2>2
<1>5. CASE NextRule
  <2>1. /\ pc = "scan" /\ i \in 1 .. Len(rules) /\ UNCHANGED <<rules, ip, user, db, now>>
        /\ Parses(ip) /\ \A r \in 1 .. i - 1 : ~M(r)
    BY <1>5, RulesTyped DEF NextRule, TypeInv, ScanInv
  <2>2. CASE M(i)
    <3>1. pc' = "judged" /\ ctx' = OfRule(rules[i])
      BY <1>5, <2>2 DEF NextRule
    <3>2. Decides(i)
      BY <2>1, <2>2 DEF Decides
    <3>3. /\ Parses(ip') /\ i \in 1 .. Len(rules') /\ ctx' = OfRule(rules'[i])
          /\ Matches(rules'[i], ip', user', db', now')
          /\ \A s \in 1 .. i - 1 : ~Matches(rules'[s], ip', user', db', now')
      BY <2>1, <3>1, <3>2, Zenon DEF Decides
    <3>4. Verdict'
      BY <3>3 DEF Verdict, Decides
    <3> QED BY <3>1, <3>4 DEF ScanInv
  <2>3. CASE ~M(i)
    <3>1. pc' = pc /\ i' = i + 1
      BY <1>5, <2>3 DEF NextRule
    <3>2. \A r \in 1 .. i' - 1 : ~M(r)
      <4>1. ASSUME NEW r \in 1 .. i' - 1 PROVE r = i \/ r \in 1 .. i - 1
        BY <2>1, <3>1
      <4> HIDE DEF M
      <4> QED BY <2>1, <2>3, <4>1
    <3>3. (\A r \in 1 .. i - 1 : ~Matches(rules[r], ip, user, db, now))'
      BY <2>1, <3>2, Zenon
    <3>4. Parses(ip)' /\ (i =< Len(rules) + 1)'
      BY <2>1, <3>1, RulesTyped DEF Parses
    <3> QED BY <2>1, <3>1, <3>3, <3>4 DEF ScanInv
  <2> QED BY <2>2, <2>3
<1>6. CASE NoRuleLeft
  <2>1. /\ pc' = "judged" /\ ctx' = NoMatch /\ UNCHANGED <<rules, ip, user, db, now>>
        /\ Parses(ip) /\ \A r \in 1 .. i - 1 : ~M(r)
    BY <1>6 DEF NoRuleLeft, ScanInv, startup
  <2>2. \A r \in 1 .. Len(rules) : r \in 1 .. i - 1
    BY <1>6, RulesTyped DEF NoRuleLeft, TypeInv
  <2>3. Parses(ip') /\ \A r \in 1 .. Len(rules') : ~Matches(rules'[r], ip', user', db', now')
    BY <2>1, <2>2, Zenon
  <2>4. Verdict'
    BY <2>1, <2>3 DEF Verdict
  <2> QED BY <2>1, <2>4 DEF ScanInv
<1>7. CASE Deny
  BY <1>7 DEF Deny, ScanInv
<1>8. CASE Inject
  <2>1. /\ pc = "judged" /\ pc' = "started" /\ UNCHANGED <<rules, ip, user, db, now, ctx>>
        /\ ctx.action # "DENY"
    BY <1>8 DEF Inject, session
  <2>2. Verdict'
    BY <2>1, VerdictKept DEF ScanInv
  <2> QED BY <2>1, <2>2 DEF ScanInv
<1>9. CASE Serve
  BY <1>9 DEF Serve, ScanInv, session
<1>10. CASE Inspect
  BY <1>10 DEF Inspect, ScanInv, session
<1>11. CASE Closed
  BY <1>11 DEF Closed, vars, ScanInv
<1> QED
  BY <1>0, <1>1, <1>2, <1>3, <1>4, <1>5, <1>6, <1>7, <1>8, <1>9, <1>10, <1>11 DEF Next

\* The payload is kept until it is rewritten.
LEMMA StartupStep == IInv /\ [Next]_vars => StartupInv'
<1> SUFFICES ASSUME IInv, [Next]_vars PROVE StartupInv'
  OBVIOUS
<1> USE DEF StartupInv
<1>0. CASE UNCHANGED vars \/ Closed
  BY <1>0 DEF IInv, Closed, vars, startup, session
<1>1. CASE CheckPeer \/ ReadProxyHeader \/ Deny \/ Serve \/ Inspect
  <2>1. pc' \notin {"check", "scan", "judged", "started"}
    BY <1>1 DEF CheckPeer, ReadProxyHeader, Deny, Serve, Inspect
  <2> QED BY <2>1
<1>2. CASE Receive
  <2>1. PICK words \in Payloads :
           payload' = words /\ user' = ExtractUser(words) /\ db' = ExtractDb(words)
    BY <1>2 DEF Receive
  <2>2. pc' = "check"
    BY <1>2 DEF Receive
  <2> QED BY <2>1, <2>2
<1>3. CASE Check \/ NextRule \/ NoRuleLeft
  <2>1. pc \in {"check", "scan"} /\ pc' \in {"scan", "judged"}
    BY <1>3 DEF Check, NextRule, NoRuleLeft
  <2>2. payload' = payload /\ user' = user /\ db' = db
    BY <1>3 DEF Check, NextRule, NoRuleLeft, startup
  <2> QED BY <2>1, <2>2 DEF IInv
<1>4. CASE Inject
  <2>1. pc = "judged" /\ pc' = "started" /\ out' = InjectIpStartup(payload, ip.text)
    BY <1>4 DEF Inject
  <2>2. payload' = payload /\ user' = user /\ db' = db /\ ip' = ip
    BY <1>4 DEF Inject, session
  <2>3. out' = InjectIpStartup(payload', ip'.text)
    BY <2>1, <2>2, Zenon
  <2> QED BY <2>1, <2>2, <2>3 DEF IInv
<1> QED BY <1>0, <1>1, <1>2, <1>3, <1>4 DEF Next

\* The loop over the rules and the session keep the invariant.
THEOREM Invariant == Spec => []IInv
<1>1. IInv /\ [Next]_vars => IInv'
  BY TypeStep, EarlyStep, PeerStep, ScanStep, QueryStep, StartupStep DEF IInv
<1> QED BY InitInv, <1>1, PTL DEF Spec

-----------------------------------------------------------------------------
(* The theorems.                                                           *)

(***************************************************************************)
(* PeerListedEitherWay holds: whatever the allowlist and the prefix of the *)
(* mapped addresses, is_trusted lets a peer through to its PROXY header    *)
(* exactly if a block holds it in one of the notations.                    *)
(***************************************************************************)
THEOREM PeersTold == Spec => []PeerListedEitherWay
<1>1. IInv => PeerListedEitherWay
  <2> SUFFICES ASSUME IInv, pc \in {"handshake", "rejected"} PROVE PeerListedEitherWay
    BY DEF PeerListedEitherWay
  <2> DEFINE Other(net) == [family |-> "v6", prefix |-> Mapped(net.prefix)]
             Listed == \E net \in nets :
                 InNet(net, peer) \/ (net.family = "v4" /\ InNet(Other(net), peer))
  <2>1. nets \in SUBSET Nets /\ peer.bits \in Bits
    BY AdmissionAssumption DEF IInv, TypeInv, Bits
  <2>2. ASSUME NEW net \in nets
        PROVE  InNet(net, peer) \/ InNet(net, Normalise(peer))
               <=> InNet(net, peer) \/ (net.family = "v4" /\ InNet(Other(net), peer))
    <3>1. net.prefix \in Bits
      BY <2>1 DEF Nets, Bits
    <3>2. CASE IsMapped(peer)
      <4> DEFINE rest == SubSeq(peer.bits, Len(MappedPrefix) + 1, Len(peer.bits))
      <4>1. peer.family = "v6" /\ rest \in Bits /\ peer.bits = Mapped(rest)
        BY <2>1, <3>2, Unmapped DEF IsMapped
      <4>2. Normalise(peer) = [family |-> "v4", bits |-> rest]
        BY <3>2 DEF Normalise
      <4> HIDE DEF rest
      <4>3. InNet(net, Normalise(peer)) <=> net.family = "v4" /\ IsPrefix(net.prefix, rest)
        BY <4>2 DEF InNet
      <4>4. InNet(Other(net), peer) <=> IsPrefix(Mapped(net.prefix), Mapped(rest))
        BY <4>1 DEF InNet
      <4> QED BY <3>1, <4>1, <4>3, <4>4, MappedPrefixes
    <3>3. CASE ~IsMapped(peer)
      <4>1. InNet(net, Normalise(peer)) <=> InNet(net, peer)
        BY <3>3 DEF Normalise, InNet
      <4>2. ~InNet(Other(net), peer)
        <5>1. SUFFICES ASSUME peer.family = "v6", IsPrefix(Mapped(net.prefix), peer.bits) PROVE FALSE
          BY DEF InNet
        <5>2. MappedPrefix \in Bits
          BY AdmissionAssumption DEF Bits
        <5>3. /\ Mapped(net.prefix) \in Bits /\ Len(MappedPrefix) \in Nat /\ Len(net.prefix) \in Nat
              /\ Len(Mapped(net.prefix)) = Len(MappedPrefix) + Len(net.prefix)
              /\ \A k \in 1 .. Len(MappedPrefix) : Mapped(net.prefix)[k] = MappedPrefix[k]
          BY <3>1, <5>2 DEF Mapped, Bits
        <5>4. /\ Len(Mapped(net.prefix)) =< Len(peer.bits)
              /\ \A k \in 1 .. Len(Mapped(net.prefix)) : Mapped(net.prefix)[k] = peer.bits[k]
          BY <2>1, <5>1, <5>3, PrefixByElement
        <5>5. Len(peer.bits) \in Nat
          BY <2>1 DEF Bits
        <5>6. Len(MappedPrefix) =< Len(peer.bits) /\ \A k \in 1 .. Len(MappedPrefix) : MappedPrefix[k] = peer.bits[k]
          BY <5>3, <5>4, <5>5
        <5>7. IsPrefix(MappedPrefix, peer.bits)
          BY <2>1, <5>2, <5>6, PrefixByElement
        <5> QED BY <3>3, <5>1, <5>7 DEF IsMapped
      <4> QED BY <4>1, <4>2
    <3> QED BY <3>2, <3>3
  <2>3. IsTrusted(nets, peer) <=> Listed
    BY <2>2 DEF IsTrusted
  <2>4. pc = "handshake" <=> IsTrusted(nets, peer)
    BY DEF IInv, PeerInv
  <2> QED BY <2>3, <2>4 DEF PeerListedEitherWay
<1> QED BY Invariant, <1>1, PTL

(***************************************************************************)
(* FirstRuleDecides holds: for every ruleset, address, time of day and     *)
(* length of the day, a connection is served only under the first rule     *)
(* that holds in full, or under none if none does, and never denied.       *)
(***************************************************************************)
THEOREM FirstRule == Spec => []FirstRuleDecides
<1>1. IInv => FirstRuleDecides
  <2> SUFFICES ASSUME IInv, pc = "started" PROVE FirstRuleDecides
    BY DEF FirstRuleDecides
  <2> DEFINE H(r) == Holds(rules[r], ip, user, db, now)
             First(r) == H(r) /\ \A s \in 1 .. r - 1 : ~H(s)
  <2>1. /\ Len(rules) \in Nat /\ DOMAIN rules = 1 .. Len(rules)
        /\ \A r \in 1 .. Len(rules) : rules[r] \in Rules
    BY RulesTyped DEF IInv
  <2>2. ASSUME NEW r \in 1 .. Len(rules) PROVE Matches(rules[r], ip, user, db, now) <=> H(r)
    BY <2>1, MatchesHolds DEF IInv, TypeInv
  <2>3. Verdict /\ ctx.action # "DENY"
    BY DEF IInv, ScanInv
  <2>4. Parses(ip)
    BY <2>3, FixedContexts DEF Verdict
  <2> HIDE DEF H
  <2>5. ASSUME NEW r \in 1 .. Len(rules), Decides(r) PROVE First(r)
    <3>1. \A s \in 1 .. r - 1 : s \in 1 .. Len(rules)
      BY <2>1
    <3> QED BY <2>2, <2>5, <3>1, Zenon DEF Decides
  <2>6. \/ \E r \in DOMAIN rules : First(r) /\ ctx = OfRule(rules[r]) /\ ctx.action # "DENY"
        \/ ctx = NoMatch /\ \A r \in DOMAIN rules : ~H(r)
    <3>1. CASE \E r \in 1 .. Len(rules) : Decides(r) /\ ctx = OfRule(rules[r])
      BY <3>1, <2>1, <2>3, <2>5, Zenon
    <3>2. CASE ctx = NoMatch /\ \A r \in 1 .. Len(rules) : ~Matches(rules[r], ip, user, db, now)
      BY <3>2, <2>1, <2>2, Zenon
    <3> QED BY <2>3, <2>4, <3>1, <3>2, Zenon DEF Verdict
  <2> QED BY <2>4, <2>6, Zenon DEF FirstRuleDecides, H, Holds, Inside
<1> QED BY Invariant, <1>1, PTL

(***************************************************************************)
(* NotationDoesNotMatter holds: under rules whose IPv4 blocks lie in a     *)
(* listed IPv6 block and whose IPv6 blocks, where they reach into the      *)
(* mapped range, lie in a listed IPv4 block, check_connection gives an     *)
(* IPv4 address and its other notation the same context, whatever else the *)
(* rules say and whichever other IPv6 blocks they list.                    *)
(***************************************************************************)
THEOREM NotationsAlike == Spec => []NotationDoesNotMatter
<1>1. IInv => NotationDoesNotMatter
  <2> DEFINE AllBothWays == \A r \in DOMAIN rules : \A list \in rules[r].ips : BothWays(list)
             N(r) == Matches(rules[r], Twin(ip), user, db, now)
             First == {r \in DOMAIN rules : N(r) /\ \A q \in 1 .. r - 1 : ~N(q)}
             Chosen == IF First = {} THEN NoMatch ELSE OfRule(rules[CHOOSE r \in First : TRUE])
  <2>1. ASSUME IInv, pc = "judged", AllBothWays, ip.family = "v4" \/ IsMapped(ip)
        PROVE  ctx = Chosen
    <3>1. /\ Len(rules) \in Nat /\ DOMAIN rules = 1 .. Len(rules)
          /\ \A r \in 1 .. Len(rules) : rules[r] \in Rules
      BY <2>1, RulesTyped DEF IInv
    <3>2. ip.bits \in Bits
      BY <2>1, AdmissionAssumption DEF IInv, TypeInv, Bits
    <3>3. ASSUME NEW r \in 1 .. Len(rules) PROVE Matches(rules[r], ip, user, db, now) <=> N(r)
      BY <2>1, <3>1, <3>2, RuleForBoth
    <3>4. Parses(ip) /\ Verdict
      BY <2>1 DEF Parses, IsMapped, IInv, ScanInv
    <3> HIDE DEF N
    <3>5. CASE \E r \in 1 .. Len(rules) : Decides(r) /\ ctx = OfRule(rules[r])
      <4>1. PICK r \in 1 .. Len(rules) : Decides(r) /\ ctx = OfRule(rules[r])
        BY <3>5
      <4>2. \A s \in 1 .. r - 1 : s \in 1 .. Len(rules)
        BY <3>1
      <4>3. N(r) /\ \A s \in 1 .. r - 1 : ~N(s)
        BY <3>3, <4>1, <4>2, Zenon DEF Decides
      <4>4. ASSUME NEW s \in First PROVE s = r
        <5>1. s \in 1 .. Len(rules) /\ N(s) /\ \A q \in 1 .. s - 1 : ~N(q)
          BY <3>1
        <5>2. r \notin 1 .. s - 1 /\ s \notin 1 .. r - 1
          BY <4>3, <5>1
        <5> QED BY <3>1, <5>1, <5>2
      <4>5. r \in First
        BY <3>1, <4>3
      <4> HIDE DEF First
      <4>6. (CHOOSE s \in First : TRUE) = r /\ First # {}
        BY <4>4, <4>5
      <4>7. Chosen = OfRule(rules[r])
        BY <4>6, Zenon
      <4> QED BY <4>1, <4>7
    <3>6. CASE ctx = NoMatch /\ \A r \in 1 .. Len(rules) : ~Matches(rules[r], ip, user, db, now)
      <4>1. First = {}
        BY <3>1, <3>3, <3>6
      <4> QED BY <3>6, <4>1
    <3> QED BY <3>4, <3>5, <3>6 DEF Verdict
  <2> QED BY <2>1, Zenon DEF NotationDoesNotMatter, BothWays, HoldsMapped, Twin
<1> QED BY Invariant, <1>1, PTL

(***************************************************************************)
(* WholeWordsRefused holds: for every statement and every list of blocked  *)
(* entries, the search of contains_token for an entry with a byte looked   *)
(* at on either side is the comparison of whole words.                     *)
(***************************************************************************)
THEOREM WordsRefused == Spec => []WholeWordsRefused
<1>1. IInv => WholeWordsRefused
  <2> SUFFICES ASSUME IInv, pc = "session" PROVE WholeWordsRefused
    BY DEF WholeWordsRefused
  <2> DEFINE tokens == ctx.block_queries \cup ctx.block_tables
             Blocked == \E t \in tokens : HasWord(query, Fold(t))
  <2>1. ctx \in Contexts /\ ctx.action # "DENY" /\ query \in Seq(STRING) /\ (passed <=> CheckQuery(query, ctx))
    BY DEF IInv, TypeInv, ScanInv, QueryInv
  <2>2. tokens \in SUBSET Seq(STRING)
    BY <2>1 DEF Contexts
  <2> HIDE DEF tokens
  <2>3. passed <=> ctx.action = "ALLOW" \/ ~\E t \in tokens : ContainsToken(query, t)
    BY <2>1, Zenon DEF CheckQuery, tokens
  <2>4. ASSUME NEW t \in tokens, HasWord(query, Fold(t)) PROVE ContainsToken(query, t)
    BY <2>1, <2>2, <2>4, WordContainsToken
  <2>5. ASSUME tokens \subseteq Seq(IdentifierBytes), NEW t \in tokens, ContainsToken(query, t)
        PROVE  HasWord(query, Fold(t))
    BY <2>1, <2>5, TokenIsWord
  <2>6. /\ ctx.action = "ALLOW" => passed
        /\ ctx.action # "ALLOW" /\ Blocked => ~passed
        /\ ~passed /\ tokens \subseteq Seq(IdentifierBytes) => Blocked
    BY <2>3, <2>4, <2>5, Zenon
  <2> QED BY <2>6, Zenon DEF WholeWordsRefused, tokens, HasWord, IsWord
<1> QED BY Invariant, <1>1, PTL

(***************************************************************************)
(* A message is rewritten only for an address that is one, and from words  *)
(* a client may send.                                                      *)
(***************************************************************************)
LEMMA Rewritten ==
    ASSUME IInv, pc = "started"
    PROVE  /\ payload \in Seq(Word) \ {<<>>} /\ Fitting(ip.text)
           /\ out = InjectIpStartup(payload, ip.text)
           /\ user = ExtractUser(payload) /\ db = ExtractDb(payload)
<1>1. /\ payload \in Payloads /\ user = ExtractUser(payload) /\ db = ExtractDb(payload)
      /\ out = InjectIpStartup(payload, ip.text)
  BY DEF IInv, StartupInv
<1>2. payload \in Seq(Word) \ {<<>>}
  BY <1>1, AdmissionAssumption, Zenon DEF Word
<1>3. Parses(ip)
  <2>1. Verdict /\ ctx.action # "DENY"
    BY DEF IInv, ScanInv
  <2> QED BY <2>1, FixedContexts DEF Verdict
<1>4. ip \in Addresses
  BY DEF IInv, TypeInv
<1>5. Fitting(ip.text)
  BY <1>3, <1>4, AdmissionAssumption, Zenon DEF Fitting
<1> QED BY <1>1, <1>2, <1>5

(***************************************************************************)
(* JudgedAsRead holds: inject_ip_startup leaves PostgreSQL the user and    *)
(* database that extract_user_db gave Guardian, for parameter sections of  *)
(* every shape and length; PostgreSQL goes on with them as they are if     *)
(* they are within its limit on names, and else with as many bytes of them *)
(* as the limit allows.                                                    *)
(***************************************************************************)
THEOREM Judged == Spec => []JudgedAsRead
<1>1. IInv => JudgedAsRead
  <2> DEFINE AsJudged(used, judged) ==
                 \/ Lossy(used) = judged
                 \/ /\ WordBytes(judged) > NameLimit /\ WordBytes(used) = NameLimit
                    /\ \A k \in DOMAIN used : used[k] # "invalid" => used[k] = judged[k]
  <2>1. ASSUME NEW w \in Word PROVE AsJudged(PgCut(w), Lossy(w))
    BY CutKeeps, Zenon
  <2> HIDE DEF AsJudged
  <2>2. ASSUME IInv, pc = "started"
        PROVE  PgLayoutOK(out) /\ AsJudged(PgUser(out), user) /\ AsJudged(PgDb(out), db)
    <3>1. /\ PgLayoutOK(out)
          /\ \E u \in Word : PgUser(out) = PgCut(u) /\ user = Lossy(u)
          /\ \E d \in Word : PgDb(out) = PgCut(d) /\ db = Lossy(d)
      <4>1. /\ payload \in Seq(Word) \ {<<>>} /\ Fitting(ip.text)
            /\ out = InjectIpStartup(payload, ip.text)
            /\ user = ExtractUser(payload) /\ db = ExtractDb(payload)
        BY <2>2, Rewritten, Zenon
      <4>2. /\ PgLayoutOK(out)
            /\ \E u \in Word : PgUser(out) = PgCut(u) /\ ExtractUser(payload) = Lossy(u)
            /\ \E d \in Word : PgDb(out) = PgCut(d) /\ ExtractDb(payload) = Lossy(d)
        BY <4>1, SameIdentity
      <4> QED BY <4>1, <4>2, Zenon
    <3> QED BY <2>1, <3>1, Zenon
  <2> QED BY <2>2, Zenon DEF JudgedAsRead, AsJudged
<1> QED BY <1>1, Invariant, PTL

(***************************************************************************)
(* OthersUntouched holds: what PostgreSQL would have read of a well-formed *)
(* message it reads after inject_ip_startup, pair by pair, except for      *)
(* application_name.                                                       *)
(***************************************************************************)
THEOREM Untouched == Spec => []OthersUntouched
<1>1. IInv => OthersUntouched
  <2>1. ASSUME IInv, pc = "started", PgLayoutOK(payload)
        PROVE  LET before == PgPairs(payload)
                   after == PgPairs(out)
                   Named(p) == p.key = ApplicationName
               IN  /\ Len(before) =< Len(after)
                   /\ \A k \in DOMAIN before :
                         after[k].key = before[k].key /\ (~Named(before[k]) => after[k] = before[k])
                   /\ \A k \in Len(before) + 1 .. Len(after) : Named(after[k])
    BY <2>1, Rewritten, OthersKept
  <2> QED BY <2>1, Zenon DEF OthersUntouched
<1> QED BY <1>1, Invariant, PTL

(***************************************************************************)
(* AddressStored holds: however long or costly the client's name is, what  *)
(* is left of it after pg_clean_ascii and the cut ends with the address.   *)
(***************************************************************************)
THEOREM AddressShown == Spec => []AddressStored
<1>1. IInv => AddressStored
  BY Rewritten, AddressKept DEF AddressStored
<1> QED BY <1>1, Invariant, PTL

(***************************************************************************)
(* LongestNameKept holds: truncate_to_stored_budget stops at the longest   *)
(* beginning of the name for which PostgreSQL has room, never before.      *)
(***************************************************************************)
THEOREM LongestName == Spec => []LongestNameKept
<1>1. IInv => LongestNameKept
  <2>1. ASSUME IInv, pc = "started", FoundAppName(Pairs(payload)),
               NEW name, name = Lossy(LastValue(Pairs(payload), ApplicationName))
        PROVE  KeepsLongest(LastValue(PgPairs(out), ApplicationName), name, ip.text)
    BY <2>1, Rewritten, NameKept
  <2> QED BY <2>1, Zenon DEF LongestNameKept, KeepsLongest
<1> QED BY <1>1, Invariant, PTL

(***************************************************************************)
(* GrowthBounded holds: the length that inject_ip_startup adds is that of  *)
(* the suffixes, or of the one parameter, whatever else the message holds. *)
(***************************************************************************)
THEOREM Growth == Spec => []GrowthBounded
<1>1. IInv => GrowthBounded
  <2>1. ASSUME IInv, pc = "started", PgLayoutOK(payload), NEW P, P = Pairs(payload)
        PROVE  Bytes(out) =< Bytes(payload) +
                  (IF FoundAppName(P) THEN Total([k \in DOMAIN P |-> Grows(P[k], ip.text)])
                   ELSE Len(ApplicationName) + Len(ip.text) + 3)
    BY <2>1, Rewritten, GrowthIsBounded
  <2> QED BY <2>1, Zenon DEF GrowthBounded, Grows, Replaced, Excess
<1> QED BY <1>1, Invariant, PTL
=============================================================================
