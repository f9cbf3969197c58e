------------------------- MODULE OnvifResponseProofs -------------------------
(***************************************************************************)
(* Proofs about HttpText and OnvifResponse, for every response, cut and    *)
(* bound.                                                                  *)
(*                                                                         *)
(* The loop of replace_url_authorities is a recursive function: that it is *)
(* defined and what its values consist of is shown by taking the last      *)
(* round that would be wrong.  The response on its way is described by the *)
(* points where it was cut, of which only the existence is claimed.        *)
(***************************************************************************)
EXTENDS OnvifResponse, PtcpWireProofs, SequenceTheorems, WellFoundedInduction

-----------------------------------------------------------------------------
(* Positions in a text. *)

\* Numbers of which there is one have a least one.
LEMMA LeastNumber ==
  ASSUME NEW S, S \subseteq Nat, S # {}
  PROVE  \E m \in S : \A n \in S : m <= n
<1>1. IsWellFoundedOn(OpToRel(<, Nat), Nat)
  BY NatLessThanWellFounded
<1>2. PICK m \in S : \A n \in S : ~(<<n, m>> \in OpToRel(<, Nat))
  BY <1>1, WFMin
<1>3. \A n \in S : ~(n < m)
  BY <1>2 DEF OpToRel
<1>4. QED
  BY <1>3

\* The least of some numbers is one of them.
LEMMA MinIsLeast ==
  ASSUME NEW S, S \subseteq Nat, S # {}
  PROVE  Min(S) \in S /\ \A n \in S : Min(S) <= n
<1>1. \E m \in S : \A n \in S : m <= n
  BY LeastNumber
<1>2. QED
  BY <1>1 DEF Min

\* FirstAt is the first of these tokens, or the end of the text.
LEMMA FirstAtFinds ==
  ASSUME NEW text, Len(text) \in Nat, NEW from \in 1 .. Len(text) + 1, NEW tokens
  PROVE  /\ FirstAt(text, from, tokens) \in from .. Len(text) + 1
         /\ \A i \in from .. FirstAt(text, from, tokens) - 1 : text[i] \notin tokens
         /\ FirstAt(text, from, tokens) <= Len(text) =>
              text[FirstAt(text, from, tokens)] \in tokens
<1> DEFINE at == {i \in from .. Len(text) : text[i] \in tokens}
<1>1. at \subseteq Nat
  OBVIOUS
<1>2. FirstAt(text, from, tokens) = IF at = {} THEN Len(text) + 1 ELSE Min(at)
  BY DEF FirstAt
<1>3. CASE at = {}
  <2>1. FirstAt(text, from, tokens) = Len(text) + 1
    BY <1>2, <1>3
  <2>2. \A i \in from .. Len(text) : text[i] \notin tokens
    BY <1>3
  <2>3. QED
    BY <2>1, <2>2
<1>4. CASE at # {}
  <2>1. Min(at) \in at /\ \A n \in at : Min(at) <= n
    BY <1>1, <1>4, MinIsLeast
  <2>2. FirstAt(text, from, tokens) = Min(at)
    BY <1>2, <1>4
  <2>3. Min(at) \in from .. Len(text) /\ text[Min(at)] \in tokens
    BY <2>1
  <2>4. ASSUME NEW i \in from .. Min(at) - 1 PROVE text[i] \notin tokens
    <3>1. i \in from .. Len(text) /\ ~(Min(at) <= i)
      BY <2>3
    <3>2. i \notin at
      BY <2>1, <3>1
    <3>3. QED
      BY <3>1, <3>2
  <2> HIDE DEF at
  <2>5. QED
    BY <2>2, <2>3, <2>4
<1>5. QED
  BY <1>3, <1>4

\* A part of a text has its tokens.
LEMMA PartOfText ==
  ASSUME NEW T, NEW text \in Seq(T), NEW m \in 1 .. Len(text) + 1, NEW n \in 0 .. Len(text)
  PROVE  /\ SubSeq(text, m, n) \in Seq(T)
         /\ Len(SubSeq(text, m, n)) = IF m <= n THEN n - m + 1 ELSE 0
         /\ \A i \in 1 .. n - m + 1 : SubSeq(text, m, n)[i] = text[m + i - 1]
<1>1. Len(text) \in Nat /\ \A i \in 1 .. Len(text) : text[i] \in T
  BY LenProperties, ElementOfSeq
<1>2. \A i \in m .. n : text[i] \in T
  BY <1>1
<1>3. m \in Int /\ n \in Int
  BY <1>1
<1>4. QED
  BY <1>2, <1>3, SubSeqProperties

-----------------------------------------------------------------------------
(* replace_url_authorities. *)

\* What replacing an authority can put into a text.
OwnTokens == {"bridge", ":", "onvif", "rtspport"}

\* The next round starts behind this one.
LEMMA RoundMovesOn ==
  ASSUME NEW T, NEW text \in Seq(T), NEW scheme, NEW from \in 1 .. Len(text) + 1,
         {i \in from .. Len(text) : UrlAt(text, i, scheme)} # {}
  PROVE  LET start == Min({i \in from .. Len(text) : UrlAt(text, i, scheme)}) + 4
             end == FirstAt(text, start, Delimiters)
         IN  /\ start \in from + 4 .. Len(text) + 1
             /\ end \in start .. Len(text) + 1
<1> DEFINE urls == {i \in from .. Len(text) : UrlAt(text, i, scheme)}
           start == Min(urls) + 4
           end == FirstAt(text, start, Delimiters)
<1>1. Len(text) \in Nat
  BY LenProperties
<1>2. urls \subseteq Nat
  BY <1>1
<1>3. Min(urls) \in urls
  BY <1>2, MinIsLeast
<1>4. Min(urls) \in from .. Len(text) /\ Min(urls) + 3 <= Len(text)
  BY <1>3 DEF UrlAt
<1>5. start \in from + 4 .. Len(text) + 1
  BY <1>1, <1>4
<1>6. start \in 1 .. Len(text) + 1
  BY <1>1, <1>5
<1>7. end \in start .. Len(text) + 1
  BY <1>1, <1>6, FirstAtFinds
<1>8. QED
  BY <1>5, <1>7

\* A round depends on later rounds only.
LEMMA RoundIsLocal ==
  ASSUME NEW T, NEW text \in Seq(T), NEW scheme, NEW from \in 1 .. Len(text) + 1,
         NEW g, NEW h, \A i \in from + 1 .. Len(text) + 1 : g[i] = h[i]
  PROVE  Round(text, scheme, from, g) = Round(text, scheme, from, h)
<1> DEFINE urls == {i \in from .. Len(text) : UrlAt(text, i, scheme)}
           end == FirstAt(text, Min(urls) + 4, Delimiters)
<1>1. CASE urls = {}
  BY <1>1 DEF Round
<1>2. CASE urls # {}
  <2>1. Len(text) \in Nat
    BY LenProperties
  <2> DEFINE start == Min(urls) + 4
  <2>2. start \in from + 4 .. Len(text) + 1 /\ end \in start .. Len(text) + 1
    BY <1>2, RoundMovesOn
  <2>3. end \in from + 1 .. Len(text) + 1
    <3> HIDE DEF start, end, urls
    <3>1. QED
      BY <2>1, <2>2
  <2>4. g[end] = h[end]
    BY <2>3
  <2>5. QED
    BY <2>4 DEF Round
<1>3. QED
  BY <1>1, <1>2

\* A round puts together tokens of the text and of the own authorities.
LEMMA RoundTokens ==
  ASSUME NEW T, OwnTokens \subseteq T, NEW text \in Seq(T), NEW scheme,
         NEW from \in 1 .. Len(text) + 1, NEW rest,
         \A i \in from + 1 .. Len(text) + 1 : rest[i] \in Seq(T)
  PROVE  Round(text, scheme, from, rest) \in Seq(T)
<1> DEFINE urls == {i \in from .. Len(text) : UrlAt(text, i, scheme)}
           start == Min(urls) + 4
           end == FirstAt(text, start, Delimiters)
           found == SubSeq(text, start, end - 1)
           put == IF IsReplaced(HostOf(found)) THEN OwnAuthority(scheme) ELSE found
<1>1. Len(text) \in Nat
  BY LenProperties
<1>2. CASE urls = {}
  <2>1. SubSeq(text, from, Len(text)) \in Seq(T)
    BY <1>1, PartOfText
  <2>2. QED
    BY <1>2, <2>1 DEF Round
<1>3. CASE urls # {}
  <2>1. start \in from + 4 .. Len(text) + 1 /\ end \in start .. Len(text) + 1
    BY <1>3, RoundMovesOn
  <2>2. SubSeq(text, from, start - 1) \in Seq(T)
    <3>1. start - 1 \in 0 .. Len(text)
      BY <1>1, <2>1
    <3>2. QED
      BY <3>1, PartOfText
  <2>3. found \in Seq(T)
    <3>1. start \in 1 .. Len(text) + 1 /\ end - 1 \in 0 .. Len(text)
      BY <1>1, <2>1
    <3>2. QED
      BY <3>1, PartOfText
  <2>4. OwnAuthority(scheme) \in Seq(T)
    BY DEF OwnAuthority, OwnTokens
  <2>5. put \in Seq(T)
    BY <2>3, <2>4
  <2>6. rest[end] \in Seq(T)
    BY <1>1, <2>1
  <2>7. Round(text, scheme, from, rest) = SubSeq(text, from, start - 1) \o put \o rest[end]
    BY <1>3 DEF Round
  <2> HIDE DEF put, end, start, urls
  <2>8. SubSeq(text, from, start - 1) \o put \in Seq(T)
    BY <2>2, <2>5, ConcatProperties
  <2>9. (SubSeq(text, from, start - 1) \o put) \o rest[end] \in Seq(T)
    BY <2>6, <2>8, ConcatProperties
  <2>10. QED
    BY <2>7, <2>9
<1>4. QED
  BY <1>2, <1>3

\* What the rounds from `from` on make of the text.
Solves(text, scheme, from, rest) ==
  \A i \in from .. Len(text) + 1 : rest[i] = Round(text, scheme, i, rest)

\* Rounds that are known from k + 1 on determine the one at k.
LEMMA OneMoreRound ==
  ASSUME NEW T, NEW text \in Seq(T), NEW scheme, NEW k \in 1 .. Len(text) + 1,
         NEW g, Solves(text, scheme, k + 1, g)
  PROVE  \E h : Solves(text, scheme, k, h)
<1> DEFINE h == [i \in 1 .. Len(text) + 1 |->
                  IF i = k THEN Round(text, scheme, k, g) ELSE g[i]]
<1>1. Len(text) \in Nat
  BY LenProperties
<1>2. \A i \in k + 1 .. Len(text) + 1 : h[i] = g[i]
  BY <1>1
<1>3. h[k] = Round(text, scheme, k, g)
  OBVIOUS
<1> HIDE DEF h
<1>4. ASSUME NEW i \in k .. Len(text) + 1 PROVE h[i] = Round(text, scheme, i, h)
  <2>1. i \in 1 .. Len(text) + 1 /\ \A j \in i + 1 .. Len(text) + 1 : h[j] = g[j]
    BY <1>1, <1>2
  <2>2. Round(text, scheme, i, h) = Round(text, scheme, i, g)
    BY <2>1, RoundIsLocal
  <2>3. h[i] = Round(text, scheme, i, g)
    <3>1. CASE i = k
      BY <1>3, <3>1
    <3>2. CASE i # k
      BY <1>1, <1>2, <3>2 DEF Solves
    <3>3. QED
      BY <3>1, <3>2
  <2>4. QED
    BY <2>2, <2>3
<1>5. QED
  BY <1>4 DEF Solves

\* All rounds together are determined.
LEMMA RoundsExist ==
  ASSUME NEW T, NEW text \in Seq(T), NEW scheme
  PROVE  \E rest : Solves(text, scheme, 1, rest)
<1> DEFINE n == Len(text) + 1
           Fails == {m \in 0 .. n : ~\E g : Solves(text, scheme, n + 1 - m, g)}
<1>1. Len(text) \in Nat
  BY LenProperties
<1>2. Fails = {}
  <2> SUFFICES ASSUME Fails # {} PROVE FALSE
    OBVIOUS
  <2>1. Fails \subseteq Nat
    BY <1>1
  <2>2. PICK m \in Fails : \A l \in Fails : m <= l
    BY <2>1, LeastNumber
  <2>3. m # 0
    <3>1. \E g : Solves(text, scheme, n + 1, g)
      BY <1>1 DEF Solves
    <3>2. m \in Fails /\ ~\E g : Solves(text, scheme, n + 1 - m, g)
      BY <2>2
    <3>3. n + 1 - 0 = n + 1
      BY <1>1
    <3>4. QED
      BY <3>1, <3>2, <3>3
  <2>4. m - 1 \in 0 .. n /\ m - 1 \notin Fails
    BY <1>1, <2>2, <2>3
  <2>5. PICK g : Solves(text, scheme, n + 1 - (m - 1), g)
    BY <2>4
  <2>6. n + 1 - m \in 1 .. Len(text) + 1 /\ n + 1 - (m - 1) = (n + 1 - m) + 1
    BY <1>1, <2>2, <2>3
  <2>7. \E h : Solves(text, scheme, n + 1 - m, h)
    BY <2>5, <2>6, OneMoreRound
  <2>8. QED
    BY <2>2, <2>7
<1>3. n \in 0 .. n /\ n + 1 - n = 1
  BY <1>1
<1>4. QED
  BY <1>2, <1>3

\* What every round hands on, if the later ones do, holds of the whole: P is a
\* set of pairs, of a place and what is made of the text from there on.
LEMMA LastRoundWrong ==
  ASSUME NEW T, NEW text \in Seq(T), NEW scheme, NEW P,
         \A from \in 1 .. Len(text) + 1 : \A rest :
           (\A i \in from + 1 .. Len(text) + 1 : <<i, rest[i]>> \in P)
             => <<from, Round(text, scheme, from, rest)>> \in P
  PROVE  <<1, ReplaceScheme(text, scheme)>> \in P
<1> DEFINE Rounds(f) == [from \in 1 .. Len(text) + 1 |-> Round(text, scheme, from, f)]
           rest == CHOOSE f : f = Rounds(f)
           Wrong == {m \in Nat : m <= Len(text) /\
                       <<Len(text) + 1 - m, rest[Len(text) + 1 - m]>> \notin P}
<1>1. Len(text) \in Nat
  BY LenProperties
<1>2. ReplaceScheme(text, scheme) = rest[1]
  BY DEF ReplaceScheme
<1>3. rest = Rounds(rest)
  <2>1. PICK g : Solves(text, scheme, 1, g)
    BY RoundsExist
  <2> DEFINE f == [from \in 1 .. Len(text) + 1 |-> g[from]]
  <2>2. \A from \in 1 .. Len(text) + 1 :
          f[from] = g[from] /\ g[from] = Round(text, scheme, from, g)
    BY <2>1 DEF Solves
  <2>3. ASSUME NEW from \in 1 .. Len(text) + 1
        PROVE  Round(text, scheme, from, f) = Round(text, scheme, from, g)
    <3>1. \A i \in from + 1 .. Len(text) + 1 : f[i] = g[i]
      BY <1>1, <2>2
    <3> HIDE DEF f
    <3>2. QED
      BY <3>1, RoundIsLocal
  <2>4. f = Rounds(f)
    BY <2>2, <2>3
  <2> HIDE DEF f, Rounds
  <2>5. QED
    BY <2>4
<1>4. \A from \in 1 .. Len(text) + 1 : rest[from] = Round(text, scheme, from, rest)
  BY <1>3
<1> HIDE DEF rest
<1>5. Wrong = {}
  <2> SUFFICES ASSUME Wrong # {} PROVE FALSE
    OBVIOUS
  <2>1. PICK m \in Wrong : \A l \in Wrong : m <= l
    BY LeastNumber
  <2> DEFINE from == Len(text) + 1 - m
  <2>2. m \in Nat /\ m <= Len(text) /\ from \in 1 .. Len(text) + 1
    BY <1>1, <2>1
  <2>3. ASSUME NEW i \in from + 1 .. Len(text) + 1 PROVE <<i, rest[i]>> \in P
    <3>1. Len(text) + 1 - i \in Nat /\ Len(text) + 1 - i < m
      BY <1>1, <2>2, <2>3
    <3>2. Len(text) + 1 - i \notin Wrong
      BY <1>1, <2>1, <2>2, <3>1
    <3>3. Len(text) + 1 - (Len(text) + 1 - i) = i
      BY <1>1, <2>2, <2>3
    <3>4. QED
      BY <1>1, <2>2, <3>1, <3>2, <3>3
  <2>4. rest[from] = Round(text, scheme, from, rest)
    BY <1>4, <2>2
  <2>5. <<from, rest[from]>> \in P
    <3> HIDE DEF from
    <3>1. QED
      BY <2>2, <2>3, <2>4
  <2>6. QED
    BY <2>1, <2>5
<1>6. <<Len(text) + 1 - Len(text), rest[Len(text) + 1 - Len(text)]>> \in P
  <2>1. Len(text) \notin Wrong
    <3> HIDE DEF Wrong
    <3>1. QED
      BY <1>5
  <2>2. QED
    BY <1>1, <2>1
<1>7. Len(text) + 1 - Len(text) = 1
  BY <1>1
<1>8. QED
  BY <1>2, <1>6, <1>7

\* What replace_url_authorities makes of a text consists of the tokens of the
\* text and of the bridge's own authorities.
LEMMA ReplaceSchemeTokens ==
  ASSUME NEW T, OwnTokens \subseteq T, NEW text \in Seq(T), NEW scheme
  PROVE  ReplaceScheme(text, scheme) \in Seq(T)
<1> DEFINE P == (1 .. Len(text) + 1) \X Seq(T)
<1>1. ASSUME NEW from \in 1 .. Len(text) + 1, NEW rest,
             \A i \in from + 1 .. Len(text) + 1 : <<i, rest[i]>> \in P
      PROVE  <<from, Round(text, scheme, from, rest)>> \in P
  BY <1>1, RoundTokens
<1> HIDE DEF P
<1>2. <<1, ReplaceScheme(text, scheme)>> \in P
  BY <1>1, LastRoundWrong
<1>3. QED
  BY <1>2 DEF P

\* The same for both prefixes.
LEMMA ReplacedTokens ==
  ASSUME NEW T, OwnTokens \subseteq T, NEW text \in Seq(T)
  PROVE  ReplaceUrlAuthorities(text) \in Seq(T)
BY ReplaceSchemeTokens DEF ReplaceUrlAuthorities

-----------------------------------------------------------------------------
(* The URLs of a text. *)

\* Where a URL begins.
LEMMA UrlTokens ==
  ASSUME NEW T, NEW text \in Seq(T), NEW i \in Nat \ {0}, NEW scheme
  PROVE  UrlAt(text, i, scheme) <=>
           /\ i + 3 <= Len(text)
           /\ text[i] = scheme /\ text[i + 1] = ":" /\ text[i + 2] = "/" /\ text[i + 3] = "/"
<1>1. Len(text) \in Nat
  BY LenProperties
<1>2. CASE ~(i + 3 <= Len(text))
  BY <1>2 DEF UrlAt
<1>3. CASE i + 3 <= Len(text)
  <2> DEFINE found == SubSeq(text, i, i + 3)
             prefix == <<scheme, ":", "/", "/">>
             V == T \cup {scheme, ":", "/"}
  <2>1. /\ found \in Seq(T) /\ Len(found) = 4
        /\ found[1] = text[i] /\ found[2] = text[i + 1]
        /\ found[3] = text[i + 2] /\ found[4] = text[i + 3]
    <3>1. i \in 1 .. Len(text) + 1 /\ i + 3 \in 0 .. Len(text)
      BY <1>1, <1>3
    <3>2. /\ found \in Seq(T)
          /\ Len(found) = IF i <= i + 3 THEN i + 3 - i + 1 ELSE 0
          /\ \A j \in 1 .. i + 3 - i + 1 : found[j] = text[i + j - 1]
      BY <3>1, PartOfText
    <3> HIDE DEF found
    <3>3. i + 3 - i + 1 = 4 /\ i <= i + 3 /\ i + 1 - 1 = i /\ i + 2 - 1 = i + 1
          /\ i + 3 - 1 = i + 2 /\ i + 4 - 1 = i + 3
      OBVIOUS
    <3>4. found[1] = text[i + 1 - 1] /\ found[2] = text[i + 2 - 1]
          /\ found[3] = text[i + 3 - 1] /\ found[4] = text[i + 4 - 1]
      BY <3>2, <3>3
    <3>5. QED
      BY <3>2, <3>3, <3>4
  <2>2. /\ prefix \in Seq(V) /\ Len(prefix) = 4
        /\ prefix[1] = scheme /\ prefix[2] = ":" /\ prefix[3] = "/" /\ prefix[4] = "/"
    OBVIOUS
  <2>3. found \in Seq(V)
    BY <2>1, SeqMonotonic
  <2>4. UrlAt(text, i, scheme) <=> found = prefix
    BY <1>3 DEF UrlAt
  <2> HIDE DEF found, prefix, V
  <2>5. found = prefix <=> \A j \in 1 .. 4 : found[j] = prefix[j]
    <3>1. (\A j \in 1 .. 4 : found[j] = prefix[j]) => found = prefix
      BY <2>1, <2>2, <2>3, SeqEqual
    <3>2. QED
      BY <3>1
  <2>6. 1 .. 4 = {1, 2, 3, 4}
    OBVIOUS
  <2>7. QED
    BY <1>3, <2>1, <2>2, <2>4, <2>5, <2>6
<1>4. QED
  BY <1>2, <1>3

\* The authority of a URL goes up to the next delimiter.
LEMMA AuthorityTokens ==
  ASSUME NEW T, NEW text \in Seq(T), NEW i \in Nat \ {0}, i + 3 <= Len(text)
  PROVE  LET a == AuthorityAt(text, i)
         IN  /\ a \in Seq(T) /\ Len(a) \in Nat
             /\ i + 3 + Len(a) <= Len(text)
             /\ \A d \in 1 .. Len(a) : text[i + 3 + d] = a[d] /\ a[d] \notin Delimiters
             /\ i + 3 + Len(a) < Len(text) => text[i + 4 + Len(a)] \in Delimiters
<1> DEFINE a == AuthorityAt(text, i)
           from == i + 4
           end == FirstAt(text, from, Delimiters)
<1>1. Len(text) \in Nat /\ from \in 1 .. Len(text) + 1
  BY LenProperties
<1>2. /\ end \in from .. Len(text) + 1
      /\ \A j \in from .. end - 1 : text[j] \notin Delimiters
      /\ end <= Len(text) => text[end] \in Delimiters
  BY <1>1, FirstAtFinds
<1>3. a = SubSeq(text, from, end - 1)
  BY DEF AuthorityAt
<1> HIDE DEF end, a
<1>4. end - 1 \in 0 .. Len(text) /\ end - 1 - from + 1 = end - from
  BY <1>1, <1>2
<1>5. /\ a \in Seq(T)
      /\ Len(a) = IF from <= end - 1 THEN end - 1 - from + 1 ELSE 0
      /\ \A j \in 1 .. end - 1 - from + 1 : a[j] = text[from + j - 1]
  <2> DEFINE last == end - 1
  <2>1. from \in 1 .. Len(text) + 1 /\ last \in 0 .. Len(text) /\ a = SubSeq(text, from, last)
    BY <1>1, <1>3, <1>4
  <2> HIDE DEF from, last
  <2>2. /\ a \in Seq(T)
        /\ Len(a) = IF from <= last THEN last - from + 1 ELSE 0
        /\ \A j \in 1 .. last - from + 1 : a[j] = text[from + j - 1]
    BY <2>1, PartOfText
  <2>3. QED
    BY <2>2 DEF last
<1>6. Len(a) = end - from
  BY <1>1, <1>2, <1>4, <1>5
<1>7. ASSUME NEW d \in 1 .. Len(a)
      PROVE  text[i + 3 + d] = a[d] /\ a[d] \notin Delimiters
  <2>1. a[d] = text[from + d - 1]
    BY <1>4, <1>5, <1>6
  <2>2. from + d - 1 = i + 3 + d /\ i + 3 + d \in from .. end - 1
    BY <1>1, <1>2, <1>6
  <2>3. QED
    BY <1>2, <2>1, <2>2
<1>8. i + 4 + Len(a) = end /\ Len(a) \in Nat /\ i + 3 + Len(a) = end - 1
  BY <1>1, <1>2, <1>6
<1>9. QED
  <2>1. i + 3 + Len(a) <= Len(text) /\ (i + 3 + Len(a) < Len(text) => end <= Len(text))
    BY <1>1, <1>2, <1>8
  <2>2. QED
    BY <1>2, <1>5, <1>7, <1>8, <2>1 DEF a

\* An authority behind a prefix of four tokens.
AuthorityStands(text, i, a) ==
  /\ i + 3 + Len(a) <= Len(text)
  /\ \A d \in 1 .. Len(a) : text[i + 3 + d] = a[d] /\ a[d] \notin Delimiters
  /\ i + 3 + Len(a) < Len(text) => text[i + 4 + Len(a)] \in Delimiters

\* Nothing else does.
LEMMA AuthorityIs ==
  ASSUME NEW T, NEW text \in Seq(T), NEW i \in Nat \ {0}, NEW a \in Seq(T),
         AuthorityStands(text, i, a)
  PROVE  AuthorityAt(text, i) = a
<1> DEFINE b == AuthorityAt(text, i)
<1>1. /\ Len(text) \in Nat /\ Len(a) \in Nat
      /\ i + 3 + Len(a) <= Len(text)
      /\ \A d \in 1 .. Len(a) : text[i + 3 + d] = a[d] /\ a[d] \notin Delimiters
      /\ i + 3 + Len(a) < Len(text) => text[i + 4 + Len(a)] \in Delimiters
  BY LenProperties DEF AuthorityStands
<1>2. i + 3 <= Len(text)
  BY <1>1
<1>3. /\ b \in Seq(T) /\ Len(b) \in Nat
      /\ i + 3 + Len(b) <= Len(text)
      /\ \A d \in 1 .. Len(b) : text[i + 3 + d] = b[d] /\ b[d] \notin Delimiters
      /\ i + 3 + Len(b) < Len(text) => text[i + 4 + Len(b)] \in Delimiters
  BY <1>2, AuthorityTokens
<1> HIDE DEF b
<1>4. /\ Len(text) \in Nat /\ Len(a) \in Nat /\ Len(b) \in Nat
      /\ i + 3 + Len(a) <= Len(text) /\ i + 3 + Len(b) <= Len(text)
  BY <1>1, <1>3
<1>5. ~(Len(b) < Len(a))
  <2> SUFFICES ASSUME Len(b) < Len(a) PROVE FALSE
    OBVIOUS
  <2>1. Len(b) + 1 \in 1 .. Len(a) /\ i + 3 + (Len(b) + 1) = i + 4 + Len(b)
        /\ i + 3 + Len(b) < Len(text)
    BY <1>4
  <2>2. text[i + 3 + (Len(b) + 1)] \notin Delimiters
    BY <1>1, <2>1
  <2>3. text[i + 4 + Len(b)] \in Delimiters
    BY <1>3, <2>1
  <2>4. QED
    BY <2>1, <2>2, <2>3
<1>6. ~(Len(a) < Len(b))
  <2> SUFFICES ASSUME Len(a) < Len(b) PROVE FALSE
    OBVIOUS
  <2>1. Len(a) + 1 \in 1 .. Len(b) /\ i + 3 + (Len(a) + 1) = i + 4 + Len(a)
        /\ i + 3 + Len(a) < Len(text)
    BY <1>4
  <2>2. text[i + 3 + (Len(a) + 1)] \notin Delimiters
    BY <1>3, <2>1
  <2>3. text[i + 4 + Len(a)] \in Delimiters
    BY <1>1, <2>1
  <2>4. QED
    BY <2>1, <2>2, <2>3
<1>7. Len(a) = Len(b)
  BY <1>4, <1>5, <1>6
<1>8. \A d \in 1 .. Len(a) : a[d] = b[d]
  <2> SUFFICES ASSUME NEW d \in 1 .. Len(a) PROVE a[d] = b[d]
    OBVIOUS
  <2>1. d \in 1 .. Len(b)
    BY <1>7
  <2>2. text[i + 3 + d] = a[d] /\ text[i + 3 + d] = b[d]
    BY <1>1, <1>3, <2>1
  <2>3. QED
    BY <2>2
<1>9. a = b
  BY <1>3, <1>7, <1>8, SeqEqual
<1>10. QED
  BY <1>9 DEF b

\* Two texts put together.
LEMMA PutBehind ==
  ASSUME NEW T, NEW s \in Seq(T), NEW t \in Seq(T)
  PROVE  /\ s \o t \in Seq(T)
         /\ Len(s) \in Nat /\ Len(t) \in Nat /\ Len(s \o t) = Len(s) + Len(t)
         /\ \A i \in 1 .. Len(s) : (s \o t)[i] = s[i]
         /\ \A i \in 1 .. Len(t) : (s \o t)[Len(s) + i] = t[i]
<1>1. Len(s) \in Nat /\ Len(t) \in Nat
  BY LenProperties
<1>2. /\ s \o t \in Seq(T) /\ Len(s \o t) = Len(s) + Len(t)
      /\ \A i \in 1 .. Len(s) + Len(t) :
           (s \o t)[i] = IF i <= Len(s) THEN s[i] ELSE t[i - Len(s)]
  BY ConcatProperties
<1>3. ASSUME NEW i \in 1 .. Len(t) PROVE (s \o t)[Len(s) + i] = t[i]
  <2>1. Len(s) + i \in 1 .. Len(s) + Len(t) /\ ~(Len(s) + i <= Len(s))
        /\ Len(s) + i - Len(s) = i
    BY <1>1
  <2>2. QED
    BY <1>2, <2>1
<1>4. \A i \in 1 .. Len(s) : (s \o t)[i] = s[i]
  BY <1>1, <1>2
<1>5. QED
  BY <1>1, <1>2, <1>3, <1>4

\* A text that stands in another one, behind its first q tokens.
StandsIn(part, text, q) ==
  /\ q \in Nat /\ q + Len(part) <= Len(text)
  /\ \A j \in 1 .. Len(part) : part[j] = text[q + j]

\* A URL of a part of a text is one of the text; the part may cut its authority
\* off, if it is not the last.
LEMMA UrlOfPart ==
  ASSUME NEW T, NEW text \in Seq(T), NEW part \in Seq(T), NEW q, StandsIn(part, text, q),
         NEW i \in Nat \ {0}, i + 3 <= Len(part)
  PROVE  LET a == AuthorityAt(text, q + i)
             b == AuthorityAt(part, i)
         IN  /\ \A scheme : UrlAt(part, i, scheme) <=> UrlAt(text, q + i, scheme)
             /\ a \in Seq(T) /\ b \in Seq(T)
             /\ Len(b) <= Len(a) /\ \A d \in 1 .. Len(b) : b[d] = a[d]
             /\ q + Len(part) = Len(text) => b = a
<1> DEFINE a == AuthorityAt(text, q + i)
           b == AuthorityAt(part, i)
<1>1. /\ Len(text) \in Nat /\ Len(part) \in Nat /\ q \in Nat
      /\ q + Len(part) <= Len(text)
      /\ \A j \in 1 .. Len(part) : part[j] = text[q + j]
  BY LenProperties DEF StandsIn
<1>2. /\ q + i \in Nat \ {0} /\ q + i + 3 <= Len(text)
      /\ part[i] = text[q + i] /\ part[i + 1] = text[q + i + 1]
      /\ part[i + 2] = text[q + i + 2] /\ part[i + 3] = text[q + i + 3]
  <2>1. /\ i \in 1 .. Len(part) /\ i + 1 \in 1 .. Len(part)
        /\ i + 2 \in 1 .. Len(part) /\ i + 3 \in 1 .. Len(part)
        /\ q + (i + 1) = q + i + 1 /\ q + (i + 2) = q + i + 2 /\ q + (i + 3) = q + i + 3
    BY <1>1
  <2>2. /\ part[i] = text[q + i] /\ part[i + 1] = text[q + (i + 1)]
        /\ part[i + 2] = text[q + (i + 2)] /\ part[i + 3] = text[q + (i + 3)]
    BY <1>1, <2>1
  <2>3. q + i \in Nat \ {0} /\ q + i + 3 <= Len(text)
    BY <1>1
  <2>4. QED
    BY <2>1, <2>2, <2>3
<1>3. ASSUME NEW scheme PROVE UrlAt(part, i, scheme) <=> UrlAt(text, q + i, scheme)
  <2>1. UrlAt(part, i, scheme) <=>
          /\ part[i] = scheme /\ part[i + 1] = ":"
          /\ part[i + 2] = "/" /\ part[i + 3] = "/"
    BY UrlTokens
  <2>2. UrlAt(text, q + i, scheme) <=>
          /\ text[q + i] = scheme /\ text[q + i + 1] = ":"
          /\ text[q + i + 2] = "/" /\ text[q + i + 3] = "/"
    BY <1>2, UrlTokens
  <2>3. QED
    BY <1>2, <2>1, <2>2
<1>4. /\ a \in Seq(T) /\ Len(a) \in Nat
      /\ q + i + 3 + Len(a) <= Len(text)
      /\ \A d \in 1 .. Len(a) : text[q + i + 3 + d] = a[d] /\ a[d] \notin Delimiters
      /\ q + i + 3 + Len(a) < Len(text) => text[q + i + 4 + Len(a)] \in Delimiters
  BY <1>2, AuthorityTokens
<1>5. /\ b \in Seq(T) /\ Len(b) \in Nat
      /\ i + 3 + Len(b) <= Len(part)
      /\ \A d \in 1 .. Len(b) : part[i + 3 + d] = b[d] /\ b[d] \notin Delimiters
      /\ i + 3 + Len(b) < Len(part) => part[i + 4 + Len(b)] \in Delimiters
  BY AuthorityTokens
<1> HIDE DEF a, b
<1>6. \A d \in 1 .. Len(b) : text[q + i + 3 + d] = b[d] /\ b[d] \notin Delimiters
  <2> SUFFICES ASSUME NEW d \in 1 .. Len(b)
               PROVE  text[q + i + 3 + d] = b[d] /\ b[d] \notin Delimiters
    OBVIOUS
  <2>1. i + 3 + d \in 1 .. Len(part) /\ q + (i + 3 + d) = q + i + 3 + d
    BY <1>1, <1>5
  <2>2. QED
    BY <1>1, <1>5, <2>1
<1>7. Len(b) <= Len(a)
  <2> SUFFICES ASSUME Len(a) < Len(b) PROVE FALSE
    BY <1>4, <1>5
  <2>1. Len(a) + 1 \in 1 .. Len(b) /\ q + i + 3 + (Len(a) + 1) = q + i + 4 + Len(a)
        /\ q + i + 3 + Len(a) < Len(text)
    BY <1>1, <1>4, <1>5
  <2>2. QED
    BY <1>4, <1>6, <2>1
<1>8. \A d \in 1 .. Len(b) : b[d] = a[d]
  BY <1>4, <1>5, <1>6, <1>7
<1>9. q + Len(part) = Len(text) => b = a
  <2> SUFFICES ASSUME q + Len(part) = Len(text) PROVE b = a
    OBVIOUS
  <2>1. Len(b) = Len(a)
    <3> SUFFICES ASSUME Len(b) < Len(a) PROVE FALSE
      BY <1>4, <1>5, <1>7
    <3>1. /\ i + 4 + Len(b) \in 1 .. Len(part) /\ i + 3 + Len(b) < Len(part)
          /\ q + (i + 4 + Len(b)) = q + i + 3 + (Len(b) + 1)
          /\ Len(b) + 1 \in 1 .. Len(a)
      BY <1>1, <1>4, <1>5
    <3>2. QED
      BY <1>1, <1>4, <1>5, <3>1
  <2>2. QED
    BY <1>4, <1>5, <1>8, <2>1, SeqEqual
<1>10. QED
  BY <1>3, <1>4, <1>5, <1>7, <1>8, <1>9 DEF a, b

\* A URL behind the first part of a text is one of the rest.
LEMMA UrlBehind ==
  ASSUME NEW T, NEW s \in Seq(T), NEW t \in Seq(T), NEW i \in Nat \ {0}, NEW scheme,
         UrlAt(s \o t, Len(s) + i, scheme)
  PROVE  /\ i \in DOMAIN t /\ UrlAt(t, i, scheme)
         /\ AuthorityAt(s \o t, Len(s) + i) = AuthorityAt(t, i)
<1>1. /\ s \o t \in Seq(T) /\ Len(s) \in Nat /\ Len(t) \in Nat
      /\ Len(s \o t) = Len(s) + Len(t)
      /\ \A j \in 1 .. Len(t) : (s \o t)[Len(s) + j] = t[j]
  BY PutBehind
<1>2. i + 3 <= Len(t)
  BY <1>1 DEF UrlAt
<1>3. i \in DOMAIN t
  BY <1>1, <1>2, LenProperties
<1>4. StandsIn(t, s \o t, Len(s)) /\ Len(s) + Len(t) = Len(s \o t)
  BY <1>1 DEF StandsIn
<1>5. /\ UrlAt(t, i, scheme) <=> UrlAt(s \o t, Len(s) + i, scheme)
      /\ AuthorityAt(t, i) = AuthorityAt(s \o t, Len(s) + i)
  <2>1. /\ s \o t \in Seq(T) /\ StandsIn(t, s \o t, Len(s))
        /\ i + 3 <= Len(t) /\ Len(s) + Len(t) = Len(s \o t)
    BY <1>1, <1>2, <1>4
  <2>2. \A text, q : text \in Seq(T) /\ StandsIn(t, text, q) /\ q + Len(t) = Len(text) =>
          /\ UrlAt(t, i, scheme) <=> UrlAt(text, q + i, scheme)
          /\ AuthorityAt(t, i) = AuthorityAt(text, q + i)
    BY <1>2, UrlOfPart
  <2>3. QED
    BY <2>1, <2>2
<1>6. QED
  BY <1>3, <1>5

\* A URL of a part that ends with a delimiter behind it has its whole authority.
LEMMA UrlBefore ==
  ASSUME NEW T, NEW text \in Seq(T), NEW part \in Seq(T), NEW q, StandsIn(part, text, q),
         NEW i \in Nat \ {0}, i + 3 < Len(part), part[Len(part)] \in Delimiters
  PROVE  /\ \A scheme : UrlAt(part, i, scheme) <=> UrlAt(text, q + i, scheme)
         /\ AuthorityAt(text, q + i) = AuthorityAt(part, i)
<1> DEFINE b == AuthorityAt(part, i)
<1>1. /\ Len(text) \in Nat /\ Len(part) \in Nat /\ q \in Nat
      /\ q + Len(part) <= Len(text)
      /\ \A j \in 1 .. Len(part) : part[j] = text[q + j]
  BY LenProperties DEF StandsIn
<1>2. i + 3 <= Len(part)
  BY <1>1
<1>3. \A scheme : UrlAt(part, i, scheme) <=> UrlAt(text, q + i, scheme)
  BY <1>2, UrlOfPart
<1>4. /\ b \in Seq(T) /\ Len(b) \in Nat
      /\ i + 3 + Len(b) <= Len(part)
      /\ \A d \in 1 .. Len(b) : part[i + 3 + d] = b[d] /\ b[d] \notin Delimiters
      /\ i + 3 + Len(b) < Len(part) => part[i + 4 + Len(b)] \in Delimiters
  BY <1>2, AuthorityTokens
<1> HIDE DEF b
<1>5. i + 3 + Len(b) < Len(part)
  <2> SUFFICES ASSUME i + 3 + Len(b) = Len(part) PROVE FALSE
    BY <1>1, <1>4
  <2>1. Len(b) \in 1 .. Len(b)
    BY <1>1, <1>4
  <2>2. QED
    BY <1>4, <2>1
<1>6. \A d \in 1 .. Len(b) : text[q + i + 3 + d] = b[d] /\ b[d] \notin Delimiters
  <2> SUFFICES ASSUME NEW d \in 1 .. Len(b)
               PROVE  text[q + i + 3 + d] = b[d] /\ b[d] \notin Delimiters
    OBVIOUS
  <2>1. i + 3 + d \in 1 .. Len(part) /\ q + (i + 3 + d) = q + i + 3 + d
    <3>1. Len(part) \in Nat /\ Len(b) \in Nat /\ q \in Nat /\ i + 3 + Len(b) < Len(part)
      BY <1>1, <1>4, <1>5
    <3>2. QED
      BY <3>1
  <2>2. QED
    BY <1>1, <1>4, <2>1
<1>7. text[q + i + 4 + Len(b)] \in Delimiters
  <2>1. i + 4 + Len(b) \in 1 .. Len(part) /\ q + (i + 4 + Len(b)) = q + i + 4 + Len(b)
    BY <1>1, <1>4, <1>5
  <2>2. QED
    BY <1>1, <1>4, <1>5, <2>1
<1>8. q + i \in Nat \ {0} /\ q + i + 3 + Len(b) <= Len(text)
  BY <1>1, <1>4
<1>9. AuthorityAt(text, q + i) = b
  <2>1. AuthorityStands(text, q + i, b)
    BY <1>6, <1>7, <1>8 DEF AuthorityStands
  <2>2. QED
    BY <1>4, <1>8, <2>1, AuthorityIs
<1>10. QED
  BY <1>3, <1>9 DEF b

\* What a round puts together: text up to and with the prefix of a URL, an
\* authority, and what later rounds made of the rest.
RoundPieces(T, front, put, rest) ==
  /\ front \in Seq(T) /\ put \in Seq(T) /\ rest \in Seq(T)
  /\ Len(front) >= 4
  /\ front[Len(front)] = "/" /\ front[Len(front) - 1] = "/" /\ front[Len(front) - 2] = ":"
  /\ Lacks(put, Delimiters) /\ Lacks(put, Schemes)
  /\ rest # <<>> => rest[1] \in Delimiters

\* Its URLs are those of the pieces, and the one that ends the first piece.
LEMMA UrlsOfRound ==
  ASSUME NEW T, NEW front, NEW put, NEW rest, RoundPieces(T, front, put, rest),
         NEW i \in Nat \ {0}, NEW scheme \in Schemes, UrlAt(front \o put \o rest, i, scheme)
  PROVE  \/ /\ i + 3 = Len(front) /\ front[i] = scheme
            /\ AuthorityAt(front \o put \o rest, i) = put
         \/ /\ i + 3 < Len(front) /\ UrlAt(front, i, scheme)
            /\ AuthorityAt(front \o put \o rest, i) = AuthorityAt(front, i)
         \/ \E k \in DOMAIN rest :
              /\ UrlAt(rest, k, scheme)
              /\ AuthorityAt(front \o put \o rest, i) = AuthorityAt(rest, k)
<1> DEFINE first == front \o put
           whole == first \o rest
           x == Len(front)
           y == Len(put)
           z == Len(rest)
<1>1. /\ front \in Seq(T) /\ put \in Seq(T) /\ rest \in Seq(T)
      /\ Len(front) >= 4
      /\ front[Len(front)] = "/" /\ front[Len(front) - 1] = "/" /\ front[Len(front) - 2] = ":"
      /\ Lacks(put, Delimiters) /\ Lacks(put, Schemes)
      /\ rest # <<>> => rest[1] \in Delimiters
  BY DEF RoundPieces
<1>2. /\ first \in Seq(T) /\ Len(first) = x + y
      /\ \A j \in 1 .. x : first[j] = front[j]
      /\ \A j \in 1 .. y : first[x + j] = put[j]
  BY <1>1, PutBehind
<1>3. x \in Nat /\ y \in Nat /\ z \in Nat /\ x >= 4
  BY <1>1, LenProperties
<1>4. /\ whole \in Seq(T) /\ Len(whole) = x + y + z
      /\ \A j \in 1 .. x + y : whole[j] = first[j]
      /\ \A j \in 1 .. z : whole[x + y + j] = rest[j]
  <2> HIDE DEF first, x, y
  <2>1. first \in Seq(T) /\ rest \in Seq(T)
    BY <1>1, <1>2
  <2>2. /\ first \o rest \in Seq(T) /\ Len(first \o rest) = Len(first) + Len(rest)
        /\ \A j \in 1 .. Len(first) : (first \o rest)[j] = first[j]
        /\ \A j \in 1 .. Len(rest) : (first \o rest)[Len(first) + j] = rest[j]
    BY <2>1, PutBehind
  <2>3. Len(first) = x + y
    BY <1>2
  <2>4. QED
    BY <2>2, <2>3
<1>5. UrlAt(whole, i, scheme) /\ whole = first \o rest /\ whole = front \o put \o rest
  OBVIOUS
<1>6. /\ DOMAIN put = 1 .. y
      /\ front[x] = "/" /\ front[x - 1] = "/" /\ front[x - 2] = ":"
  BY <1>1, LenProperties
<1>7. rest # <<>> <=> z > 0
  BY <1>1, <1>3, EmptySeq
<1>8. Len(front) = x /\ Len(put) = y /\ Len(rest) = z
  OBVIOUS
<1> HIDE DEF first, whole, x, y, z
<1>9. \A j \in 1 .. x : whole[j] = front[j]
  <2> SUFFICES ASSUME NEW j \in 1 .. x PROVE whole[j] = front[j]
    OBVIOUS
  <2>1. j \in 1 .. x + y
    BY <1>3
  <2>2. whole[j] = first[j] /\ first[j] = front[j]
    BY <1>2, <1>4, <2>1
  <2>3. QED
    BY <2>2
<1>10. \A j \in 1 .. y : whole[x + j] = put[j]
  <2> SUFFICES ASSUME NEW j \in 1 .. y PROVE whole[x + j] = put[j]
    OBVIOUS
  <2>1. x + j \in 1 .. x + y
    BY <1>3
  <2>2. whole[x + j] = first[x + j] /\ first[x + j] = put[j]
    BY <1>2, <1>4, <2>1
  <2>3. QED
    BY <2>2
<1>11. /\ i + 3 <= x + y + z
       /\ whole[i] = scheme /\ whole[i + 1] = ":" /\ whole[i + 2] = "/" /\ whole[i + 3] = "/"
  <2>1. whole \in Seq(T) /\ Len(whole) = x + y + z
    BY <1>4
  <2>2. \A s \in Seq(T) : UrlAt(s, i, scheme) =>
          /\ i + 3 <= Len(s)
          /\ s[i] = scheme /\ s[i + 1] = ":" /\ s[i + 2] = "/" /\ s[i + 3] = "/"
    BY UrlTokens
  <2>3. QED
    BY <1>5, <2>1, <2>2
<1>12. whole[i] \in Schemes /\ whole[i] \notin {":", "/"}
  BY <1>11 DEF Schemes
<1>13. CASE i > x + y
  <2>1. PICK k \in Nat \ {0} : i = x + y + k
    <3>1. i - (x + y) \in Nat \ {0} /\ i = x + y + (i - (x + y))
      BY <1>3, <1>13
    <3>2. QED
      BY <3>1
  <2>2. UrlAt(first \o rest, Len(first) + k, scheme)
    BY <1>2, <1>5, <2>1
  <2>3. /\ k \in DOMAIN rest /\ UrlAt(rest, k, scheme)
        /\ AuthorityAt(first \o rest, Len(first) + k) = AuthorityAt(rest, k)
    <3>1. first \in Seq(T) /\ rest \in Seq(T)
      BY <1>1, <1>2
    <3>2. QED
      BY <2>2, <3>1, UrlBehind
  <2>4. AuthorityAt(whole, i) = AuthorityAt(rest, k)
    BY <1>2, <1>5, <2>1, <2>3
  <2>5. QED
    BY <1>5, <2>3, <2>4
<1>14. CASE i > x /\ i <= x + y
  <2>1. i - x \in 1 .. y /\ x + (i - x) = i
    BY <1>3, <1>14
  <2>2. whole[i] = put[i - x]
    BY <1>10, <2>1
  <2>3. put[i - x] \notin Schemes
    BY <1>1, <1>6, <2>1 DEF Lacks
  <2>4. QED
    BY <1>12, <2>2, <2>3
<1>15. CASE i <= x /\ i > x - 3
  <2>1. i = x \/ i = x - 1 \/ i = x - 2
    BY <1>3, <1>15
  <2>2. i \in 1 .. x
    BY <1>3, <1>15
  <2>3. whole[i] = front[i]
    BY <1>9, <2>2
  <2>4. front[i] \in {":", "/"}
    BY <1>6, <2>1
  <2>5. QED
    BY <1>12, <2>3, <2>4
<1>16. CASE i + 3 = x
  <2>1. i \in 1 .. x
    BY <1>3, <1>16
  <2>2. front[i] = scheme
    BY <1>9, <1>11, <2>1
  <2>3. \A d \in 1 .. y : whole[i + 3 + d] = put[d] /\ put[d] \notin Delimiters
    <3>1. \A d \in 1 .. y : put[d] \notin Delimiters
      BY <1>1, <1>6 DEF Lacks
    <3>2. QED
      BY <1>10, <1>16, <3>1
  <2>4. i + 3 + y < Len(whole) => whole[i + 4 + y] \in Delimiters
    <3> SUFFICES ASSUME i + 3 + y < Len(whole) PROVE whole[i + 4 + y] \in Delimiters
      OBVIOUS
    <3>1. 1 \in 1 .. z /\ i + 4 + y = x + y + 1 /\ z > 0
      BY <1>3, <1>4, <1>16
    <3>2. rest[1] \in Delimiters
      BY <1>1, <1>7, <3>1
    <3>3. QED
      BY <1>4, <3>1, <3>2
  <2>5. AuthorityAt(whole, i) = put
    <3>1. i + 3 + y <= Len(whole)
      BY <1>3, <1>4, <1>16
    <3>2. AuthorityStands(whole, i, put)
      BY <1>8, <2>3, <2>4, <3>1 DEF AuthorityStands
    <3>3. QED
      BY <1>1, <1>4, <3>2, AuthorityIs
  <2>6. QED
    BY <1>5, <1>8, <1>16, <2>2, <2>5
<1>17. CASE i + 3 < x
  <2>1. StandsIn(front, whole, 0)
    <3>1. \A j \in 1 .. x : front[j] = whole[0 + j]
      BY <1>9
    <3>2. 0 + x <= Len(whole) /\ 0 \in Nat
      BY <1>3, <1>4
    <3>3. QED
      BY <1>8, <3>1, <3>2 DEF StandsIn
  <2>2. i + 3 < Len(front) /\ front[Len(front)] \in Delimiters
    BY <1>1, <1>8, <1>17 DEF Delimiters
  <2>3. /\ UrlAt(front, i, scheme) <=> UrlAt(whole, 0 + i, scheme)
        /\ AuthorityAt(whole, 0 + i) = AuthorityAt(front, i)
    BY <1>1, <1>4, <2>1, <2>2, UrlBefore
  <2>4. 0 + i = i
    OBVIOUS
  <2>5. UrlAt(front, i, scheme) /\ AuthorityAt(whole, i) = AuthorityAt(front, i)
    BY <1>5, <2>3, <2>4
  <2>6. QED
    BY <1>5, <2>2, <2>5
<1>18. i > x + y \/ (i > x /\ i <= x + y) \/ (i <= x /\ i > x - 3) \/ i + 3 = x \/ i + 3 < x
  BY <1>3
<1>19. QED
  BY <1>13, <1>14, <1>15, <1>16, <1>17, <1>18

\* HostOf finds the address of an authority that is plain.
LEMMA HostIsFound ==
  ASSUME NEW T, NEW a \in Seq(T), AddressIsHost(a), NEW i \in DOMAIN a, a[i] \in Addresses
  PROVE  IsReplaced(HostOf(a))
<1> DEFINE ats == {0} \cup {j \in DOMAIN a : a[j] = "@"}
           hostPort == SubSeq(a, i, Len(a))
           end == FirstAt(hostPort, 1, {":"})
<1>1. /\ Len(a) \in Nat /\ DOMAIN a = 1 .. Len(a) /\ i \in 1 .. Len(a)
      /\ i \in 1 .. Len(a) + 1 /\ Len(a) \in 0 .. Len(a)
  BY LenProperties
<1>2. /\ i = 1 \/ a[i - 1] = "@"
      /\ i = Len(a) \/ a[i + 1] = ":"
      /\ \A j \in DOMAIN a : j > i => a[j] # "@"
  BY DEF AddressIsHost
<1>3. Max(ats) = i - 1
  <2>1. i - 1 \in ats
    BY <1>1, <1>2
  <2>2. \A j \in ats : j <= i - 1 /\ j \in Nat
    <3>1. a[i] # "@"
      BY DEF Addresses
    <3>2. QED
      BY <1>1, <1>2, <3>1
  <2> HIDE DEF ats
  <2>3. \E m \in ats : \A j \in ats : m >= j
    BY <1>1, <2>1, <2>2
  <2>4. Max(ats) \in ats /\ \A j \in ats : Max(ats) >= j
    BY <2>3 DEF Max
  <2>5. QED
    BY <1>1, <2>1, <2>2, <2>4
<1>4. HostOf(a) = SubSeq(hostPort, 1, end - 1)
  <2>1. i - 1 + 1 = i
    BY <1>1
  <2> HIDE DEF ats
  <2>2. QED
    BY <1>3, <2>1 DEF HostOf, ats
<1>5. /\ hostPort \in Seq(T) /\ Len(hostPort) = Len(a) - i + 1
      /\ \A j \in 1 .. Len(a) - i + 1 : hostPort[j] = a[i + j - 1]
  <2>1. /\ hostPort \in Seq(T)
        /\ Len(hostPort) = IF i <= Len(a) THEN Len(a) - i + 1 ELSE 0
        /\ \A j \in 1 .. Len(a) - i + 1 : hostPort[j] = a[i + j - 1]
    BY <1>1, PartOfText
  <2> HIDE DEF hostPort
  <2>2. QED
    BY <1>1, <2>1
<1> HIDE DEF hostPort
<1>6. hostPort[1] = a[i] /\ (Len(hostPort) > 1 => hostPort[2] = ":")
  <2>1. 1 \in 1 .. Len(a) - i + 1 /\ i + 1 - 1 = i
    BY <1>1
  <2>2. Len(hostPort) > 1 => 2 \in 1 .. Len(a) - i + 1 /\ i + 2 - 1 = i + 1 /\ i # Len(a)
    BY <1>1, <1>5
  <2>3. QED
    BY <1>2, <1>5, <2>1, <2>2
<1>7. Len(hostPort) \in Nat \ {0} /\ 1 \in 1 .. Len(hostPort) + 1
  BY <1>1, <1>5
<1>8. /\ end \in 1 .. Len(hostPort) + 1
      /\ \A j \in 1 .. end - 1 : hostPort[j] \notin {":"}
      /\ end <= Len(hostPort) => hostPort[end] \in {":"}
  BY <1>7, FirstAtFinds
<1> HIDE DEF end
<1>9. end = 2
  <2>1. end # 1
    <3>1. a[i] # ":"
      BY DEF Addresses
    <3>2. QED
      BY <1>6, <1>7, <1>8, <3>1
  <2>2. ~(end > 2)
    <3> SUFFICES ASSUME end > 2 PROVE FALSE
      OBVIOUS
    <3>1. 2 \in 1 .. end - 1 /\ Len(hostPort) > 1
      BY <1>7, <1>8
    <3>2. QED
      BY <1>6, <1>8, <3>1
  <2>3. QED
    BY <1>7, <1>8, <2>1, <2>2
<1>10. HostOf(a) = <<a[i]>>
  <2>1. 1 \in 0 .. Len(hostPort) /\ end - 1 = 1
    BY <1>7, <1>9
  <2>2. /\ SubSeq(hostPort, 1, 1) \in Seq(T) /\ Len(SubSeq(hostPort, 1, 1)) = 1
        /\ SubSeq(hostPort, 1, 1)[1] = a[i]
    <3>1. /\ SubSeq(hostPort, 1, 1) \in Seq(T)
          /\ Len(SubSeq(hostPort, 1, 1)) = IF 1 <= 1 THEN 1 - 1 + 1 ELSE 0
          /\ \A j \in 1 .. 1 - 1 + 1 : SubSeq(hostPort, 1, 1)[j] = hostPort[1 + j - 1]
      BY <1>5, <1>7, <2>1, PartOfText
    <3>2. SubSeq(hostPort, 1, 1)[1] = hostPort[1 + 1 - 1]
      BY <3>1
    <3>3. QED
      BY <1>6, <3>1, <3>2
  <2>3. <<a[i]>> \in Seq(T) /\ Len(<<a[i]>>) = 1 /\ <<a[i]>>[1] = a[i]
    BY <1>1, ElementOfSeq
  <2>4. SubSeq(hostPort, 1, 1) = <<a[i]>>
    <3> DEFINE s == SubSeq(hostPort, 1, 1)
               t == <<a[i]>>
    <3>1. s \in Seq(T) /\ t \in Seq(T) /\ Len(s) = Len(t)
      BY <2>2, <2>3
    <3>2. \A j \in 1 .. Len(s) : s[j] = t[j]
      BY <2>2, <2>3
    <3> HIDE DEF s, t
    <3>3. s = t
      BY <3>1, <3>2, SeqEqual
    <3>4. QED
      BY <3>3 DEF s, t
  <2>5. QED
    BY <1>4, <2>1, <2>4
<1>11. QED
  BY <1>10 DEF IsReplaced, Addresses

\* The authorities of a text's URLs.
UrlsIn(text, scheme, authorities) ==
  \A i \in DOMAIN text : UrlAt(text, i, scheme) => AuthorityAt(text, i) \in authorities

PlainIn(T) == {a \in Seq(T) : IsPlain(a)}
Cleaned(T) == {a \in Seq(T) : Lacks(a, Addresses) /\ Lacks(a, Schemes)}

\* What is put in for a plain authority has no address.
LEMMA PutIsClean ==
  ASSUME NEW T, OwnTokens \subseteq T, NEW a \in PlainIn(T), Lacks(a, Delimiters),
         NEW scheme
  PROVE  LET put == IF IsReplaced(HostOf(a)) THEN OwnAuthority(scheme) ELSE a
         IN  put \in Cleaned(T) /\ Lacks(put, Delimiters)
<1>1. a \in Seq(T) /\ AddressIsHost(a) /\ Lacks(a, Schemes)
  BY DEF PlainIn, IsPlain
<1>2. CASE IsReplaced(HostOf(a))
  <2> DEFINE own == OwnAuthority(scheme)
  <2>1. own \in Seq(T) /\ Len(own) = 3 /\ \A i \in 1 .. 3 : own[i] \in OwnTokens
    BY DEF OwnAuthority, OwnTokens
  <2>2. DOMAIN own = 1 .. 3
    BY <2>1, LenProperties
  <2>3. \A t \in OwnTokens : t \notin Addresses /\ t \notin Schemes /\ t \notin Delimiters
    BY DEF OwnTokens, Addresses, Schemes, Delimiters
  <2> HIDE DEF own
  <2>4. Lacks(own, Addresses) /\ Lacks(own, Schemes) /\ Lacks(own, Delimiters)
    BY <2>1, <2>2, <2>3 DEF Lacks
  <2>5. own \in Cleaned(T)
    BY <2>1, <2>4 DEF Cleaned
  <2>6. QED
    BY <1>2, <2>4, <2>5 DEF own
<1>3. CASE ~IsReplaced(HostOf(a))
  <2>1. \A i \in DOMAIN a : a[i] \notin Addresses
    BY <1>1, <1>3, HostIsFound
  <2>2. a \in Cleaned(T)
    BY <1>1, <2>1 DEF Cleaned, Lacks
  <2>3. QED
    BY <1>3, <2>2
<1>4. QED
  BY <1>2, <1>3

\* What the rounds from one place on are to make of a text: the URLs of the
\* prefix are cleaned, those of the other one are left, and it begins as before.
RewrittenFrom(text, T, scheme, other, K, from, out) ==
  /\ out \in Seq(T)
  /\ from <= Len(text) => out # <<>> /\ out[1] = text[from]
  /\ from > Len(text) => out = <<>>
  /\ UrlsIn(out, scheme, Cleaned(T))
  /\ UrlsIn(out, other, K)

\* The last round copies the rest, which has no such URL.
LEMMA LastRoundUrls ==
  ASSUME NEW T, NEW text \in Seq(T), NEW scheme, NEW other, NEW K, UrlsIn(text, other, K),
         NEW from \in 1 .. Len(text) + 1,
         \A i \in from .. Len(text) : ~UrlAt(text, i, scheme)
  PROVE  RewrittenFrom(text, T, scheme, other, K, from, SubSeq(text, from, Len(text)))
<1> DEFINE out == SubSeq(text, from, Len(text))
           n == Len(text)
           q == from - 1
<1>1. n \in Nat /\ DOMAIN text = 1 .. n /\ q \in Nat /\ q + 1 = from /\ q <= n
  BY LenProperties
<1>2. /\ out \in Seq(T)
      /\ Len(out) = IF from <= n THEN n - from + 1 ELSE 0
      /\ \A j \in 1 .. n - from + 1 : out[j] = text[from + j - 1]
  <2>1. n \in 0 .. n
    BY <1>1
  <2>2. QED
    BY <2>1, PartOfText
<1> HIDE DEF out, q
<1>3. Len(out) = n - q /\ DOMAIN out = 1 .. n - q
  <2>1. Len(out) = n - q
    <3>1. CASE from <= n
      <4>1. Len(out) = n - from + 1
        BY <1>2, <3>1
      <4>2. n - from + 1 = n - q
        BY <1>1
      <4>3. QED
        BY <4>1, <4>2
    <3>2. CASE ~(from <= n)
      <4>1. Len(out) = 0
        BY <1>2, <3>2
      <4>2. n \in Nat /\ q \in Nat /\ q + 1 = from /\ q <= n
        BY <1>1
      <4>3. q = n /\ n - q = 0
        BY <3>2, <4>2
      <4>4. QED
        BY <4>1, <4>3
    <3>3. QED
      BY <3>1, <3>2
  <2>2. QED
    BY <1>2, <2>1, LenProperties
<1>4. \A j \in 1 .. n - q : out[j] = text[q + j]
  <2> SUFFICES ASSUME NEW j \in 1 .. n - q PROVE out[j] = text[q + j]
    OBVIOUS
  <2>1. j \in 1 .. n - from + 1 /\ from + j - 1 = q + j
    BY <1>1
  <2>2. out[j] = text[from + j - 1]
    BY <1>2, <2>1
  <2>3. QED
    BY <2>1, <2>2
<1>5. StandsIn(out, text, q) /\ q + Len(out) = Len(text)
  <2>1. q + Len(out) = n
    BY <1>1, <1>3
  <2>2. QED
    BY <1>1, <1>3, <1>4, <2>1 DEF StandsIn
<1>6. ASSUME NEW i \in DOMAIN out, NEW s, UrlAt(out, i, s)
      PROVE  /\ q + i \in from .. n /\ q + i \in DOMAIN text
             /\ UrlAt(text, q + i, s) /\ AuthorityAt(out, i) = AuthorityAt(text, q + i)
  <2>1. i \in Nat \ {0} /\ i + 3 <= Len(out)
    BY <1>3, <1>6 DEF UrlAt
  <2>2. out \in Seq(T)
    BY <1>2
  <2>3. \A r : StandsIn(out, text, r) /\ r + Len(out) = Len(text) =>
          /\ UrlAt(out, i, s) <=> UrlAt(text, r + i, s)
          /\ AuthorityAt(out, i) = AuthorityAt(text, r + i)
    BY <2>1, <2>2, UrlOfPart
  <2>4. q + i \in from .. n /\ q + i \in 1 .. n
    BY <1>1, <1>3
  <2>5. QED
    BY <1>1, <1>5, <1>6, <2>3, <2>4
<1>7. UrlsIn(out, scheme, Cleaned(T))
  BY <1>6 DEF UrlsIn
<1>8. UrlsIn(out, other, K)
  BY <1>6 DEF UrlsIn
<1>9. from <= n => out # <<>> /\ out[1] = text[from]
  <2> SUFFICES ASSUME from <= n PROVE out # <<>> /\ out[1] = text[from]
    OBVIOUS
  <2>1. 1 \in 1 .. n - q /\ n - q > 0
    BY <1>1
  <2>2. QED
    BY <1>1, <1>3, <1>4, <2>1, EmptySeq
<1>10. from > n => out = <<>>
  <2> SUFFICES ASSUME from > n PROVE out = <<>>
    OBVIOUS
  <2>1. n \in Nat /\ q \in Nat /\ q + 1 = from /\ q <= n
    BY <1>1
  <2>2. q = n /\ n - q = 0
    BY <2>1
  <2>3. Len(out) = 0
    BY <1>3, <2>2
  <2>4. QED
    BY <1>2, <2>3, EmptySeq
<1>11. QED
  BY <1>2, <1>7, <1>8, <1>9, <1>10 DEF RewrittenFrom, out

\* A round cleans the first URL of its prefix and leaves those before it.
LEMMA RoundUrls ==
  ASSUME NEW T, OwnTokens \subseteq T, NEW text \in Seq(T),
         NEW scheme \in Schemes, NEW other, Schemes = {scheme, other}, NEW K,
         UrlsIn(text, scheme, PlainIn(T)), UrlsIn(text, other, K),
         NEW from \in 1 .. Len(text) + 1, NEW rest,
         \A i \in from + 1 .. Len(text) + 1 : RewrittenFrom(text, T, scheme, other, K, i, rest[i])
  PROVE  RewrittenFrom(text, T, scheme, other, K, from, Round(text, scheme, from, rest))
<1> DEFINE urls == {i \in from .. Len(text) : UrlAt(text, i, scheme)}
           first == Min(urls)
           start == first + 4
           end == FirstAt(text, start, Delimiters)
           found == SubSeq(text, start, end - 1)
           put == IF IsReplaced(HostOf(found)) THEN OwnAuthority(scheme) ELSE found
           front == SubSeq(text, from, start - 1)
           behind == rest[end]
           out == front \o put \o behind
           n == Len(text)
           x == start - from
           q == from - 1
<1>1. CASE urls = {}
  <2>1. Round(text, scheme, from, rest) = SubSeq(text, from, Len(text))
    BY <1>1 DEF Round
  <2>2. \A i \in from .. Len(text) : ~UrlAt(text, i, scheme)
    BY <1>1
  <2>3. QED
    BY <2>1, <2>2, LastRoundUrls
<1>2. CASE urls # {}
  <2>1. Round(text, scheme, from, rest) = out
    BY <1>2 DEF Round
  <2>2. n \in Nat /\ urls \subseteq Nat /\ urls \subseteq 1 .. n /\ DOMAIN text = 1 .. n
    BY LenProperties
  <2>3. first \in urls /\ \A i \in urls : first <= i
    BY <1>2, <2>2, MinIsLeast
  <2>4. /\ first \in from .. n /\ UrlAt(text, first, scheme)
        /\ \A i \in from .. n : UrlAt(text, i, scheme) => first <= i
    BY <2>3
  <2>5. start \in from + 4 .. n + 1 /\ end \in start .. n + 1
    BY <1>2, RoundMovesOn
  <2>6. found = AuthorityAt(text, first)
    BY DEF AuthorityAt
  <2>7. end <= n => text[end] \in Delimiters
    <3> HIDE DEF start, urls, first
    <3>1. start \in 1 .. n + 1
      BY <2>2, <2>5
    <3>2. QED
      BY <2>2, <3>1, FirstAtFinds
  <2>8. start = first + 4
    OBVIOUS
  <2> HIDE DEF urls, first, start, end
  <2>9. /\ start \in Nat /\ end \in Nat /\ from \in Nat /\ first \in Nat /\ n \in Nat
        /\ 1 <= from /\ from + 4 <= start /\ start <= n + 1 /\ start <= end /\ end <= n + 1
    BY <2>2, <2>4, <2>5
  <2>10. /\ front \in Seq(T) /\ Len(front) = x /\ x \in Nat /\ x >= 4
         /\ \A j \in 1 .. x : front[j] = text[q + j]
    <3>1. start - 1 \in 0 .. n /\ from \in 1 .. n + 1 /\ start - 1 - from + 1 = x
          /\ from <= start - 1 /\ x \in Nat /\ x >= 4
      BY <2>9
    <3>2. /\ front \in Seq(T)
          /\ Len(front) = IF from <= start - 1 THEN start - 1 - from + 1 ELSE 0
          /\ \A j \in 1 .. start - 1 - from + 1 : front[j] = text[from + j - 1]
      BY <3>1, PartOfText
    <3> HIDE DEF front
    <3>3. ASSUME NEW j \in 1 .. x PROVE front[j] = text[q + j]
      <4>1. j \in 1 .. start - 1 - from + 1 /\ from + j - 1 = q + j
        BY <2>9
      <4>2. QED
        BY <3>2, <4>1
    <3>4. Len(front) = x
      BY <3>1, <3>2
    <3>5. QED
      BY <3>1, <3>2, <3>3, <3>4
  <2>11. q \in Nat /\ q + 1 = from /\ q + x = first + 3 /\ q + x <= n
    BY <2>8, <2>9
  <2>12. /\ first + 3 <= n
         /\ text[first] = scheme /\ text[first + 1] = ":"
         /\ text[first + 2] = "/" /\ text[first + 3] = "/"
    <3>1. first \in Nat \ {0}
      BY <2>4, <2>9
    <3>2. \A i \in Nat \ {0} : UrlAt(text, i, scheme) =>
            /\ i + 3 <= n
            /\ text[i] = scheme /\ text[i + 1] = ":" /\ text[i + 2] = "/" /\ text[i + 3] = "/"
      BY UrlTokens
    <3>3. QED
      BY <2>4, <3>1, <3>2
  <2>13. /\ front[x] = "/" /\ front[x - 1] = "/" /\ front[x - 2] = ":"
         /\ front[x - 3] = scheme
    <3>1. /\ x \in 1 .. x /\ x - 1 \in 1 .. x /\ x - 2 \in 1 .. x /\ x - 3 \in 1 .. x
          /\ q + x = first + 3 /\ q + (x - 1) = first + 2
          /\ q + (x - 2) = first + 1 /\ q + (x - 3) = first
      BY <2>8, <2>9
    <3> HIDE DEF front, x, q
    <3>2. /\ front[x] = text[q + x] /\ front[x - 1] = text[q + (x - 1)]
          /\ front[x - 2] = text[q + (x - 2)] /\ front[x - 3] = text[q + (x - 3)]
      BY <2>10, <3>1
    <3>3. QED
      BY <2>12, <3>1, <3>2
  <2> HIDE DEF front, x, q
  <2> HIDE DEF found
  <2>14. put \in Cleaned(T) /\ Lacks(put, Delimiters)
    <3>1. first \in Nat \ {0} /\ first + 3 <= n /\ first \in DOMAIN text
      BY <2>2, <2>4, <2>9, <2>12
    <3>2. found \in PlainIn(T)
      BY <2>4, <2>6, <3>1 DEF UrlsIn
    <3>3. \A i \in Nat \ {0} : i + 3 <= n =>
            /\ AuthorityAt(text, i) \in Seq(T)
            /\ \A d \in 1 .. Len(AuthorityAt(text, i)) : AuthorityAt(text, i)[d] \notin Delimiters
      BY AuthorityTokens
    <3>4. found \in Seq(T) /\ \A d \in 1 .. Len(found) : found[d] \notin Delimiters
      BY <2>6, <3>1, <3>3
    <3>5. Lacks(found, Delimiters)
      BY <3>4, LenProperties DEF Lacks
    <3>6. QED
      BY <3>2, <3>5, PutIsClean
  <2> HIDE DEF put
  <2>15. RewrittenFrom(text, T, scheme, other, K, end, behind)
    <3>1. end \in from + 1 .. n + 1
      BY <2>9
    <3>2. QED
      BY <3>1
  <2>16. /\ behind \in Seq(T) /\ (behind # <<>> => behind[1] \in Delimiters)
         /\ UrlsIn(behind, scheme, Cleaned(T)) /\ UrlsIn(behind, other, K)
    <3>1. CASE end <= n
      BY <2>7, <2>15, <3>1 DEF RewrittenFrom
    <3>2. CASE end > n
      BY <2>15, <3>2 DEF RewrittenFrom
    <3>3. QED
      BY <2>9, <3>1, <3>2
  <2> HIDE DEF behind
  <2>17. put \in Seq(T) /\ Lacks(put, Schemes)
    BY <2>14 DEF Cleaned
  <2>18. ASSUME NEW i \in Nat \ {0}, NEW s \in Schemes, UrlAt(out, i, s)
         PROVE  \/ /\ i + 3 = x /\ front[i] = s /\ AuthorityAt(out, i) = put
                \/ /\ i + 3 < x /\ UrlAt(front, i, s)
                   /\ AuthorityAt(out, i) = AuthorityAt(front, i)
                \/ \E k \in DOMAIN behind :
                     UrlAt(behind, k, s) /\ AuthorityAt(out, i) = AuthorityAt(behind, k)
    <3>1. RoundPieces(T, front, put, behind)
      BY <2>10, <2>13, <2>14, <2>16, <2>17 DEF RoundPieces
    <3>2. UrlAt(front \o put \o behind, i, s) /\ Len(front) = x
      BY <2>10, <2>18
    <3>3. \/ /\ i + 3 = Len(front) /\ front[i] = s
             /\ AuthorityAt(front \o put \o behind, i) = put
          \/ /\ i + 3 < Len(front) /\ UrlAt(front, i, s)
             /\ AuthorityAt(front \o put \o behind, i) = AuthorityAt(front, i)
          \/ \E k \in DOMAIN behind :
               /\ UrlAt(behind, k, s)
               /\ AuthorityAt(front \o put \o behind, i) = AuthorityAt(behind, k)
      BY <3>1, <3>2, UrlsOfRound
    <3>4. QED
      BY <3>2, <3>3
  <2>19. ASSUME NEW i \in Nat \ {0}, NEW s, i + 3 < x, UrlAt(front, i, s)
         PROVE  /\ UrlAt(text, q + i, s) /\ AuthorityAt(text, q + i) = AuthorityAt(front, i)
                /\ q + i \in from .. n /\ q + i < first /\ q + i \in DOMAIN text
    <3>1. StandsIn(front, text, q)
      BY <2>10, <2>11 DEF StandsIn
    <3>2. i + 3 < Len(front) /\ front[Len(front)] \in Delimiters /\ front \in Seq(T)
      BY <2>10, <2>13, <2>19 DEF Delimiters
    <3>3. /\ UrlAt(front, i, s) <=> UrlAt(text, q + i, s)
          /\ AuthorityAt(text, q + i) = AuthorityAt(front, i)
      <4>1. \A r : StandsIn(front, text, r) =>
              /\ UrlAt(front, i, s) <=> UrlAt(text, r + i, s)
              /\ AuthorityAt(text, r + i) = AuthorityAt(front, i)
        BY <3>2, UrlBefore
      <4>2. QED
        BY <3>1, <4>1
    <3>4. q + i \in from .. n /\ q + i < first /\ q + i \in 1 .. n
      BY <2>9, <2>10, <2>11, <2>19
    <3>5. QED
      BY <2>2, <2>19, <3>3, <3>4
  <2>20. UrlsIn(out, scheme, Cleaned(T))
    <3> SUFFICES ASSUME NEW i \in DOMAIN out, UrlAt(out, i, scheme)
                 PROVE  AuthorityAt(out, i) \in Cleaned(T)
      BY DEF UrlsIn
    <3>1. i \in Nat \ {0}
      <4>1. out \in Seq(T)
        <5>1. front \in Seq(T)
          BY <2>10
        <5>2. front \o put \in Seq(T)
          BY <2>17, <5>1, ConcatProperties
        <5>3. QED
          BY <2>16, <5>2, ConcatProperties
      <4>2. QED
        BY <4>1, LenProperties
    <3>2. ~(i + 3 < x /\ UrlAt(front, i, scheme))
      <4> SUFFICES ASSUME i + 3 < x, UrlAt(front, i, scheme) PROVE FALSE
        OBVIOUS
      <4>1. UrlAt(text, q + i, scheme) /\ q + i \in from .. n /\ q + i < first
        BY <2>19, <3>1
      <4>2. first <= q + i
        BY <2>4, <4>1
      <4>3. QED
        BY <2>9, <2>11, <3>1, <4>1, <4>2
    <3>3. \/ AuthorityAt(out, i) = put
          \/ \E k \in DOMAIN behind :
               UrlAt(behind, k, scheme) /\ AuthorityAt(out, i) = AuthorityAt(behind, k)
      BY <2>18, <3>1, <3>2
    <3>4. QED
      BY <2>14, <2>16, <3>3 DEF UrlsIn
  <2>21. UrlsIn(out, other, K)
    <3> SUFFICES ASSUME NEW i \in DOMAIN out, UrlAt(out, i, other), other # scheme
                 PROVE  AuthorityAt(out, i) \in K
      <4>1. other # scheme
        BY DEF Schemes
      <4>2. QED
        BY <4>1 DEF UrlsIn
    <3>1. i \in Nat \ {0}
      <4>1. out \in Seq(T)
        <5>1. front \in Seq(T)
          BY <2>10
        <5>2. front \o put \in Seq(T)
          BY <2>17, <5>1, ConcatProperties
        <5>3. QED
          BY <2>16, <5>2, ConcatProperties
      <4>2. QED
        BY <4>1, LenProperties
    <3>2. \/ /\ i + 3 = x /\ front[i] = other
          \/ /\ i + 3 < x /\ UrlAt(front, i, other)
             /\ AuthorityAt(out, i) = AuthorityAt(front, i)
          \/ \E k \in DOMAIN behind :
               UrlAt(behind, k, other) /\ AuthorityAt(out, i) = AuthorityAt(behind, k)
      <4>1. other \in Schemes
        OBVIOUS
      <4> HIDE DEF out
      <4>2. QED
        BY <2>18, <3>1, <4>1
    <3>3. CASE i + 3 = x /\ front[i] = other
      <4>1. i = x - 3
        BY <2>10, <3>1, <3>3
      <4>2. QED
        BY <2>13, <3>3, <4>1
    <3>4. CASE /\ i + 3 < x /\ UrlAt(front, i, other)
               /\ AuthorityAt(out, i) = AuthorityAt(front, i)
      <4>1. /\ UrlAt(text, q + i, other) /\ q + i \in DOMAIN text
            /\ AuthorityAt(text, q + i) = AuthorityAt(out, i)
        BY <2>19, <3>1, <3>4
      <4>2. QED
        BY <4>1 DEF UrlsIn
    <3>5. CASE \E k \in DOMAIN behind :
                 UrlAt(behind, k, other) /\ AuthorityAt(out, i) = AuthorityAt(behind, k)
      BY <2>16, <3>5 DEF UrlsIn
    <3>6. QED
      BY <3>2, <3>3, <3>4, <3>5
  <2>22. out \in Seq(T) /\ out # <<>> /\ out[1] = text[from]
    <3>1. front \in Seq(T) /\ Len(front) \in Nat /\ Len(front) >= 4
      BY <2>10
    <3>2. /\ front \o put \in Seq(T) /\ Len(front \o put) >= 4 /\ Len(front \o put) \in Nat
          /\ (front \o put)[1] = front[1]
      <4>1. /\ front \o put \in Seq(T) /\ Len(front \o put) = Len(front) + Len(put)
            /\ Len(put) \in Nat
            /\ \A j \in 1 .. Len(front) : (front \o put)[j] = front[j]
        BY <2>17, <3>1, PutBehind
      <4>2. 1 \in 1 .. Len(front)
        BY <3>1
      <4>3. QED
        BY <3>1, <4>1, <4>2
    <3>3. /\ out \in Seq(T) /\ Len(out) >= 4 /\ out[1] = (front \o put)[1]
      <4> DEFINE s == front \o put
      <4>1. s \in Seq(T) /\ Len(s) >= 4 /\ Len(s) \in Nat
        BY <3>2
      <4> HIDE DEF s
      <4>2. /\ s \o behind \in Seq(T) /\ Len(s \o behind) = Len(s) + Len(behind)
            /\ Len(behind) \in Nat
            /\ \A j \in 1 .. Len(s) : (s \o behind)[j] = s[j]
        BY <2>16, <4>1, PutBehind
      <4>3. 1 \in 1 .. Len(s)
        BY <4>1
      <4>4. s \o behind \in Seq(T) /\ Len(s \o behind) >= 4 /\ (s \o behind)[1] = s[1]
        BY <4>1, <4>2, <4>3
      <4>5. QED
        BY <4>4 DEF s
    <3>4. front[1] = text[from]
      <4>1. 1 \in 1 .. x
        BY <2>10
      <4>2. QED
        BY <2>10, <2>11, <4>1
    <3> HIDE DEF out
    <3>5. out # <<>>
      BY <3>3, EmptySeq
    <3>6. QED
      BY <3>2, <3>3, <3>4, <3>5
  <2>23. ~(from > n)
    BY <2>9
  <2> HIDE DEF out
  <2>24. RewrittenFrom(text, T, scheme, other, K, from, out)
    BY <2>20, <2>21, <2>22, <2>23 DEF RewrittenFrom
  <2>25. QED
    BY <2>1, <2>24
<1>3. QED
  BY <1>1, <1>2

\* What one pass of replace_url_authorities makes of a text.
LEMMA SchemeCleans ==
  ASSUME NEW T, OwnTokens \subseteq T, NEW text \in Seq(T),
         NEW scheme \in Schemes, NEW other, Schemes = {scheme, other}, NEW K,
         UrlsIn(text, scheme, PlainIn(T)), UrlsIn(text, other, K)
  PROVE  LET out == ReplaceScheme(text, scheme)
         IN  /\ out \in Seq(T)
             /\ UrlsIn(out, scheme, Cleaned(T))
             /\ UrlsIn(out, other, K)
<1> DEFINE P == {p \in (1 .. Len(text) + 1) \X Seq(T) :
                  RewrittenFrom(text, T, scheme, other, K, p[1], p[2])}
<1>1. \A i \in 1 .. Len(text) + 1 : \A out :
        <<i, out>> \in P <=> RewrittenFrom(text, T, scheme, other, K, i, out)
  BY DEF RewrittenFrom
<1> HIDE DEF P
<1>2. Len(text) \in Nat
  BY LenProperties
<1>3. ASSUME NEW from \in 1 .. Len(text) + 1, NEW rest,
             \A i \in from + 1 .. Len(text) + 1 : <<i, rest[i]>> \in P
      PROVE  <<from, Round(text, scheme, from, rest)>> \in P
  <2>1. \A i \in from + 1 .. Len(text) + 1 :
          RewrittenFrom(text, T, scheme, other, K, i, rest[i])
    <3> SUFFICES ASSUME NEW i \in from + 1 .. Len(text) + 1
                 PROVE  RewrittenFrom(text, T, scheme, other, K, i, rest[i])
      OBVIOUS
    <3>1. i \in 1 .. Len(text) + 1
      BY <1>2
    <3>2. QED
      BY <1>1, <1>3, <3>1
  <2>2. RewrittenFrom(text, T, scheme, other, K, from, Round(text, scheme, from, rest))
    BY <2>1, RoundUrls
  <2>3. QED
    BY <1>1, <2>2
<1>4. <<1, ReplaceScheme(text, scheme)>> \in P
  BY <1>3, LastRoundWrong
<1>5. RewrittenFrom(text, T, scheme, other, K, 1, ReplaceScheme(text, scheme))
  <2>1. 1 \in 1 .. Len(text) + 1
    BY <1>2
  <2>2. QED
    BY <1>1, <1>4, <2>1
<1>6. QED
  BY <1>5 DEF RewrittenFrom

\* Both passes leave no address in the authority of a URL.
LEMMA ReplacedUrls ==
  ASSUME NEW T, OwnTokens \subseteq T, NEW text \in Seq(T),
         \A scheme \in Schemes : UrlsIn(text, scheme, PlainIn(T))
  PROVE  /\ ReplaceUrlAuthorities(text) \in Seq(T)
         /\ \A scheme \in Schemes : UrlsIn(ReplaceUrlAuthorities(text), scheme, Cleaned(T))
<1> DEFINE between == ReplaceScheme(text, "http")
<1>1. /\ "http" \in Schemes /\ "rtsp" \in Schemes
      /\ Schemes = {"http", "rtsp"} /\ Schemes = {"rtsp", "http"}
  BY DEF Schemes
<1>2. /\ between \in Seq(T)
      /\ UrlsIn(between, "http", Cleaned(T)) /\ UrlsIn(between, "rtsp", PlainIn(T))
  <2>1. UrlsIn(text, "http", PlainIn(T)) /\ UrlsIn(text, "rtsp", PlainIn(T))
    BY <1>1
  <2>2. QED
    BY <1>1, <2>1, SchemeCleans
<1> HIDE DEF between
<1>3. /\ ReplaceScheme(between, "rtsp") \in Seq(T)
      /\ UrlsIn(ReplaceScheme(between, "rtsp"), "rtsp", Cleaned(T))
      /\ UrlsIn(ReplaceScheme(between, "rtsp"), "http", Cleaned(T))
  BY <1>1, <1>2, SchemeCleans
<1>4. ReplaceUrlAuthorities(text) = ReplaceScheme(between, "rtsp")
  BY DEF ReplaceUrlAuthorities, between
<1>5. QED
  BY <1>1, <1>3, <1>4

\* What is cut off a plain authority leaves it plain.
LEMMA PrefixIsPlain ==
  ASSUME NEW T, NEW a \in PlainIn(T), NEW b \in Seq(T), Len(b) <= Len(a),
         \A d \in 1 .. Len(b) : b[d] = a[d]
  PROVE  b \in PlainIn(T)
<1>1. a \in Seq(T) /\ AddressIsHost(a) /\ Lacks(a, Schemes)
  BY DEF PlainIn, IsPlain
<1>2. /\ Len(a) \in Nat /\ Len(b) \in Nat /\ DOMAIN a = 1 .. Len(a) /\ DOMAIN b = 1 .. Len(b)
  BY <1>1, LenProperties
<1>3. \A d \in DOMAIN b : d \in DOMAIN a /\ b[d] = a[d]
  BY <1>2
<1>4. Lacks(b, Schemes)
  BY <1>1, <1>3 DEF Lacks
<1>5. AddressIsHost(b)
  <2> SUFFICES ASSUME NEW i \in DOMAIN b, b[i] \in Addresses
               PROVE  /\ i = 1 \/ b[i - 1] = "@"
                      /\ i = Len(b) \/ b[i + 1] = ":"
                      /\ \A j \in DOMAIN b : j > i => b[j] # "@"
    BY DEF AddressIsHost
  <2>1. i \in DOMAIN a /\ a[i] \in Addresses
    BY <1>3
  <2>2. /\ i = 1 \/ a[i - 1] = "@"
        /\ i = Len(a) \/ a[i + 1] = ":"
        /\ \A j \in DOMAIN a : j > i => a[j] # "@"
    BY <1>1, <2>1 DEF AddressIsHost
  <2>3. i # 1 => i - 1 \in DOMAIN b
    BY <1>2
  <2>4. i # Len(b) => i + 1 \in DOMAIN b /\ i # Len(a)
    BY <1>2
  <2>5. i = 1 \/ b[i - 1] = "@"
    BY <1>3, <2>2, <2>3
  <2>6. i = Len(b) \/ b[i + 1] = ":"
    BY <1>3, <2>2, <2>4
  <2>7. \A j \in DOMAIN b : j > i => b[j] # "@"
    BY <1>3, <2>2
  <2>8. QED
    BY <2>5, <2>6, <2>7
<1>6. QED
  BY <1>4, <1>5 DEF PlainIn, IsPlain

\* A part of a text with plain authorities has plain ones.
LEMMA PartIsPlain ==
  ASSUME NEW T, NEW text \in Seq(T), NEW part \in Seq(T), NEW q, StandsIn(part, text, q),
         NEW scheme, UrlsIn(text, scheme, PlainIn(T))
  PROVE  UrlsIn(part, scheme, PlainIn(T))
<1> SUFFICES ASSUME NEW i \in DOMAIN part, UrlAt(part, i, scheme)
             PROVE  AuthorityAt(part, i) \in PlainIn(T)
  BY DEF UrlsIn
<1> DEFINE a == AuthorityAt(text, q + i)
           b == AuthorityAt(part, i)
<1>1. /\ Len(part) \in Nat /\ Len(text) \in Nat /\ i \in 1 .. Len(part)
      /\ DOMAIN text = 1 .. Len(text) /\ q \in Nat /\ q + Len(part) <= Len(text)
  BY LenProperties DEF StandsIn
<1>2. i \in Nat \ {0} /\ i + 3 <= Len(part) /\ q + i \in DOMAIN text
  <2>1. i + 3 <= Len(part)
    BY DEF UrlAt
  <2>2. i \in Nat \ {0} /\ q + i \in 1 .. Len(text)
    BY <1>1
  <2>3. QED
    BY <1>1, <2>1, <2>2
<1>3. /\ UrlAt(part, i, scheme) <=> UrlAt(text, q + i, scheme)
      /\ a \in Seq(T) /\ b \in Seq(T)
      /\ Len(b) <= Len(a) /\ \A d \in 1 .. Len(b) : b[d] = a[d]
  BY <1>2, UrlOfPart
<1>4. a \in PlainIn(T)
  BY <1>2, <1>3 DEF UrlsIn
<1> HIDE DEF a, b
<1>5. b \in PlainIn(T)
  BY <1>3, <1>4, PrefixIsPlain
<1>6. QED
  BY <1>5 DEF b

-----------------------------------------------------------------------------
(* Messages. *)

\* The header of a text ends before its first empty line.
LEMMA HeaderOfText ==
  ASSUME NEW T, NEW text \in Seq(T)
  PROVE  /\ HeaderEnd(text) \in 1 .. Len(text) + 1
         /\ Header(text) \in Seq(T) /\ Len(Header(text)) = HeaderEnd(text) - 1
         /\ \A i \in 1 .. HeaderEnd(text) - 1 : Header(text)[i] = text[i] /\ text[i] # "blank"
         /\ HasHeader(text) => text[HeaderEnd(text)] = "blank"
         /\ Body(text) \in Seq(T)
         /\ HasHeader(text) => Len(Body(text)) = Len(text) - HeaderEnd(text)
<1> DEFINE end == HeaderEnd(text)
<1>1. Len(text) \in Nat /\ 1 \in 1 .. Len(text) + 1
  BY LenProperties
<1>2. /\ end \in 1 .. Len(text) + 1
      /\ \A i \in 1 .. end - 1 : text[i] # "blank"
      /\ HasHeader(text) => text[end] = "blank"
  BY <1>1, FirstAtFinds DEF HeaderEnd, HasHeader
<1>3. /\ Header(text) \in Seq(T) /\ Len(Header(text)) = end - 1
      /\ \A i \in 1 .. end - 1 : Header(text)[i] = text[i]
  <2>1. end - 1 \in 0 .. Len(text)
    BY <1>1, <1>2
  <2> HIDE DEF end
  <2>2. /\ SubSeq(text, 1, end - 1) \in Seq(T)
        /\ Len(SubSeq(text, 1, end - 1)) = IF 1 <= end - 1 THEN end - 1 - 1 + 1 ELSE 0
        /\ \A i \in 1 .. end - 1 - 1 + 1 : SubSeq(text, 1, end - 1)[i] = text[1 + i - 1]
    BY <1>1, <2>1, PartOfText
  <2>3. /\ Len(SubSeq(text, 1, end - 1)) = end - 1
        /\ \A i \in 1 .. end - 1 : SubSeq(text, 1, end - 1)[i] = text[i]
    BY <1>1, <1>2, <2>2
  <2>4. QED
    BY <2>2, <2>3 DEF Header, end
<1>4. /\ Body(text) \in Seq(T)
      /\ HasHeader(text) => Len(Body(text)) = Len(text) - end
  <2>1. \A i \in end + 1 .. Len(text) : text[i] \in T
    BY <1>1, <1>2, ElementOfSeq
  <2>2. end + 1 \in Int /\ Len(text) \in Int
    BY <1>1, <1>2
  <2>3. /\ Body(text) \in Seq(T)
        /\ Len(Body(text)) = IF end + 1 <= Len(text) THEN Len(text) - (end + 1) + 1 ELSE 0
    BY <2>1, <2>2, SubSeqProperties DEF Body
  <2>4. QED
    BY <1>1, <1>2, <2>3 DEF HasHeader
<1>5. QED
  BY <1>2, <1>3, <1>4

\* A text without an empty line has no header.
LEMMA NoEmptyLine ==
  ASSUME NEW T, "blank" \notin T, NEW text \in Seq(T)
  PROVE  ~HasHeader(text)
<1>1. HeaderEnd(text) \in 1 .. Len(text) + 1 /\ Len(text) \in Nat
  BY HeaderOfText, LenProperties
<1>2. HasHeader(text) => text[HeaderEnd(text)] = "blank"
  BY HeaderOfText
<1>3. HasHeader(text) => HeaderEnd(text) \in 1 .. Len(text)
  BY <1>1 DEF HasHeader
<1>4. QED
  BY <1>2, <1>3, ElementOfSeq

\* A header, an empty line and a body are taken apart as they were put together.
LEMMA PutTogether ==
  ASSUME NEW T, "blank" \notin T, NEW lines \in Seq(T), NEW U, NEW body \in Seq(U),
         NEW text, text = lines \o <<"blank">> \o body
  PROVE  /\ HasHeader(text)
         /\ Header(text) = lines
         /\ Body(text) = body
<1> DEFINE V == T \cup U \cup {"blank"}
           n == Len(lines)
           k == Len(body)
<1>1. lines \in Seq(V) /\ body \in Seq(V) /\ <<"blank">> \in Seq(V)
  BY SeqMonotonic
<1>2. n \in Nat /\ k \in Nat /\ Len(<<"blank">>) = 1 /\ <<"blank">>[1] = "blank"
  BY LenProperties
<1>3. /\ lines \o <<"blank">> \in Seq(V)
      /\ Len(lines \o <<"blank">>) = n + 1
      /\ \A i \in 1 .. n + 1 : (lines \o <<"blank">>)[i] =
           IF i <= n THEN lines[i] ELSE <<"blank">>[i - n]
  <2> HIDE DEF V
  <2>1. QED
    BY <1>1, <1>2, ConcatProperties
<1>4. /\ text \in Seq(V)
      /\ Len(text) = n + 1 + k
      /\ \A i \in 1 .. n + 1 + k : text[i] =
           IF i <= n + 1 THEN (lines \o <<"blank">>)[i] ELSE body[i - (n + 1)]
  <2> HIDE DEF V
  <2>1. QED
    BY <1>1, <1>2, <1>3, ConcatProperties
<1>5. /\ \A i \in 1 .. n : text[i] = lines[i] /\ text[i] # "blank"
      /\ text[n + 1] = "blank"
      /\ \A i \in 1 .. k : text[n + 1 + i] = body[i]
  <2>1. ASSUME NEW i \in 1 .. n PROVE text[i] = lines[i] /\ text[i] # "blank"
    <3>1. i \in 1 .. n + 1 /\ i \in 1 .. n + 1 + k
      BY <1>2
    <3>2. text[i] = lines[i]
      BY <1>2, <1>3, <1>4, <3>1
    <3>3. lines[i] \in T
      BY ElementOfSeq
    <3>4. QED
      BY <3>2, <3>3
  <2>2. text[n + 1] = "blank"
    <3>1. n + 1 \in 1 .. n + 1 /\ n + 1 \in 1 .. n + 1 + k /\ n + 1 - n = 1
      BY <1>2
    <3>2. QED
      BY <1>2, <1>3, <1>4, <3>1
  <2>3. ASSUME NEW i \in 1 .. k PROVE text[n + 1 + i] = body[i]
    <3>1. n + 1 + i \in 1 .. n + 1 + k /\ ~(n + 1 + i <= n + 1) /\ n + 1 + i - (n + 1) = i
      BY <1>2
    <3>2. QED
      BY <1>4, <3>1
  <2>4. QED
    BY <2>1, <2>2, <2>3
<1>6. HeaderEnd(text) = n + 1
  <2>1. /\ HeaderEnd(text) \in 1 .. n + 1 + k + 1
        /\ \A i \in 1 .. HeaderEnd(text) - 1 : text[i] # "blank"
        /\ HasHeader(text) => text[HeaderEnd(text)] = "blank"
    BY <1>4, HeaderOfText
  <2>2. ~(n + 1 \in 1 .. HeaderEnd(text) - 1)
    BY <1>5, <2>1
  <2>3. HeaderEnd(text) <= n + 1
    BY <1>2, <2>1, <2>2
  <2>4. HasHeader(text)
    BY <1>2, <1>4, <2>1, <2>3 DEF HasHeader
  <2>5. ~(HeaderEnd(text) \in 1 .. n)
    BY <1>5, <2>1, <2>4
  <2>6. QED
    BY <1>2, <2>1, <2>3, <2>5
<1>7. HasHeader(text)
  BY <1>2, <1>4, <1>6 DEF HasHeader
<1>8. Header(text) = lines
  <2>0. /\ Header(text) \in Seq(V) /\ Len(Header(text)) = HeaderEnd(text) - 1
        /\ \A i \in 1 .. HeaderEnd(text) - 1 : Header(text)[i] = text[i]
    <3> HIDE DEF V
    <3>1. QED
      BY <1>4, HeaderOfText
  <2>1. Header(text) \in Seq(V) /\ Len(Header(text)) = n
    <3> HIDE DEF V, n
    <3>1. QED
      BY <1>2, <1>6, <2>0
  <2>2. \A i \in 1 .. n : Header(text)[i] = lines[i]
    <3> HIDE DEF V, n
    <3>1. HeaderEnd(text) - 1 = n
      BY <1>2, <1>6
    <3>2. QED
      BY <1>5, <2>0, <3>1
  <2> HIDE DEF V
  <2>3. QED
    BY <1>1, <2>1, <2>2, SeqEqual
<1>9. Body(text) = body
  <2> DEFINE from == n + 2
             to == n + 1 + k
  <2>1. from \in 1 .. Len(text) + 1 /\ to \in 0 .. Len(text)
    BY <1>2, <1>4
  <2>2. from \in Int /\ to \in Int /\ (from <= to <=> 1 <= k) /\ to - from + 1 = k
    BY <1>2
  <2>3. Body(text) = SubSeq(text, from, to)
    <3>1. HeaderEnd(text) + 1 = from /\ Len(text) = to
      BY <1>2, <1>4, <1>6
    <3>2. QED
      BY <3>1 DEF Body
  <2>4. \A i \in 1 .. k : from + i - 1 = n + 1 + i
    BY <1>2
  <2> HIDE DEF V, n, k, from, to
  <2>5. /\ SubSeq(text, from, to) \in Seq(V)
        /\ Len(SubSeq(text, from, to)) = IF from <= to THEN to - from + 1 ELSE 0
        /\ \A i \in 1 .. to - from + 1 : SubSeq(text, from, to)[i] = text[from + i - 1]
    BY <1>4, <2>1, PartOfText
  <2>6. Len(Body(text)) = k
    BY <1>2, <2>2, <2>3, <2>5
  <2>7. \A i \in 1 .. k : Body(text)[i] = body[i]
    BY <1>5, <2>2, <2>3, <2>4, <2>5
  <2>8. QED
    BY <1>1, <2>3, <2>5, <2>6, <2>7, SeqEqual DEF k
<1>10. QED
  BY <1>7, <1>8, <1>9

\* A message that declares its length correctly, or has no header.
LengthFits(m) ==
  HasHeader(m.text) => Declares(m.text, "length") /\ m.declared = Len(Body(m.text))

\* The response put in for a missing profile declares its length.
LEMMA NormalizedFits ==
  ASSUME NEW m, LengthFits(m)
  PROVE  LengthFits(NormalizeNoProfile(m))
<1> DEFINE text == <<"status", "line", "line", "length", "blank", "deleted">>
           T == {"status", "line", "length", "blank", "deleted"}
<1>1. text \in Seq(T) /\ Len(text) = 6
  OBVIOUS
<1>2. text[4] = "length" /\ text[5] = "blank" /\ \A i \in 1 .. 4 : text[i] # "blank"
  OBVIOUS
<1> HIDE DEF text, T
<1>3. /\ HeaderEnd(text) \in 1 .. Len(text) + 1
      /\ \A i \in 1 .. HeaderEnd(text) - 1 :
           Header(text)[i] = text[i] /\ text[i] # "blank"
      /\ Len(Header(text)) = HeaderEnd(text) - 1
      /\ Header(text) \in Seq(T)
      /\ HasHeader(text) => text[HeaderEnd(text)] = "blank"
      /\ HasHeader(text) => Len(Body(text)) = Len(text) - HeaderEnd(text)
  BY <1>1, HeaderOfText
<1>4. HeaderEnd(text) <= 5
  BY <1>1, <1>2, <1>3
<1>5. HasHeader(text)
  BY <1>1, <1>3, <1>4 DEF HasHeader
<1>6. HeaderEnd(text) = 5
  BY <1>1, <1>2, <1>3, <1>4, <1>5
<1>7. 4 \in DOMAIN Header(text) /\ Header(text)[4] = "length"
  <2>1. DOMAIN Header(text) = 1 .. 4
    BY <1>3, <1>6, LenProperties
  <2>2. QED
    BY <1>2, <1>3, <1>6, <2>1
<1>8. LengthFits([text |-> text, declared |-> 1])
  BY <1>1, <1>3, <1>5, <1>6, <1>7 DEF LengthFits, Declares
<1>9. QED
  BY <1>8 DEF NormalizeNoProfile, text

\* Every response that is rewritten declares the length of its new body.
LEMMA RewrittenFits ==
  ASSUME NEW text \in Seq(Bytes), NEW declared,
         NEW m, m = [text |-> text, declared |-> declared]
  PROVE  LengthFits(RewriteResponse(m))
<1> DEFINE Plain == Bytes \ {"blank"}
           header == Header(text)
           lines == [i \in DOMAIN header |->
                       IF header[i] = "badlength" THEN "length" ELSE header[i]]
           added == IF "length" \in {lines[i] : i \in DOMAIN lines} THEN <<>> ELSE <<"length">>
           body == ReplaceUrlAuthorities(Body(text))
<1>1. m.text = text
  OBVIOUS
<1>2. Len(text) \in Nat /\ DOMAIN text = 1 .. Len(text) /\ text \in [1 .. Len(text) -> Bytes]
  BY LenProperties
<1>3. CASE ~HasHeader(text)
  <2>1. \A i \in 1 .. Len(text) : text[i] \in Plain
    <3>0. /\ HeaderEnd(text) \in 1 .. Len(text) + 1
          /\ \A i \in 1 .. HeaderEnd(text) - 1 : text[i] # "blank"
      BY HeaderOfText
    <3>1. HeaderEnd(text) = Len(text) + 1
      BY <1>2, <1>3, <3>0 DEF HasHeader
    <3>2. \A i \in 1 .. Len(text) : text[i] # "blank"
      BY <1>2, <3>0, <3>1
    <3>3. QED
      BY <1>2, <3>2
  <2>2. text \in Seq(Plain)
    <3>1. text \in [1 .. Len(text) -> Plain]
      BY <1>2, <2>1
    <3> HIDE DEF Plain
    <3>2. QED
      BY <1>2, <3>1, SeqDef
  <2>3. text \in Seq(Plain \cup OwnTokens) /\ OwnTokens \subseteq Plain \cup OwnTokens
    BY <2>2, SeqMonotonic
  <2>4. ReplaceUrlAuthorities(text) \in Seq(Plain \cup OwnTokens)
    BY <2>3, ReplacedTokens
  <2>5. "blank" \notin Plain \cup OwnTokens
    BY DEF OwnTokens
  <2>6. ~HasHeader(ReplaceUrlAuthorities(text))
    BY <2>4, <2>5, NoEmptyLine
  <2>7. [m EXCEPT !.text = ReplaceUrlAuthorities(@)].text = ReplaceUrlAuthorities(text)
    OBVIOUS
  <2>8. LengthFits([m EXCEPT !.text = ReplaceUrlAuthorities(@)])
    BY <2>6, <2>7 DEF LengthFits
  <2>9. RewriteResponse(m) = NormalizeNoProfile([m EXCEPT !.text = ReplaceUrlAuthorities(@)])
    BY <1>1, <1>3 DEF RewriteResponse
  <2>10. QED
    BY <2>8, <2>9, NormalizedFits
<1>4. CASE HasHeader(text)
  <2> DEFINE T == Plain \cup {"length"}
  <2>1. /\ header \in Seq(Bytes) /\ Len(header) \in Nat /\ DOMAIN header = 1 .. Len(header)
        /\ \A i \in 1 .. Len(header) : header[i] \in Plain
    <3>1. header \in Seq(Bytes) /\ Len(header) = HeaderEnd(text) - 1
      BY HeaderOfText
    <3>2. \A i \in 1 .. Len(header) : header[i] # "blank"
      BY <3>1, HeaderOfText
    <3>3. \A i \in 1 .. Len(header) : header[i] \in Bytes
      BY <3>1, ElementOfSeq
    <3>4. QED
      BY <3>1, <3>2, <3>3, LenProperties
  <2>2. lines \in Seq(T)
    <3>1. lines \in [1 .. Len(header) -> T]
      BY <2>1
    <3> HIDE DEF T, lines
    <3>2. QED
      BY <2>1, <3>1, SeqDef
  <2>3. added \in Seq(T)
    <3>1. <<>> \in Seq(T) /\ <<"length">> \in Seq(T)
      OBVIOUS
    <3> HIDE DEF lines, T
    <3>2. QED
      BY <3>1
  <2>4. lines \o added \in Seq(T)
    <3> HIDE DEF lines, added, T
    <3>1. QED
      BY <2>2, <2>3, ConcatProperties
  <2>5. \E i \in DOMAIN (lines \o added) : (lines \o added)[i] = "length"
    <3>1. DOMAIN lines = 1 .. Len(lines) /\ Len(lines) \in Nat
      <4> HIDE DEF lines, T
      <4>1. QED
        BY <2>2, LenProperties
    <3>2. /\ DOMAIN (lines \o added) = 1 .. Len(lines) + Len(added)
          /\ \A i \in 1 .. Len(lines) + Len(added) : (lines \o added)[i] =
               IF i <= Len(lines) THEN lines[i] ELSE added[i - Len(lines)]
      <4> HIDE DEF lines, added, T
      <4>1. QED
        BY <2>2, <2>3, <2>4, ConcatProperties, LenProperties
    <3>3. CASE "length" \in {lines[i] : i \in DOMAIN lines}
      <4>1. added = <<>> /\ Len(added) = 0
        BY <3>3
      <4>2. PICK i \in DOMAIN lines : lines[i] = "length"
        BY <3>3
      <4> HIDE DEF lines, added
      <4>3. i \in 1 .. Len(lines) + Len(added) /\ i <= Len(lines)
        BY <3>1, <4>1, <4>2
      <4>4. QED
        BY <3>2, <4>2, <4>3
    <3>4. CASE "length" \notin {lines[i] : i \in DOMAIN lines}
      <4>1. added = <<"length">> /\ Len(added) = 1 /\ added[1] = "length"
        BY <3>4
      <4> HIDE DEF lines, added
      <4>2. /\ Len(lines) + 1 \in 1 .. Len(lines) + Len(added)
            /\ ~(Len(lines) + 1 <= Len(lines))
            /\ Len(lines) + 1 - Len(lines) = 1
        BY <3>1, <4>1
      <4>3. QED
        BY <3>2, <4>1, <4>2
    <3>5. QED
      BY <3>3, <3>4
  <2>6. body \in Seq(Bytes \cup OwnTokens)
    <3>1. Body(text) \in Seq(Bytes \cup OwnTokens)
      BY HeaderOfText, SeqMonotonic
    <3>2. QED
      BY <3>1, ReplacedTokens
  <2>7. RewriteResponse(m) =
          [text |-> lines \o added \o <<"blank">> \o body, declared |-> Len(body)]
    BY <1>1, <1>4 DEF RewriteResponse
  <2>8. "blank" \notin T
    OBVIOUS
  <2> HIDE DEF lines, added, body, T
  <2>9. /\ Header(lines \o added \o <<"blank">> \o body) = lines \o added
        /\ Body(lines \o added \o <<"blank">> \o body) = body
    BY <2>4, <2>6, <2>8, PutTogether
  <2> DEFINE text2 == lines \o added \o <<"blank">> \o body
  <2>10. RewriteResponse(m).text = text2 /\ RewriteResponse(m).declared = Len(body)
    BY <2>7
  <2>11. Header(text2) = lines \o added /\ Body(text2) = body
    BY <2>9
  <2> HIDE DEF text2
  <2>12. QED
    BY <2>5, <2>10, <2>11 DEF LengthFits, Declares
<1>5. QED
  BY <1>3, <1>4

-----------------------------------------------------------------------------
(* The camera's datagrams. *)

\* The bodies the camera sends here.
CameraBody ==
  [kind : {"heartbeat"}]
    \cup [kind : {"status"}, realm : {Realm}, text : {Disc}]
    \cup {b \in [kind : {"payload"}, realm : {Realm}, data : Seq(Bytes)] :
            Len(b.data) < HalfWord}

Datagram == {[at |-> n, body |-> Serialize(b)] : n \in Nat, b \in CameraBody}

\* dh_reader gets what the camera sent, and counts the bytes on the wire.
LEMMA CameraBodyArrives ==
  ASSUME NEW b \in CameraBody
  PROVE  /\ Parse(Serialize(b)) = b
         /\ BodyLen(b) = Serialize(b).size
         /\ BodyLen(b) \in Nat
         /\ Serialize(b).type \in 0 .. 255
<1>1. CASE b \in [kind : {"heartbeat"}]
  <2>1. b \in EngineBody /\ b.kind = "heartbeat"
    BY <1>1 DEF EngineBody
  <2>2. Serialize(b).type = HeartbeatByte
    BY <2>1 DEF Serialize, Fields
  <2>3. QED
    BY <2>1, <2>2, RoundTrip DEF HeartbeatByte
<1>2. CASE b \in [kind : {"status"}, realm : {Realm}, text : {Disc}]
  <2>1. b \in EngineBody /\ b.kind = "status"
    BY <1>2, ResponseAssumption DEF EngineBody
  <2>2. Serialize(b).type = StatusByte
    BY <2>1 DEF Serialize, Fields
  <2>3. QED
    BY <2>1, <2>2, RoundTrip DEF StatusByte
<1>3. CASE b \in [kind : {"payload"}, realm : {Realm}, data : Seq(Bytes)]
           /\ Len(b.data) < HalfWord
  <2>1. /\ b = [kind |-> "payload", realm |-> b.realm, data |-> b.data]
        /\ b.realm \in Words /\ b.data \in Seq(Bytes)
    BY <1>3, ResponseAssumption
  <2>2. QED
    BY <1>3, <2>1, PayloadRoundTrip DEF PayloadByte
<1>4. QED
  BY <1>1, <1>2, <1>3 DEF CameraBody

\* The same for a datagram.
LEMMA DatagramArrives ==
  ASSUME NEW d \in Datagram
  PROVE  /\ d.at \in Nat
         /\ Parse(d.body) \in CameraBody
         /\ BodyLen(Parse(d.body)) = d.body.size
         /\ d.body.size \in Nat
         /\ d.body.type \in 0 .. 255
<1>1. PICK n \in Nat, b \in CameraBody : d = [at |-> n, body |-> Serialize(b)]
  BY DEF Datagram
<1>2. d.at = n /\ d.body = Serialize(b)
  BY <1>1
<1>3. QED
  BY <1>2, CameraBodyArrives

-----------------------------------------------------------------------------
(* The inductive invariant. *)

\* The types of the variables; a datagram's body is one of the camera's.
Typed ==
  /\ response \in Responses
  /\ sent \in 0 .. Len(response.text)
  /\ heartbeats \in 0 .. MaxHeartbeats
  /\ closed \in BOOLEAN
  /\ onWire \in Seq(Datagram)
  /\ wireBytes \in Nat
  /\ open \in BOOLEAN
  /\ channel \in Seq(Seq(Bytes))
  /\ received.text \in Seq(Bytes)
  /\ received = [text |-> received.text, declared |-> response.declared]
  /\ writer \in {"collect", "flush", "done"}

\* Each datagram starts where the one before it ends, and the session's counter
\* stands at the first one.
WireCounted ==
  /\ CounterFollowsWire
  /\ \A i \in 1 .. Len(onWire) :
       /\ onWire[i].at <= wireBytes
       /\ onWire[i].at + onWire[i].body.size =
            IF i = Len(onWire) THEN wireBytes ELSE onWire[i + 1].at

\* The camera's DISC is the last it sends, and the channel stays open until
\* dh_reader has seen it or the response is written.
DiscIsLast ==
  /\ \A i \in 1 .. Len(onWire) :
       Parse(onWire[i].body).kind = "status" => closed /\ i = Len(onWire)
  /\ writer = "collect" /\ ~open => closed /\ onWire = <<>>

\* The buffer holds the beginning of the response.
BufferIsPrefix ==
  /\ Len(received.text) <= Len(response.text)
  /\ received.text = SubSeq(response.text, 1, Len(received.text))

\* The i-th chunk of a channel is the text from cut[i] to cut[i + 1].
ChannelCut(chunks, text, cut) ==
  \A i \in 1 .. Len(chunks) :
    /\ cut[i + 1] \in cut[i] .. Len(text)
    /\ chunks[i] = SubSeq(text, cut[i] + 1, cut[i + 1])

\* So is the i-th datagram's data, if it has any.
WireCut(wire, text, cut) ==
  \A i \in 1 .. Len(wire) :
    LET body == Parse(wire[i].body)
    IN  /\ body.kind = "payload" => /\ cut[i + 1] \in cut[i] .. Len(text)
                                    /\ body.data = SubSeq(text, cut[i] + 1, cut[i + 1])
        /\ body.kind # "payload" => cut[i + 1] = cut[i]

\* While process_writer collects, the rest of what the camera has sent is in the
\* channel and on the wire, in this order.
InTransit ==
  writer = "collect" =>
    \E c, w \in [Nat -> Nat] :
      /\ c[1] = Len(received.text)
      /\ ChannelCut(channel, response.text, c)
      /\ w[1] = c[Len(channel) + 1]
      /\ WireCut(onWire, response.text, w)
      /\ w[Len(onWire) + 1] = sent

\* What is written is a complete response or all the camera will send.
FlushedIsAll ==
  writer # "collect" =>
    ResponseComplete(received) \/ (closed /\ Len(received.text) = sent)

IInv ==
  /\ Typed
  /\ WireCounted
  /\ DiscIsLast
  /\ BufferIsPrefix
  /\ InTransit
  /\ FlushedIsAll

\* The lengths the invariant speaks of are numbers.
LEMMA LengthsAreNumbers ==
  ASSUME Typed
  PROVE  /\ response.text \in Seq(Bytes) /\ Len(response.text) \in Nat
         /\ Len(onWire) \in Nat /\ DOMAIN onWire = 1 .. Len(onWire)
         /\ \A i \in 1 .. Len(onWire) : onWire[i] \in Datagram
         /\ Len(channel) \in Nat /\ DOMAIN channel = 1 .. Len(channel)
         /\ \A i \in 1 .. Len(channel) : channel[i] \in Seq(Bytes)
         /\ Len(received.text) \in Nat
         /\ sent \in Nat /\ sent <= Len(response.text)
<1>1. response.text \in Seq(Bytes) /\ Len(response.text) \in Nat
  <2>1. response.text \in Seq(Bytes \ Garbled)
    BY ResponseAssumption DEF Typed
  <2>2. response.text \in Seq(Bytes)
    BY <2>1, SeqMonotonic
  <2>3. QED
    BY <2>2, LenProperties
<1>2. /\ Len(onWire) \in Nat /\ DOMAIN onWire = 1 .. Len(onWire)
      /\ \A i \in 1 .. Len(onWire) : onWire[i] \in Datagram
  BY LenProperties, ElementOfSeq DEF Typed
<1>3. /\ Len(channel) \in Nat /\ DOMAIN channel = 1 .. Len(channel)
      /\ \A i \in 1 .. Len(channel) : channel[i] \in Seq(Bytes)
  BY LenProperties, ElementOfSeq DEF Typed
<1>4. Len(received.text) \in Nat
  BY LenProperties DEF Typed
<1>5. sent \in Nat /\ sent <= Len(response.text)
  BY <1>1 DEF Typed
<1>6. QED
  BY <1>1, <1>2, <1>3, <1>4, <1>5

\* The initial state satisfies the invariant.
LEMMA InitHolds == Init => IInv
<1> SUFFICES ASSUME Init PROVE IInv
  OBVIOUS
<1>1. /\ response \in Responses /\ sent = 0 /\ heartbeats = 0 /\ ~closed /\ closed \in BOOLEAN
      /\ onWire = <<>> /\ wireBytes = 0 /\ recv = 0 /\ open /\ open \in BOOLEAN
      /\ channel = <<>> /\ received.text = <<>>
      /\ received = [text |-> <<>>, declared |-> response.declared]
      /\ writer = "collect"
  BY DEF Init
<1>2. Len(<<>>) = 0 /\ \A S : <<>> \in Seq(S)
  BY EmptySeq
<1>3. Typed
  <2>1. response.text \in Seq(Bytes \ Garbled) /\ Len(response.text) \in Nat
    BY <1>1, ResponseAssumption, LenProperties
  <2>2. 0 \in 0 .. Len(response.text) /\ 0 \in 0 .. MaxHeartbeats
    BY <2>1, ResponseAssumption
  <2>3. QED
    BY <1>1, <1>2, <2>2 DEF Typed
<1>4. WireCounted /\ DiscIsLast
  BY <1>1, <1>2 DEF WireCounted, CounterFollowsWire, DiscIsLast
<1>5. BufferIsPrefix
  <2>1. SubSeq(response.text, 1, 0) = <<>>
    BY SubSeqEmpty
  <2>2. QED
    BY <1>1, <1>2, <1>3, <2>1, LengthsAreNumbers DEF BufferIsPrefix
<1>6. InTransit
  <2> DEFINE zero == [i \in Nat |-> 0]
  <2>1. zero \in [Nat -> Nat] /\ zero[1] = 0 /\ zero[0 + 1] = 0
    OBVIOUS
  <2>2. /\ ChannelCut(channel, response.text, zero)
        /\ WireCut(onWire, response.text, zero)
    BY <1>1, <1>2 DEF ChannelCut, WireCut
  <2> HIDE DEF zero
  <2>3. QED
    BY <1>1, <1>2, <2>1, <2>2 DEF InTransit
<1>7. FlushedIsAll
  BY <1>1 DEF FlushedIsAll
<1>8. QED
  BY <1>3, <1>4, <1>5, <1>6, <1>7 DEF IInv

-----------------------------------------------------------------------------
(* The camera's steps. *)

\* A new datagram at the end of the wire keeps the invariant, if it carries on
\* where the last one ended.
LEMMA TransmitKeeps ==
  ASSUME IInv, NEW b \in CameraBody, Transmit(b),
         sent' \in 0 .. Len(response.text), heartbeats' \in 0 .. MaxHeartbeats,
         closed' \in BOOLEAN,
         b.kind = "status" => closed',
         b.kind = "payload" => /\ sent' >= sent
                               /\ b.data = SubSeq(response.text, sent + 1, sent'),
         b.kind # "payload" => sent' = sent
  PROVE  IInv'
<1> DEFINE n == Len(onWire)
           d == [at |-> wireBytes, body |-> Serialize(b)]
<1>1. /\ ~closed
      /\ onWire' = Append(onWire, d)
      /\ wireBytes' = wireBytes + d.body.size
      /\ UNCHANGED <<response, recv, open, channel, received, writer>>
  BY DEF Transmit, writerVars
<1>t. Typed
  BY DEF IInv
<1>2. /\ d \in Datagram /\ d.at = wireBytes /\ wireBytes \in Nat /\ d.body.size \in Nat
      /\ Parse(d.body) = b
  BY <1>t, CameraBodyArrives DEF Datagram, Typed
<1>3. /\ onWire' \in Seq(Datagram) /\ onWire' # <<>>
      /\ Len(onWire') = n + 1
      /\ \A i \in 1 .. n : onWire'[i] = onWire[i]
      /\ onWire'[n + 1] = d
      /\ n \in Nat
  <2> HIDE DEF d
  <2>1. onWire \in Seq(Datagram) /\ n \in Nat
    BY <1>t, LengthsAreNumbers DEF Typed
  <2>2. /\ Append(onWire, d) \in Seq(Datagram) /\ Append(onWire, d) # <<>>
        /\ Len(Append(onWire, d)) = n + 1
        /\ \A i \in 1 .. n : Append(onWire, d)[i] = onWire[i]
        /\ Append(onWire, d)[n + 1] = d
    BY <1>2, <2>1, AppendProperties
  <2>3. QED
    BY <1>1, <2>1, <2>2
<1> HIDE DEF d, n
<1>4. Typed'
  <2>1. wireBytes' \in Nat
    BY <1>1, <1>2
  <2>2. response' = response /\ sent' \in 0 .. Len(response'.text)
    BY <1>1
  <2>3. /\ received'.text \in Seq(Bytes)
        /\ received' = [text |-> received'.text, declared |-> response'.declared]
        /\ channel' \in Seq(Seq(Bytes)) /\ open' \in BOOLEAN
        /\ writer' \in {"collect", "flush", "done"} /\ response' \in Responses
    BY <1>1, <1>t DEF Typed
  <2>4. QED
    BY <1>3, <2>1, <2>2, <2>3 DEF Typed
<1>5. WireCounted'
  <2>1. recv' = Head(onWire').at
    <3>1. CASE n = 0
      <4>1. onWire = <<>>
        BY <1>t, <3>1, EmptySeq DEF n, Typed
      <4>2. Head(onWire') = d
        BY <1>3, <3>1
      <4>3. QED
        BY <1>1, <1>2, <4>1, <4>2 DEF IInv, WireCounted, CounterFollowsWire
    <3>2. CASE n # 0
      <4>1. onWire # <<>> /\ 1 \in 1 .. n
        BY <1>3, <3>2, EmptySeq DEF n
      <4>2. Head(onWire') = Head(onWire)
        BY <1>3, <4>1
      <4>3. QED
        BY <1>1, <4>1, <4>2 DEF IInv, WireCounted, CounterFollowsWire
    <3>3. QED
      BY <3>1, <3>2
  <2>2. CounterFollowsWire'
    BY <1>3, <2>1 DEF CounterFollowsWire
  <2>3. ASSUME NEW i \in 1 .. n + 1
        PROVE  /\ onWire'[i].at <= wireBytes'
               /\ onWire'[i].at + onWire'[i].body.size =
                    IF i = n + 1 THEN wireBytes' ELSE onWire'[i + 1].at
    <3>1. CASE i = n + 1
      BY <1>1, <1>2, <1>3, <3>1
    <3>2. CASE i # n + 1
      <4>1. i \in 1 .. n /\ onWire'[i] = onWire[i]
        BY <1>3, <3>2
      <4>2. /\ onWire[i].at <= wireBytes
            /\ onWire[i].at + onWire[i].body.size =
                 IF i = n THEN wireBytes ELSE onWire[i + 1].at
        BY <4>1 DEF IInv, WireCounted, n
      <4>3. onWire[i].at \in Nat
        BY <1>t, <4>1, LengthsAreNumbers, DatagramArrives DEF n
      <4>4. onWire'[i].at <= wireBytes'
        <5> DEFINE a == onWire[i].at
                   size == d.body.size
        <5>1. a \in Nat /\ size \in Nat /\ wireBytes \in Nat /\ a <= wireBytes
          BY <1>2, <4>2, <4>3
        <5>2. wireBytes' = wireBytes + size /\ onWire'[i].at = a
          BY <1>1, <4>1
        <5> HIDE DEF a, size
        <5>3. QED
          BY <5>1, <5>2
      <4>5. onWire'[i + 1].at = IF i = n THEN wireBytes ELSE onWire[i + 1].at
        <5>1. CASE i = n
          BY <1>2, <1>3, <5>1
        <5>2. CASE i # n
          <6>1. i + 1 \in 1 .. n
            BY <1>3, <4>1, <5>2
          <6>2. QED
            BY <1>3, <5>2, <6>1
        <5>3. QED
          BY <5>1, <5>2
      <4>6. QED
        BY <3>2, <4>1, <4>2, <4>4, <4>5
    <3>3. QED
      BY <3>1, <3>2
  <2>4. QED
    BY <1>3, <2>2, <2>3 DEF WireCounted
<1>6. DiscIsLast'
  <2>1. ASSUME NEW i \in 1 .. n + 1, Parse(onWire'[i].body).kind = "status"
        PROVE  closed' /\ i = n + 1
    <3>1. CASE i = n + 1
      BY <1>2, <1>3, <2>1, <3>1
    <3>2. CASE i # n + 1
      <4>1. i \in 1 .. n /\ onWire'[i] = onWire[i]
        BY <1>3, <3>2
      <4>2. QED
        BY <1>1, <2>1, <4>1 DEF IInv, DiscIsLast, n
    <3>3. QED
      BY <3>1, <3>2
  <2>2. ~(writer' = "collect" /\ ~open')
    BY <1>1 DEF IInv, DiscIsLast
  <2>3. QED
    BY <1>3, <2>1, <2>2 DEF DiscIsLast
<1>7. BufferIsPrefix'
  BY <1>1 DEF IInv, BufferIsPrefix
<1>8. InTransit'
  <2> SUFFICES ASSUME writer = "collect" PROVE InTransit'
    BY <1>1 DEF InTransit
  <2>1. PICK c \in [Nat -> Nat], w \in [Nat -> Nat] :
          /\ c[1] = Len(received.text)
          /\ ChannelCut(channel, response.text, c)
          /\ w[1] = c[Len(channel) + 1]
          /\ WireCut(onWire, response.text, w)
          /\ w[n + 1] = sent
    BY DEF IInv, InTransit, n
  <2> DEFINE v == [w EXCEPT ![n + 2] = sent']
  <2>2. /\ v \in [Nat -> Nat] /\ v[n + 2] = sent'
        /\ \A i \in 1 .. n + 1 : v[i] = w[i]
    <3>1. sent' \in Nat /\ n + 2 \in Nat
      BY <1>3, <1>t, LengthsAreNumbers
    <3>2. \A i \in 1 .. n + 1 : i \in Nat /\ i # n + 2
      BY <1>3
    <3>3. QED
      BY <3>1, <3>2
  <2> HIDE DEF v
  <2>3. WireCut(onWire', response.text, v)
    <3> SUFFICES ASSUME NEW i \in 1 .. n + 1
                 PROVE  LET body == Parse(onWire'[i].body)
                        IN  /\ body.kind = "payload" =>
                                 /\ v[i + 1] \in v[i] .. Len(response.text)
                                 /\ body.data = SubSeq(response.text, v[i] + 1, v[i + 1])
                            /\ body.kind # "payload" => v[i + 1] = v[i]
      BY <1>3 DEF WireCut
    <3>1. CASE i = n + 1
      <4>1. v[i] = sent /\ v[i + 1] = sent' /\ Parse(onWire'[i].body) = b
        <5>1. i + 1 = n + 2 /\ i \in 1 .. n + 1
          BY <1>3, <3>1
        <5>2. QED
          BY <1>2, <1>3, <2>1, <2>2, <3>1, <5>1
      <4>2. sent \in Nat /\ Len(response.text) \in Nat
        BY <1>t, LengthsAreNumbers
      <4>3. b.kind = "payload" => sent' \in sent .. Len(response.text)
        BY <4>2
      <4>4. QED
        BY <4>1, <4>3
    <3>2. CASE i # n + 1
      <4>1. i \in 1 .. n /\ i + 1 \in 1 .. n + 1 /\ i \in 1 .. n + 1
        BY <1>3, <3>2
      <4>2. v[i] = w[i] /\ v[i + 1] = w[i + 1] /\ onWire'[i] = onWire[i]
        BY <1>3, <2>2, <4>1
      <4>3. QED
        BY <2>1, <4>1, <4>2 DEF WireCut, n
    <3>3. QED
      BY <3>1, <3>2
  <2>4. v[1] = c[Len(channel) + 1] /\ v[Len(onWire') + 1] = sent'
    <3>1. 1 \in 1 .. n + 1 /\ n + 1 + 1 = n + 2
      BY <1>3
    <3>2. QED
      BY <1>3, <2>1, <2>2, <3>1
  <2>5. QED
    BY <1>1, <2>1, <2>2, <2>3, <2>4 DEF InTransit
<1>9. FlushedIsAll'
  BY <1>1 DEF IInv, FlushedIsAll
<1>10. QED
  BY <1>4, <1>5, <1>6, <1>7, <1>8, <1>9 DEF IInv

\* The camera's three kinds of datagrams.
LEMMA CameraKeeps ==
  ASSUME IInv,
         \/ \E n \in 1 .. Len(response.text) : CameraSends(n)
         \/ CameraHeartbeat
         \/ CameraCloses
  PROVE  IInv'
<1>t. Typed
  BY DEF IInv
<1>n. /\ response.text \in Seq(Bytes) /\ Len(response.text) \in Nat
      /\ sent \in Nat /\ sent <= Len(response.text)
      /\ heartbeats \in 0 .. MaxHeartbeats /\ MaxHeartbeats \in Nat
      /\ sent \in 0 .. Len(response.text)
  BY <1>t, LengthsAreNumbers, ResponseAssumption DEF Typed
<1>1. ASSUME NEW n \in 1 .. Len(response.text), CameraSends(n) PROVE IInv'
  <2> DEFINE data == SubSeq(response.text, sent + 1, sent + n)
             b == [kind |-> "payload", realm |-> Realm, data |-> data]
  <2>1. /\ sent + n <= Len(response.text) /\ Transmit(b)
        /\ sent' = sent + n /\ UNCHANGED <<heartbeats, closed>>
    BY <1>1 DEF CameraSends
  <2>2. data \in Seq(Bytes) /\ Len(data) = n
    <3>1. sent + 1 \in 1 .. Len(response.text) + 1 /\ sent + n \in 0 .. Len(response.text)
      BY <1>n, <2>1
    <3>2. /\ data \in Seq(Bytes)
          /\ Len(data) = IF sent + 1 <= sent + n THEN sent + n - (sent + 1) + 1 ELSE 0
      BY <1>n, <3>1, PartOfText
    <3> HIDE DEF data
    <3>3. QED
      BY <1>n, <3>2
  <2>3. Len(data) < HalfWord
    <3> HIDE DEF data
    <3>1. Serialize(b) = Fields(HeaderSize + Len(data), PayloadByte, Len(data) % HalfWord,
                                Realm, 0, data)
      BY DEF Serialize
    <3>2. Serialize(b).size = 12 + Len(data)
      BY <3>1 DEF Fields, HeaderSize
    <3> HIDE DEF b
    <3>3. 24 + Serialize(b).size <= 65535
      BY <2>1 DEF Transmit, MaxDatagram
    <3>4. QED
      BY <1>n, <2>2, <3>2, <3>3 DEF HalfWord
  <2>4. b \in CameraBody
    <3> HIDE DEF data
    <3>1. QED
      BY <2>2, <2>3 DEF CameraBody
  <2>5. b.kind = "payload" /\ b.data = data
    OBVIOUS
  <2>6. sent' \in 0 .. Len(response.text) /\ sent' >= sent
    BY <1>n, <2>1
  <2>7. data = SubSeq(response.text, sent + 1, sent')
    BY <2>1
  <2> HIDE DEF data, b
  <2>8. QED
    BY <1>n, <1>t, <2>1, <2>4, <2>5, <2>6, <2>7, TransmitKeeps DEF Typed
<1>2. CASE CameraHeartbeat
  <2> DEFINE b == [kind |-> "heartbeat"]
  <2>1. /\ heartbeats < MaxHeartbeats /\ Transmit(b)
        /\ heartbeats' = heartbeats + 1 /\ UNCHANGED <<sent, closed>>
    BY <1>2 DEF CameraHeartbeat
  <2>2. b \in CameraBody /\ b.kind = "heartbeat"
    BY DEF CameraBody
  <2>3. heartbeats' \in 0 .. MaxHeartbeats
    BY <1>n, <2>1
  <2> HIDE DEF b
  <2>4. QED
    BY <1>n, <1>t, <2>1, <2>2, <2>3, TransmitKeeps DEF Typed
<1>3. CASE CameraCloses
  <2> DEFINE b == [kind |-> "status", realm |-> Realm, text |-> Disc]
  <2>1. Transmit(b) /\ closed' = TRUE /\ UNCHANGED <<sent, heartbeats>>
    BY <1>3 DEF CameraCloses
  <2>2. b \in CameraBody /\ b.kind = "status"
    BY DEF CameraBody
  <2> HIDE DEF b
  <2>3. QED
    BY <1>n, <2>1, <2>2, TransmitKeeps
<1>4. QED
  BY <1>1, <1>2, <1>3

-----------------------------------------------------------------------------
(* The engine's steps. *)

\* What is behind the datagram that dh_reader takes.
LEMMA RestOfWire ==
  ASSUME Typed, onWire # <<>>
  PROVE  /\ Head(onWire) = onWire[1] /\ onWire[1] \in Datagram
         /\ Tail(onWire) \in Seq(Datagram)
         /\ Len(onWire) \in Nat /\ Len(onWire) >= 1
         /\ Len(Tail(onWire)) = Len(onWire) - 1
         /\ \A i \in 1 .. Len(onWire) - 1 : Tail(onWire)[i] = onWire[i + 1]
         /\ Len(onWire) = 1 <=> Tail(onWire) = <<>>
<1>1. onWire \in Seq(Datagram)
  BY DEF Typed
<1>2. Len(onWire) \in Nat /\ Len(onWire) >= 1
  BY <1>1, EmptySeq
<1>3. onWire[1] \in Datagram /\ Head(onWire) = onWire[1]
  BY <1>1, <1>2, ElementOfSeq
<1>4. /\ Tail(onWire) \in Seq(Datagram)
      /\ Len(Tail(onWire)) = Len(onWire) - 1
      /\ \A i \in 1 .. Len(Tail(onWire)) : Tail(onWire)[i] = onWire[i + 1]
  BY <1>1, HeadTailProperties
<1>5. Tail(onWire) = <<>> <=> Len(Tail(onWire)) = 0
  BY <1>4, EmptySeq
<1>6. QED
  BY <1>2, <1>3, <1>4, <1>5

\* dh_reader counts the datagram's bytes, hands on its data and sees a DISC.
LEMMA ReaderDeliversKeeps ==
  ASSUME IInv, ReaderDelivers
  PROVE  IInv'
<1> DEFINE n == Len(onWire)
           m == Len(channel)
           b == Parse(Head(onWire).body)
<1>t. Typed
  BY DEF IInv
<1>1. /\ onWire # <<>> /\ onWire' = Tail(onWire)
      /\ recv' = recv + BodyLen(b)
      /\ channel' = IF b.kind = "payload" /\ b.realm = Realm /\ open
                    THEN Append(channel, b.data) ELSE channel
      /\ open' = (open /\ ~(b.kind = "status" /\ b.text = Disc))
      /\ UNCHANGED <<response, sent, heartbeats, closed, wireBytes, received, writer>>
  BY DEF ReaderDelivers, cameraVars, writerVars
<1>2. /\ Head(onWire) = onWire[1] /\ onWire[1] \in Datagram
      /\ onWire' \in Seq(Datagram)
      /\ n \in Nat /\ n >= 1
      /\ Len(onWire') = n - 1
      /\ \A i \in 1 .. n - 1 : onWire'[i] = onWire[i + 1]
      /\ n = 1 <=> onWire' = <<>>
  BY <1>1, <1>t, RestOfWire
<1>3. /\ b \in CameraBody /\ BodyLen(b) = onWire[1].body.size
      /\ b = Parse(onWire[1].body)
  BY <1>2, DatagramArrives
<1>4. /\ b.kind = "payload" => b.realm = Realm /\ b.data \in Seq(Bytes)
      /\ b.kind = "status" => b.text = Disc
  BY <1>3 DEF CameraBody
<1>5. m \in Nat /\ channel \in Seq(Seq(Bytes))
  BY <1>t, LengthsAreNumbers DEF Typed
<1> HIDE DEF b, n, m
<1>6. Typed'
  <2>1. channel' \in Seq(Seq(Bytes))
    BY <1>1, <1>4, <1>5, AppendProperties
  <2>2. open' \in BOOLEAN
    BY <1>1
  <2>3. QED
    BY <1>1, <1>2, <1>t, <2>1, <2>2 DEF Typed
<1>7. WireCounted'
  <2>1. /\ recv = onWire[1].at
        /\ onWire[1].at + onWire[1].body.size = IF 1 = n THEN wireBytes ELSE onWire[1 + 1].at
    <3>1. 1 \in 1 .. n
      BY <1>2
    <3>2. QED
      BY <1>1, <1>2, <3>1 DEF IInv, WireCounted, CounterFollowsWire, n
  <2>2. recv' = IF n = 1 THEN wireBytes ELSE onWire[2].at
    BY <1>1, <1>3, <2>1
  <2>3. n # 1 => Head(onWire') = onWire[2]
    <3>1. n # 1 => 1 \in 1 .. n - 1
      BY <1>2
    <3>2. n # 1 => onWire'[1] = onWire[2] /\ Head(onWire') = onWire'[1]
      BY <1>2, <3>1
    <3>3. QED
      BY <3>2
  <2>4. CounterFollowsWire'
    BY <1>1, <1>2, <2>2, <2>3 DEF CounterFollowsWire
  <2>5. ASSUME NEW i \in 1 .. n - 1
        PROVE  /\ onWire'[i].at <= wireBytes
               /\ onWire'[i].at + onWire'[i].body.size =
                    IF i = n - 1 THEN wireBytes ELSE onWire'[i + 1].at
    <3>1. i + 1 \in 1 .. n /\ onWire'[i] = onWire[i + 1] /\ (i = n - 1 <=> i + 1 = n)
      BY <1>2
    <3>2. /\ onWire[i + 1].at <= wireBytes
          /\ onWire[i + 1].at + onWire[i + 1].body.size =
               IF i + 1 = n THEN wireBytes ELSE onWire[i + 1 + 1].at
      BY <3>1 DEF IInv, WireCounted, n
    <3>3. i # n - 1 => onWire'[i + 1] = onWire[i + 1 + 1]
      <4>1. i # n - 1 => i + 1 \in 1 .. n - 1
        BY <1>2
      <4>2. QED
        BY <1>2, <4>1
    <3>4. QED
      BY <3>1, <3>2, <3>3
  <2>6. QED
    BY <1>1, <1>2, <2>4, <2>5 DEF WireCounted
<1>8. DiscIsLast'
  <2>1. ASSUME NEW i \in 1 .. n - 1, Parse(onWire'[i].body).kind = "status"
        PROVE  closed' /\ i = n - 1
    <3>1. i + 1 \in 1 .. n /\ onWire'[i] = onWire[i + 1]
      BY <1>2
    <3>2. closed /\ i + 1 = n
      BY <2>1, <3>1 DEF IInv, DiscIsLast, n
    <3>3. QED
      BY <1>1, <1>2, <3>2
  <2>2. writer' = "collect" /\ ~open' => closed' /\ onWire' = <<>>
    <3> SUFFICES ASSUME writer = "collect", ~open' PROVE closed /\ onWire' = <<>>
      BY <1>1
    <3>1. open
      BY <1>1 DEF IInv, DiscIsLast
    <3>2. b.kind = "status"
      BY <1>1, <3>1
    <3>3. 1 \in 1 .. n
      BY <1>2
    <3>4. closed /\ 1 = n
      BY <1>3, <3>2, <3>3 DEF IInv, DiscIsLast, n
    <3>5. QED
      BY <1>2, <3>4
  <2>3. QED
    BY <1>2, <2>1, <2>2 DEF DiscIsLast
<1>9. BufferIsPrefix' /\ FlushedIsAll'
  BY <1>1 DEF IInv, BufferIsPrefix, FlushedIsAll
<1>10. InTransit'
  <2> SUFFICES ASSUME writer = "collect" PROVE InTransit'
    BY <1>1 DEF InTransit
  <2>1. PICK c \in [Nat -> Nat], w \in [Nat -> Nat] :
          /\ c[1] = Len(received.text)
          /\ ChannelCut(channel, response.text, c)
          /\ w[1] = c[m + 1]
          /\ WireCut(onWire, response.text, w)
          /\ w[n + 1] = sent
    BY DEF IInv, InTransit, n, m
  <2>2. open
    BY <1>1 DEF IInv, DiscIsLast
  <2> DEFINE v == [i \in Nat |-> w[i + 1]]
             e == [c EXCEPT ![m + 2] = w[2]]
  <2>3. /\ v \in [Nat -> Nat] /\ \A i \in Nat : v[i] = w[i + 1]
        /\ e \in [Nat -> Nat] /\ e[m + 2] = w[2] /\ \A i \in 1 .. m + 1 : e[i] = c[i]
    <3>1. m + 2 \in Nat /\ \A i \in 1 .. m + 1 : i \in Nat /\ i # m + 2
      BY <1>5
    <3>2. w[2] \in Nat /\ \A i \in Nat : i + 1 \in Nat
      OBVIOUS
    <3>3. QED
      BY <3>1, <3>2 DEF v, e
  <2> HIDE DEF v, e
  <2>4. WireCut(onWire', response.text, v)
    <3> SUFFICES ASSUME NEW i \in 1 .. n - 1
                 PROVE  LET body == Parse(onWire'[i].body)
                        IN  /\ body.kind = "payload" =>
                                 /\ v[i + 1] \in v[i] .. Len(response.text)
                                 /\ body.data = SubSeq(response.text, v[i] + 1, v[i + 1])
                            /\ body.kind # "payload" => v[i + 1] = v[i]
      BY <1>2 DEF WireCut
    <3>1. i + 1 \in 1 .. n /\ onWire'[i] = onWire[i + 1] /\ i \in Nat /\ i + 1 \in Nat
      BY <1>2
    <3>2. v[i] = w[i + 1] /\ v[i + 1] = w[i + 1 + 1]
      BY <2>3, <3>1
    <3>3. QED
      BY <2>1, <3>1, <3>2 DEF WireCut, n
  <2>5. v[1] = w[2] /\ v[Len(onWire') + 1] = sent
    <3>1. Len(onWire') + 1 = n /\ n \in Nat
      BY <1>2
    <3>2. v[n] = w[n + 1] /\ v[1] = w[1 + 1] /\ 1 + 1 = 2
      BY <2>3, <3>1
    <3>3. QED
      BY <2>1, <3>1, <3>2
  <2>6. /\ b.kind = "payload" => /\ w[2] \in w[1] .. Len(response.text)
                                 /\ b.data = SubSeq(response.text, w[1] + 1, w[2])
        /\ b.kind # "payload" => w[2] = w[1]
    <3>1. 1 \in 1 .. n /\ 1 + 1 = 2
      BY <1>2
    <3>2. QED
      BY <1>3, <2>1, <3>1 DEF WireCut, n
  <2>7. CASE b.kind = "payload"
    <3>1. channel' = Append(channel, b.data)
      BY <1>1, <1>4, <2>2, <2>7
    <3>2. /\ Len(channel') = m + 1 /\ channel'[m + 1] = b.data
          /\ \A i \in 1 .. m : channel'[i] = channel[i]
      BY <1>4, <1>5, <2>7, <3>1, AppendProperties DEF m
    <3>3. e[1] = Len(received.text) /\ e[m + 1] = w[1] /\ e[m + 2] = w[2]
      <4>1. 1 \in 1 .. m + 1 /\ m + 1 \in 1 .. m + 1
        BY <1>5
      <4>2. QED
        BY <2>1, <2>3, <4>1
    <3>4. ChannelCut(channel', response.text, e)
      <4> SUFFICES ASSUME NEW i \in 1 .. m + 1
                   PROVE  /\ e[i + 1] \in e[i] .. Len(response.text)
                          /\ channel'[i] = SubSeq(response.text, e[i] + 1, e[i + 1])
        BY <3>2 DEF ChannelCut
      <4>1. CASE i = m + 1
        <5>1. i + 1 = m + 2
          BY <1>5, <4>1
        <5>2. e[i] = w[1] /\ e[i + 1] = w[2] /\ channel'[i] = b.data
          BY <3>2, <3>3, <4>1, <5>1
        <5>3. QED
          BY <2>6, <2>7, <5>2
      <4>2. CASE i # m + 1
        <5>1. i \in 1 .. m /\ i \in 1 .. m + 1 /\ i + 1 \in 1 .. m + 1
          BY <1>5, <4>2
        <5>2. e[i] = c[i] /\ e[i + 1] = c[i + 1] /\ channel'[i] = channel[i]
          BY <2>3, <3>2, <5>1
        <5>3. QED
          BY <2>1, <5>1, <5>2 DEF ChannelCut, m
      <4>3. QED
        BY <4>1, <4>2
    <3>5. v[1] = e[Len(channel') + 1]
      <4>1. m + 1 + 1 = m + 2
        BY <1>5
      <4>2. QED
        BY <2>5, <3>2, <3>3, <4>1
    <3>6. QED
      BY <1>1, <2>3, <2>4, <2>5, <3>3, <3>4, <3>5 DEF InTransit
  <2>8. CASE b.kind # "payload"
    <3>1. channel' = channel /\ v[1] = c[m + 1]
      BY <1>1, <2>1, <2>5, <2>6, <2>8
    <3>2. QED
      BY <1>1, <2>1, <2>3, <2>4, <2>5, <3>1 DEF InTransit, m
  <2>9. QED
    BY <2>7, <2>8
<1>11. QED
  BY <1>6, <1>7, <1>8, <1>9, <1>10 DEF IInv

\* process_writer adds the next part of the response to its buffer.
LEMMA WriterCollectsKeeps ==
  ASSUME IInv, WriterCollects
  PROVE  IInv'
<1> DEFINE text == response.text
           m == Len(channel)
           got == received.text \o Head(channel)
<1>t. Typed
  BY DEF IInv
<1>1. /\ writer = "collect" /\ channel # <<>> /\ channel' = Tail(channel)
      /\ received' = [received EXCEPT !.text = got]
      /\ writer' = IF ResponseComplete(received') THEN "flush" ELSE "collect"
      /\ UNCHANGED <<response, sent, heartbeats, closed, wireBytes, onWire, recv, open>>
  BY DEF WriterCollects, cameraVars
<1>2. received' = [text |-> got, declared |-> response.declared] /\ received'.text = got
  <2>1. received = [text |-> received.text, declared |-> response.declared]
    BY <1>t DEF Typed
  <2> HIDE DEF got
  <2>2. QED
    BY <1>1, <2>1
<1>3. /\ channel \in Seq(Seq(Bytes)) /\ m \in Nat /\ m >= 1
      /\ Head(channel) = channel[1] /\ Head(channel) \in Seq(Bytes)
      /\ channel' \in Seq(Seq(Bytes))
      /\ Len(channel') = m - 1
      /\ \A i \in 1 .. m - 1 : channel'[i] = channel[i + 1]
  <2>1. channel \in Seq(Seq(Bytes)) /\ m \in Nat /\ m >= 1
    BY <1>1, <1>t, EmptySeq DEF Typed
  <2>2. /\ Head(channel) \in Seq(Bytes) /\ Tail(channel) \in Seq(Seq(Bytes))
        /\ Len(Tail(channel)) = m - 1
        /\ \A i \in 1 .. Len(Tail(channel)) : Tail(channel)[i] = channel[i + 1]
    BY <1>1, <2>1, HeadTailProperties
  <2>3. Head(channel) = channel[1]
    BY <2>1
  <2>4. QED
    BY <1>1, <2>1, <2>2, <2>3
<1>4. text \in Seq(Bytes) /\ Len(text) \in Nat /\ Len(received.text) \in Nat
  BY <1>t, LengthsAreNumbers
<1>5. PICK c \in [Nat -> Nat], w \in [Nat -> Nat] :
        /\ c[1] = Len(received.text)
        /\ ChannelCut(channel, text, c)
        /\ w[1] = c[m + 1]
        /\ WireCut(onWire, text, w)
        /\ w[Len(onWire) + 1] = sent
  BY <1>1 DEF IInv, InTransit
<1>6. /\ c[2] \in c[1] .. Len(text) /\ channel[1] = SubSeq(text, c[1] + 1, c[2])
      /\ c[1] \in Nat /\ c[2] \in Nat
  <2>1. 1 \in 1 .. m /\ 1 + 1 = 2
    BY <1>3
  <2>2. QED
    BY <1>5, <2>1 DEF ChannelCut
<1>7. got = SubSeq(text, 1, c[2])
  <2>1. received.text = SubSeq(text, 1, c[1]) /\ c[1] <= Len(text)
    BY <1>5 DEF IInv, BufferIsPrefix
  <2>2. /\ 1 \in 1 .. Len(text) + 1 /\ c[1] \in 1 - 1 .. Len(text)
        /\ c[2] \in c[1] .. Len(text)
    <3> HIDE DEF text
    <3>1. QED
      BY <1>4, <1>6, <2>1
  <2>3. SubSeq(text, 1, c[1]) \o SubSeq(text, c[1] + 1, c[2]) = SubSeq(text, 1, c[2])
    <3> HIDE DEF text
    <3>1. QED
      BY <1>4, <2>2, ConcatAdjacentSubSeq
  <2>4. QED
    BY <1>3, <1>6, <2>1, <2>3
<1>8. got \in Seq(Bytes) /\ Len(got) = c[2]
  <2>1. 1 \in 1 .. Len(text) + 1 /\ c[2] \in 0 .. Len(text)
    <3> HIDE DEF text
    <3>1. QED
      BY <1>4, <1>6
  <2>2. /\ SubSeq(text, 1, c[2]) \in Seq(Bytes)
        /\ Len(SubSeq(text, 1, c[2])) = IF 1 <= c[2] THEN c[2] - 1 + 1 ELSE 0
    <3> HIDE DEF text
    <3>1. QED
      BY <1>4, <2>1, PartOfText
  <2>3. Len(SubSeq(text, 1, c[2])) = c[2]
    <3> DEFINE k == c[2]
               len == Len(SubSeq(text, 1, k))
    <3>1. k \in Nat /\ len = IF 1 <= k THEN k - 1 + 1 ELSE 0
      BY <1>6, <2>2
    <3> HIDE DEF k, len
    <3>2. len = k
      BY <3>1
    <3>3. QED
      BY <3>2 DEF k, len
  <2>4. QED
    BY <1>7, <2>2, <2>3
<1> HIDE DEF got
<1>9. Typed'
  <2>1. /\ received'.text \in Seq(Bytes)
        /\ received' = [text |-> received'.text, declared |-> response'.declared]
    BY <1>1, <1>2, <1>8
  <2>2. writer' \in {"collect", "flush", "done"}
    BY <1>1
  <2>3. QED
    BY <1>1, <1>3, <1>t, <2>1, <2>2 DEF Typed
<1>10. WireCounted'
  BY <1>1 DEF IInv, WireCounted, CounterFollowsWire
<1>11. DiscIsLast'
  BY <1>1 DEF IInv, DiscIsLast
<1>12. BufferIsPrefix'
  <2>1. c[2] <= Len(text)
    <3> HIDE DEF text
    <3>1. QED
      BY <1>4, <1>6
  <2>2. QED
    BY <1>1, <1>2, <1>7, <1>8, <2>1 DEF BufferIsPrefix
<1>13. InTransit'
  <2> DEFINE e == [i \in Nat |-> c[i + 1]]
  <2>1. e \in [Nat -> Nat] /\ \A i \in Nat : e[i] = c[i + 1]
    OBVIOUS
  <2> HIDE DEF e
  <2>2. e[1] = Len(received'.text)
    <3>1. e[1] = c[1 + 1] /\ 1 + 1 = 2
      BY <2>1
    <3>2. QED
      BY <1>2, <1>8, <3>1
  <2>3. ChannelCut(channel', text, e)
    <3> SUFFICES ASSUME NEW i \in 1 .. m - 1
                 PROVE  /\ e[i + 1] \in e[i] .. Len(text)
                        /\ channel'[i] = SubSeq(text, e[i] + 1, e[i + 1])
      BY <1>3 DEF ChannelCut
    <3>1. i + 1 \in 1 .. m /\ i \in Nat /\ i + 1 \in Nat
      BY <1>3
    <3>2. e[i] = c[i + 1] /\ e[i + 1] = c[i + 1 + 1] /\ channel'[i] = channel[i + 1]
      BY <1>3, <2>1, <3>1
    <3>3. QED
      BY <1>5, <3>1, <3>2 DEF ChannelCut
  <2>4. w[1] = e[Len(channel') + 1]
    <3>1. Len(channel') + 1 = m /\ m \in Nat
      BY <1>3
    <3>2. QED
      BY <1>5, <2>1, <3>1
  <2>5. QED
    BY <1>1, <1>5, <2>1, <2>2, <2>3, <2>4 DEF InTransit
<1>14. FlushedIsAll'
  BY <1>1 DEF FlushedIsAll
<1>15. QED
  BY <1>9, <1>10, <1>11, <1>12, <1>13, <1>14 DEF IInv

\* The channel was closed by DISC, and everything before it has been collected.
LEMMA ChannelEndsKeeps ==
  ASSUME IInv, ChannelEnds
  PROVE  IInv'
<1>1. /\ writer = "collect" /\ channel = <<>> /\ ~open /\ writer' = "flush"
      /\ UNCHANGED <<response, sent, heartbeats, closed, wireBytes, onWire, recv, open,
                     channel, received>>
  BY DEF ChannelEnds, cameraVars
<1>2. closed /\ onWire = <<>>
  BY <1>1 DEF IInv, DiscIsLast
<1>3. Len(received.text) = sent
  <2>1. Len(channel) = 0 /\ Len(onWire) = 0 /\ 0 + 1 = 1
    BY <1>1, <1>2, EmptySeq
  <2>2. QED
    BY <1>1, <2>1 DEF IInv, InTransit
<1>4. Typed' /\ WireCounted' /\ DiscIsLast' /\ BufferIsPrefix'
  BY <1>1 DEF IInv, Typed, WireCounted, CounterFollowsWire, DiscIsLast, BufferIsPrefix
<1>5. InTransit' /\ FlushedIsAll'
  BY <1>1, <1>2, <1>3 DEF InTransit, FlushedIsAll
<1>6. QED
  BY <1>4, <1>5 DEF IInv

\* The response is written as it was collected.
LEMMA WriterFlushesKeeps ==
  ASSUME IInv, WriterFlushes
  PROVE  IInv'
<1>1. /\ writer = "flush" /\ writer' = "done" /\ open' = FALSE /\ channel' = <<>>
      /\ UNCHANGED <<response, sent, heartbeats, closed, wireBytes, onWire, recv, received>>
  BY DEF WriterFlushes, cameraVars
<1>2. channel' \in Seq(Seq(Bytes)) /\ open' \in BOOLEAN
  BY <1>1, EmptySeq
<1>3. Typed'
  BY <1>1, <1>2 DEF IInv, Typed
<1>4. WireCounted' /\ DiscIsLast' /\ BufferIsPrefix'
  BY <1>1 DEF IInv, WireCounted, CounterFollowsWire, DiscIsLast, BufferIsPrefix
<1>5. InTransit' /\ FlushedIsAll'
  BY <1>1 DEF IInv, InTransit, FlushedIsAll
<1>6. QED
  BY <1>3, <1>4, <1>5 DEF IInv

\* The inductive invariant is inductive.
LEMMA StepKeeps == IInv /\ [Next]_vars => IInv'
<1> SUFFICES ASSUME IInv, [Next]_vars PROVE IInv'
  OBVIOUS
<1>1. CASE UNCHANGED vars
  <2>1. UNCHANGED <<response, sent, heartbeats, closed, wireBytes, onWire, recv, open, channel,
                    received, writer>>
    BY <1>1 DEF vars, cameraVars, writerVars
  <2>2. Typed' /\ WireCounted' /\ DiscIsLast' /\ BufferIsPrefix'
    BY <2>1 DEF IInv, Typed, WireCounted, CounterFollowsWire, DiscIsLast, BufferIsPrefix
  <2>3. InTransit' /\ FlushedIsAll'
    BY <2>1 DEF IInv, InTransit, FlushedIsAll
  <2>4. QED
    BY <2>2, <2>3 DEF IInv
<1>2. CASE Next
  BY <1>2, CameraKeeps, ReaderDeliversKeeps, WriterCollectsKeeps, ChannelEndsKeeps,
     WriterFlushesKeeps
  DEF Next
<1>3. QED
  BY <1>1, <1>2

\* The inductive invariant is an invariant.
LEMMA Invariance == Spec => []IInv
BY InitHolds, StepKeeps, PTL DEF Spec

-----------------------------------------------------------------------------
(* The theorems. *)

\* Counters, datagrams, channel and buffer keep their types: however the camera
\* cuts its responses, the writer's buffer is a text of bytes.
THEOREM TypeCorrect == Spec => []TypeOK
<1>1. IInv => TypeOK
  <2> SUFFICES ASSUME IInv PROVE TypeOK
    OBVIOUS
  <2>1. Typed /\ WireCounted
    BY DEF IInv
  <2>2. ASSUME NEW i \in DOMAIN onWire
        PROVE  /\ onWire[i].at \in 0 .. wireBytes
               /\ onWire[i].body.size \in Nat
               /\ onWire[i].body.type \in 0 .. 255
    <3>1. i \in 1 .. Len(onWire) /\ onWire[i] \in Datagram
      BY <2>1, LengthsAreNumbers
    <3>2. /\ onWire[i].at \in Nat
          /\ onWire[i].body.size \in Nat
          /\ onWire[i].body.type \in 0 .. 255
      BY <3>1, DatagramArrives
    <3>3. onWire[i].at <= wireBytes /\ wireBytes \in Nat
      BY <2>1, <3>1 DEF WireCounted, Typed
    <3>4. QED
      BY <3>2, <3>3
  <2>3. recv \in 0 .. wireBytes
    <3>1. CASE onWire = <<>>
      BY <2>1, <3>1 DEF WireCounted, CounterFollowsWire, Typed
    <3>2. CASE onWire # <<>>
      <4>1. Head(onWire) = onWire[1] /\ 1 \in DOMAIN onWire
        BY <2>1, <3>2, RestOfWire, LengthsAreNumbers
      <4>2. recv = onWire[1].at
        BY <2>1, <3>2, <4>1 DEF WireCounted, CounterFollowsWire
      <4>3. QED
        BY <2>2, <4>1, <4>2
    <3>3. QED
      BY <3>1, <3>2
  <2>4. \A i \in DOMAIN channel : channel[i] \in Seq(Bytes)
    BY <2>1, LengthsAreNumbers
  <2>5. QED
    BY <2>1, <2>2, <2>3, <2>4 DEF TypeOK, Typed
<1>2. QED
  BY <1>1, Invariance, PTL

\* The session's byte counter is the place of the next datagram in the camera's
\* stream of bytes, whatever bodies it is made of (dh_reader, PTCPBody::len).
THEOREM CounterStaysInStep == Spec => []CounterFollowsWire
<1>1. IInv => CounterFollowsWire
  BY DEF IInv, WireCounted
<1>2. QED
  BY <1>1, Invariance, PTL

\* Whatever the camera answers and wherever it is cut off, what is written with
\* a header declares the length of its body (rewrite_http_response and
\* normalize_no_profile_delete_response).
THEOREM LengthIsDeclared == Spec => []LengthMatchesBody
<1>1. IInv => LengthMatchesBody
  <2> SUFFICES ASSUME IInv PROVE LengthFits(Output)
    BY DEF LengthMatchesBody, LengthFits
  <2>1. CASE writer = "done" /\ received.text # <<>>
    <3>1. /\ received.text \in Seq(Bytes)
          /\ received = [text |-> received.text, declared |-> response.declared]
      BY DEF IInv, Typed
    <3>2. LengthFits(RewriteResponse(received))
      BY <3>1, RewrittenFits
    <3>3. QED
      BY <2>1, <3>2, NormalizedFits DEF Output
  <2>2. CASE ~(writer = "done" /\ received.text # <<>>)
    <3>1. Output.text = <<>>
      BY <2>2 DEF Output
    <3>2. ~HasHeader(<<>>)
      <4>1. <<>> \in Seq({}) /\ "blank" \notin {}
        BY EmptySeq
      <4>2. QED
        BY <4>1, NoEmptyLine
    <3>3. QED
      BY <3>1, <3>2 DEF LengthFits
  <2>3. QED
    BY <2>1, <2>2
<1>2. QED
  BY <1>1, Invariance, PTL

\* A part of a response with an empty line has the header of the whole.
LEMMA PrefixHasHeader ==
  ASSUME NEW T, NEW text \in Seq(T), NEW k \in 0 .. Len(text),
         HasHeader(SubSeq(text, 1, k))
  PROVE  /\ HasHeader(text)
         /\ HeaderEnd(SubSeq(text, 1, k)) = HeaderEnd(text)
         /\ Header(SubSeq(text, 1, k)) = Header(text)
<1> DEFINE part == SubSeq(text, 1, k)
           p == HeaderEnd(part)
           h == HeaderEnd(text)
<1>1. /\ part \in Seq(T) /\ Len(part) = k /\ k \in Nat /\ Len(text) \in Nat /\ k <= Len(text)
      /\ \A i \in 1 .. k : part[i] = text[i]
  <2>1. Len(text) \in Nat /\ 1 \in 1 .. Len(text) + 1
    BY LenProperties
  <2>2. /\ part \in Seq(T)
        /\ Len(part) = IF 1 <= k THEN k - 1 + 1 ELSE 0
        /\ \A i \in 1 .. k - 1 + 1 : part[i] = text[1 + i - 1]
    BY <2>1, PartOfText
  <2> HIDE DEF part
  <2>3. QED
    BY <2>1, <2>2
<1> HIDE DEF part
<1>2. /\ p \in 1 .. k + 1 /\ p <= k /\ part[p] = "blank"
      /\ Header(part) \in Seq(T) /\ Len(Header(part)) = p - 1
      /\ \A i \in 1 .. p - 1 : Header(part)[i] = part[i] /\ part[i] # "blank"
  <2>1. HasHeader(part)
    BY DEF part
  <2>2. QED
    BY <1>1, <2>1, HeaderOfText DEF HasHeader
<1>3. /\ h \in 1 .. Len(text) + 1
      /\ Header(text) \in Seq(T) /\ Len(Header(text)) = h - 1
      /\ \A i \in 1 .. h - 1 : Header(text)[i] = text[i] /\ text[i] # "blank"
      /\ HasHeader(text) => text[h] = "blank"
  BY HeaderOfText
<1> HIDE DEF p, h
<1>4. text[p] = "blank" /\ ~(p \in 1 .. h - 1)
  BY <1>1, <1>2, <1>3
<1>5. h <= p
  BY <1>1, <1>2, <1>3, <1>4
<1>6. HasHeader(text) /\ text[h] = "blank"
  <2>1. h <= Len(text)
    BY <1>1, <1>2, <1>3, <1>5
  <2>2. QED
    BY <1>3, <2>1 DEF HasHeader, h
<1>7. p = h
  <2>1. ~(h \in 1 .. p - 1)
    <3>1. h \in 1 .. p - 1 => h \in 1 .. k
      BY <1>1, <1>2
    <3>2. QED
      BY <1>1, <1>2, <1>6, <3>1
  <2>2. QED
    BY <1>1, <1>2, <1>3, <1>5, <2>1
<1>8. Header(part) = Header(text)
  <2>1. \A i \in 1 .. p - 1 : i \in 1 .. k
    BY <1>1, <1>2
  <2>2. \A i \in 1 .. p - 1 : Header(part)[i] = Header(text)[i]
    BY <1>1, <1>2, <1>3, <1>7, <2>1
  <2>3. QED
    BY <1>2, <1>3, <1>7, <2>2, SeqEqual
<1>9. QED
  BY <1>6, <1>7, <1>8 DEF part, p, h

\* No URL of a text leads to the camera.
AddressFree(text) ==
  \A i \in DOMAIN text, scheme \in Schemes :
    UrlAt(text, i, scheme) => Lacks(AuthorityAt(text, i), Addresses)

\* A text without a prefix has no URL.
LEMMA NoUrlsAreFree ==
  ASSUME NEW T, NEW text \in Seq(T), Lacks(text, Schemes)
  PROVE  AddressFree(text)
<1> SUFFICES ASSUME NEW i \in DOMAIN text, NEW scheme \in Schemes, UrlAt(text, i, scheme)
             PROVE  FALSE
  BY DEF AddressFree
<1>1. i \in Nat \ {0}
  BY LenProperties
<1>2. \A s \in Seq(T) : UrlAt(s, i, scheme) => s[i] = scheme
  BY <1>1, UrlTokens
<1>3. QED
  BY <1>2 DEF Lacks

\* The response put in for a missing profile has none.
LEMMA NormalizedIsFree ==
  ASSUME NEW m, AddressFree(m.text)
  PROVE  AddressFree(NormalizeNoProfile(m).text)
<1> DEFINE text == <<"status", "line", "line", "length", "blank", "deleted">>
           T == {"status", "line", "length", "blank", "deleted"}
<1>1. text \in Seq(T)
  OBVIOUS
<1>2. \A t \in T : t \notin Schemes
  BY DEF Schemes
<1> HIDE DEF text, T
<1>3. Lacks(text, Schemes)
  BY <1>1, <1>2, ElementOfSeq, LenProperties DEF Lacks
<1>4. AddressFree(text)
  BY <1>1, <1>3, NoUrlsAreFree
<1>5. QED
  BY <1>4 DEF NormalizeNoProfile, text

\* A header without URLs before a body whose URLs are clean.
LEMMA HeaderAndBodyAreFree ==
  ASSUME NEW T, NEW s \in Seq(T), NEW t \in Seq(T), Lacks(s, Schemes),
         \A scheme \in Schemes : UrlsIn(t, scheme, Cleaned(T))
  PROVE  AddressFree(s \o t)
<1> SUFFICES ASSUME NEW i \in DOMAIN (s \o t), NEW scheme \in Schemes,
                    UrlAt(s \o t, i, scheme)
             PROVE  Lacks(AuthorityAt(s \o t, i), Addresses)
  BY DEF AddressFree
<1>1. /\ s \o t \in Seq(T)
      /\ Len(s) \in Nat /\ Len(t) \in Nat /\ Len(s \o t) = Len(s) + Len(t)
      /\ \A j \in 1 .. Len(s) : (s \o t)[j] = s[j]
  BY PutBehind
<1>2. i \in 1 .. Len(s) + Len(t) /\ i \in Nat \ {0} /\ DOMAIN s = 1 .. Len(s)
  BY <1>1, LenProperties
<1>3. ~(i <= Len(s))
  <2> SUFFICES ASSUME i <= Len(s) PROVE FALSE
    OBVIOUS
  <2>1. i \in 1 .. Len(s)
    BY <1>2
  <2>2. (s \o t)[i] = s[i] /\ s[i] \notin Schemes
    BY <1>1, <1>2, <2>1 DEF Lacks
  <2>3. \A text \in Seq(T) : UrlAt(text, i, scheme) => text[i] = scheme
    BY <1>2, UrlTokens
  <2>4. QED
    BY <1>1, <2>2, <2>3
<1>4. PICK k \in Nat \ {0} : i = Len(s) + k
  <2>1. Len(s) \in Nat /\ i \in Nat /\ ~(i <= Len(s))
    BY <1>1, <1>2, <1>3
  <2>2. i - Len(s) \in Nat \ {0} /\ i = Len(s) + (i - Len(s))
    BY <2>1
  <2>3. QED
    BY <2>2
<1>5. UrlAt(s \o t, Len(s) + k, scheme)
  BY <1>4
<1>6. /\ k \in DOMAIN t /\ UrlAt(t, k, scheme)
      /\ AuthorityAt(s \o t, Len(s) + k) = AuthorityAt(t, k)
  BY <1>5, UrlBehind
<1>7. AuthorityAt(t, k) \in Cleaned(T)
  BY <1>6 DEF UrlsIn
<1>8. QED
  BY <1>4, <1>6, <1>7 DEF Cleaned

\* What rewrite_http_response makes of a message has no camera address, if the
\* URLs of its body are plain and its header has none.
LEMMA RewrittenIsFree ==
  ASSUME NEW T, Bytes \cup OwnTokens \cup {"length", "blank"} \subseteq T,
         NEW text \in Seq(Bytes), NEW declared,
         NEW m, m = [text |-> text, declared |-> declared],
         \A scheme \in Schemes : UrlsIn(text, scheme, PlainIn(T)),
         HasHeader(text) => Lacks(Header(text), Schemes)
  PROVE  AddressFree(RewriteResponse(m).text)
<1> DEFINE header == Header(text)
           lines == [i \in DOMAIN header |->
                       IF header[i] = "badlength" THEN "length" ELSE header[i]]
           added == IF "length" \in {lines[i] : i \in DOMAIN lines} THEN <<>> ELSE <<"length">>
           body == ReplaceUrlAuthorities(Body(text))
<1>1. m.text = text /\ text \in Seq(T) /\ OwnTokens \subseteq T
  BY SeqMonotonic
<1>2. CASE ~HasHeader(text)
  <2> DEFINE out == ReplaceUrlAuthorities(text)
  <2>1. \A scheme \in Schemes : UrlsIn(out, scheme, Cleaned(T))
    BY <1>1, ReplacedUrls
  <2>2. AddressFree(out)
    BY <2>1 DEF AddressFree, UrlsIn, Cleaned
  <2>3. [m EXCEPT !.text = ReplaceUrlAuthorities(@)].text = out
    OBVIOUS
  <2>4. RewriteResponse(m) = NormalizeNoProfile([m EXCEPT !.text = ReplaceUrlAuthorities(@)])
    BY <1>1, <1>2 DEF RewriteResponse
  <2>5. QED
    BY <2>2, <2>3, <2>4, NormalizedIsFree
<1>3. CASE HasHeader(text)
  <2>1. RewriteResponse(m).text = lines \o added \o <<"blank">> \o body
    BY <1>1, <1>3 DEF RewriteResponse
  <2>2. /\ header \in Seq(T) /\ Len(header) \in Nat /\ DOMAIN header = 1 .. Len(header)
        /\ \A i \in 1 .. Len(header) : header[i] \in T /\ header[i] \notin Schemes
    <3>1. header \in Seq(T)
      BY <1>1, HeaderOfText
    <3> HIDE DEF header
    <3>2. /\ Len(header) \in Nat /\ DOMAIN header = 1 .. Len(header)
          /\ \A i \in 1 .. Len(header) : header[i] \in T
      BY <3>1, LenProperties, ElementOfSeq
    <3>3. QED
      BY <1>3, <3>1, <3>2 DEF Lacks, header
  <2> DEFINE U == T \ Schemes
  <2>3. "length" \in U /\ "blank" \in U
    BY DEF Schemes
  <2>4. lines \in Seq(U)
    <3>1. lines \in [1 .. Len(header) -> U]
      BY <2>2, <2>3
    <3> HIDE DEF U, lines, header
    <3>2. QED
      BY <2>2, <3>1, SeqDef
  <2>5. added \in Seq(U)
    <3>1. <<>> \in Seq(U) /\ <<"length">> \in Seq(U)
      BY <2>3
    <3> HIDE DEF lines, U
    <3>2. QED
      BY <3>1
  <2> DEFINE front == lines \o added \o <<"blank">>
  <2>6. front \in Seq(U)
    <3>1. <<"blank">> \in Seq(U)
      BY <2>3
    <3> HIDE DEF lines, added, U
    <3>2. lines \o added \in Seq(U)
      BY <2>4, <2>5, ConcatProperties
    <3>3. QED
      BY <3>1, <3>2, ConcatProperties
  <2> HIDE DEF lines, added
  <2>7. front \in Seq(T) /\ Lacks(front, Schemes)
    <3> HIDE DEF front
    <3>1. front \in Seq(T)
      BY <2>6, SeqMonotonic
    <3>2. \A i \in DOMAIN front : front[i] \in U
      BY <2>6, ElementOfSeq, LenProperties
    <3>3. QED
      BY <3>1, <3>2 DEF Lacks
  <2> HIDE DEF front
  <2>8. Body(text) \in Seq(T) /\ StandsIn(Body(text), text, HeaderEnd(text))
    <3> DEFINE h == HeaderEnd(text)
    <3>1. h \in 1 .. Len(text) + 1 /\ Len(text) \in Nat /\ h <= Len(text)
      BY <1>1, <1>3, HeaderOfText, LenProperties DEF HasHeader
    <3>2. Body(text) = SubSeq(text, h + 1, Len(text))
      BY DEF Body
    <3> HIDE DEF h
    <3>3. h \in Nat /\ h + 1 \in 1 .. Len(text) + 1 /\ Len(text) \in 0 .. Len(text)
          /\ Len(text) - (h + 1) + 1 = Len(text) - h
      BY <3>1
    <3>4. /\ Body(text) \in Seq(T)
          /\ Len(Body(text)) = IF h + 1 <= Len(text) THEN Len(text) - (h + 1) + 1 ELSE 0
          /\ \A j \in 1 .. Len(text) - (h + 1) + 1 : Body(text)[j] = text[h + 1 + j - 1]
      BY <1>1, <3>2, <3>3, PartOfText
    <3>5. Len(Body(text)) = Len(text) - h
      <4>1. CASE h + 1 <= Len(text)
        BY <3>3, <3>4, <4>1
      <4>2. CASE ~(h + 1 <= Len(text))
        <5>1. h \in Nat /\ Len(text) \in Nat /\ h <= Len(text)
          BY <3>1, <3>3
        <5>2. h = Len(text) /\ Len(text) - h = 0
          BY <4>2, <5>1
        <5>3. QED
          BY <3>4, <4>2, <5>2
      <4>3. QED
        BY <4>1, <4>2
    <3>6. \A j \in 1 .. Len(Body(text)) : Body(text)[j] = text[h + j]
      <4> SUFFICES ASSUME NEW j \in 1 .. Len(Body(text)) PROVE Body(text)[j] = text[h + j]
        OBVIOUS
      <4>1. j \in 1 .. Len(text) - (h + 1) + 1 /\ h + 1 + j - 1 = h + j
        BY <3>1, <3>3, <3>5
      <4>2. QED
        BY <3>4, <4>1
    <3>7. h + Len(Body(text)) <= Len(text)
      BY <3>1, <3>3, <3>5
    <3>8. QED
      BY <3>3, <3>4, <3>6, <3>7 DEF StandsIn, h
  <2>9. body \in Seq(T) /\ \A scheme \in Schemes : UrlsIn(body, scheme, Cleaned(T))
    <3>1. \A scheme \in Schemes : UrlsIn(Body(text), scheme, PlainIn(T))
      <4> SUFFICES ASSUME NEW scheme \in Schemes PROVE UrlsIn(Body(text), scheme, PlainIn(T))
        OBVIOUS
      <4>1. UrlsIn(text, scheme, PlainIn(T))
        OBVIOUS
      <4>2. QED
        BY <1>1, <2>8, <4>1, PartIsPlain
    <3>2. QED
      BY <1>1, <2>8, <3>1, ReplacedUrls
  <2> HIDE DEF body
  <2>10. AddressFree(front \o body)
    BY <2>7, <2>9, HeaderAndBodyAreFree
  <2>11. QED
    BY <2>1, <2>10 DEF front
<1>4. QED
  BY <1>2, <1>3

\* Wherever the camera cuts its response and breaks it off, no URL of what the
\* client gets leads to the camera's address, if the camera's URLs are plain and
\* stand in bodies (replace_url_authorities, rewrite_http_response).
THEOREM AddressesAreReplaced == ASSUME PlainUrls PROVE Spec => []NoCameraAddress
<1>1. IInv => NoCameraAddress
  <2> SUFFICES ASSUME IInv PROVE AddressFree(Output.text)
    BY DEF NoCameraAddress, AddressFree
  <2>1. CASE writer = "done" /\ received.text # <<>>
    <3> DEFINE T == Bytes \cup OwnTokens \cup {"length", "blank"}
               text == response.text
               part == received.text
    <3>1. /\ part \in Seq(Bytes) /\ response \in Responses
          /\ received = [text |-> part, declared |-> response.declared]
      BY DEF IInv, Typed
    <3>2. text \in Seq(Bytes) /\ Len(text) \in Nat /\ Len(part) \in Nat
      BY LengthsAreNumbers DEF IInv
    <3>3. Len(part) <= Len(text) /\ part = SubSeq(text, 1, Len(part))
      BY DEF IInv, BufferIsPrefix
    <3>4. /\ Lacks(Header(text), Schemes)
          /\ \A i \in DOMAIN text, scheme \in Schemes :
               UrlAt(text, i, scheme) => IsPlain(AuthorityAt(text, i))
      BY <3>1 DEF PlainUrls
    <3> HIDE DEF text, part
    <3>5. part \in Seq(T) /\ text \in Seq(T)
      BY <3>1, <3>2, SeqMonotonic
    <3> HIDE DEF T
    <3>6. StandsIn(part, text, 0)
      <4>1. 1 \in 1 .. Len(text) + 1 /\ Len(part) \in 0 .. Len(text)
        BY <3>2, <3>3
      <4>2. \A i \in 1 .. Len(part) - 1 + 1 : SubSeq(text, 1, Len(part))[i] = text[1 + i - 1]
        BY <3>2, <4>1, PartOfText
      <4>3. \A i \in 1 .. Len(part) : part[i] = text[0 + i]
        <5> SUFFICES ASSUME NEW i \in 1 .. Len(part) PROVE part[i] = text[0 + i]
          OBVIOUS
        <5>1. i \in 1 .. Len(part) - 1 + 1 /\ 1 + i - 1 = 0 + i
          BY <3>2
        <5>2. SubSeq(text, 1, Len(part))[i] = text[0 + i]
          BY <4>2, <5>1
        <5>3. QED
          BY <3>3, <5>2
      <4>4. 0 \in Nat /\ 0 + Len(part) <= Len(text)
        BY <3>2, <3>3
      <4>5. QED
        BY <4>3, <4>4 DEF StandsIn
    <3>7. \A scheme \in Schemes : UrlsIn(part, scheme, PlainIn(T))
      <4> SUFFICES ASSUME NEW scheme \in Schemes PROVE UrlsIn(part, scheme, PlainIn(T))
        OBVIOUS
      <4>1. UrlsIn(text, scheme, PlainIn(T))
        <5> SUFFICES ASSUME NEW i \in DOMAIN text, UrlAt(text, i, scheme)
                     PROVE  AuthorityAt(text, i) \in PlainIn(T)
          BY DEF UrlsIn
        <5>1. i \in Nat \ {0} /\ i + 3 <= Len(text)
          BY <3>5, LenProperties DEF UrlAt
        <5>2. AuthorityAt(text, i) \in Seq(T)
          BY <3>5, <5>1, AuthorityTokens
        <5>3. QED
          BY <3>4, <5>2 DEF PlainIn
      <4>2. QED
        BY <3>5, <3>6, <4>1, PartIsPlain
    <3>8. HasHeader(part) => Lacks(Header(part), Schemes)
      <4> SUFFICES ASSUME HasHeader(part) PROVE Lacks(Header(part), Schemes)
        OBVIOUS
      <4> DEFINE k == Len(part)
      <4>1. k \in 0 .. Len(text) /\ part = SubSeq(text, 1, k)
        BY <3>2, <3>3
      <4> HIDE DEF k
      <4>2. HasHeader(SubSeq(text, 1, k))
        BY <4>1
      <4>3. Header(SubSeq(text, 1, k)) = Header(text)
        BY <3>2, <4>1, <4>2, PrefixHasHeader
      <4>4. QED
        BY <3>4, <4>1, <4>3
    <3>9. AddressFree(RewriteResponse(received).text)
      <4>1. Bytes \cup OwnTokens \cup {"length", "blank"} \subseteq T
        BY DEF T
      <4>2. QED
        BY <3>1, <3>7, <3>8, <4>1, RewrittenIsFree
    <3>10. QED
      BY <2>1, <3>9, NormalizedIsFree DEF Output
  <2>2. CASE ~(writer = "done" /\ received.text # <<>>)
    <3>1. Output.text = <<>>
      BY <2>2 DEF Output
    <3>2. <<>> \in Seq({}) /\ Lacks(<<>>, Schemes)
      BY EmptySeq DEF Lacks
    <3>3. QED
      BY <3>1, <3>2, NoUrlsAreFree
  <2>3. QED
    BY <2>1, <2>2
<1>2. QED
  BY <1>1, Invariance, PTL

\* process_writer has collected the whole of the camera's response.
WholeResponse == received = [text |-> response.text, declared |-> response.declared]

\* A response with a correct Content-Length that the camera has sent to its end
\* is collected to its last byte before it is written: http_response_complete is
\* not fooled by any cut, and a DISC right behind it takes nothing away.
THEOREM FramedIsCollected ==
  Spec => [](writer = "done" /\ Framed /\ sent = Len(response.text) => WholeResponse)
<1>1. IInv => (writer = "done" /\ Framed /\ sent = Len(response.text) => WholeResponse)
  <2> SUFFICES ASSUME IInv, writer = "done", Framed, sent = Len(response.text)
               PROVE  WholeResponse
    OBVIOUS
  <2> DEFINE text == response.text
             k == Len(received.text)
  <2>1. /\ Typed /\ text \in Seq(Bytes) /\ Len(text) \in Nat /\ k \in Nat
        /\ received.text \in Seq(Bytes)
    BY LengthsAreNumbers DEF IInv, Typed
  <2>2. k <= Len(text) /\ received.text = SubSeq(text, 1, k)
    BY DEF IInv, BufferIsPrefix
  <2>3. received = [text |-> received.text, declared |-> response.declared]
    BY DEF IInv, Typed
  <2>4. k = Len(text)
    <3>1. CASE closed /\ Len(received.text) = sent
      BY <3>1
    <3>2. CASE ResponseComplete(received)
      <4>1. HasHeader(received.text)
        BY <3>2 DEF ResponseComplete
      <4>2. k \in 0 .. Len(text)
        BY <2>1, <2>2
      <4>3. /\ HasHeader(text) /\ HeaderEnd(received.text) = HeaderEnd(text)
            /\ Header(received.text) = Header(text)
        <5> HIDE DEF text, k
        <5>1. QED
          BY <2>1, <2>2, <4>1, <4>2, PrefixHasHeader
      <4>4. Declares(received.text, "length")
        BY <4>3 DEF Framed, Declares
      <4>5. Len(Body(received.text)) >= Len(Body(text))
        <5>1. received.declared = response.declared
          BY <2>3
        <5>2. QED
          BY <3>2, <4>4, <5>1 DEF ResponseComplete, Framed
      <4>6. /\ Len(Body(received.text)) = k - HeaderEnd(text)
            /\ Len(Body(text)) = Len(text) - HeaderEnd(text)
            /\ HeaderEnd(text) \in 1 .. Len(text) + 1
        BY <2>1, <4>1, <4>3, HeaderOfText
      <4> HIDE DEF text, k
      <4>7. QED
        BY <2>1, <2>2, <4>5, <4>6
    <3>3. QED
      BY <3>1, <3>2 DEF IInv, FlushedIsAll
  <2>5. received.text = text
    <3> HIDE DEF text, k
    <3>1. QED
      BY <2>1, <2>2, <2>4, SubSeqFull
  <2>6. QED
    BY <2>3, <2>5 DEF WholeResponse
<1>2. QED
  BY <1>1, Invariance, PTL

\* The client gets what it would get had the response come in one piece, however
\* it was cut, and whatever came between its parts and behind it.
THEOREM CutsDoNotMatter ==
  ASSUME ExpectedInOnePiece
  PROVE  Spec => []FramedArrivesWhole
<1>1. Typed /\ (writer = "done" /\ Framed /\ sent = Len(response.text) => WholeResponse)
        => FramedArrivesWhole
  <2> SUFFICES ASSUME Typed, WholeResponse, writer = "done", Framed
               PROVE  Output.text = response.expected
    BY DEF FramedArrivesWhole
  <2>1. received.text = response.text /\ response \in Responses
    BY DEF WholeResponse, Typed
  <2>2. received.text # <<>>
    <3>1. HasHeader(received.text) /\ "blank" \notin {} /\ <<>> \in Seq({})
      BY <2>1, EmptySeq DEF Framed
    <3>2. QED
      BY <3>1, NoEmptyLine
  <2>3. Output = NormalizeNoProfile(RewriteResponse(received))
    BY <2>2 DEF Output
  <2>4. QED
    BY <2>1, <2>3 DEF ExpectedInOnePiece, Framed, WholeResponse
<1>2. IInv => Typed
  BY DEF IInv
<1>3. QED
  BY <1>1, <1>2, Invariance, FramedIsCollected, PTL
=============================================================================
