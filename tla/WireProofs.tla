----------------------------- MODULE WireProofs -----------------------------
(***************************************************************************)
(* Proofs about Wire: requests and mail are taken apart as they were put   *)
(* together.                                                               *)
(***************************************************************************)
EXTENDS Wire, TLAPS, SequenceTheorems, WellFoundedInduction

-----------------------------------------------------------------------------
(* Searching *)

\* The words of the protocol, and whatever applications write.
Protocol == {"sp", "nl", "nul", "nonce", "junk", "FROM", "LENGTH",
             "MESSAGE", "PUBLISH", "SUBSCRIBE", "DISCONNECT"}
Token    == Protocol \cup STRING
String   == Seq(Token)

\* The numbers that have numerals.
Sizes == Nat \cap DOMAIN Numeral

\* A token is found where it is first.
LEMMA FindIs ==
  ASSUME NEW s \in String, NEW w, NEW from \in Nat, NEW k \in from..Len(s),
         s[k] = w, \A j \in from..(k - 1) : s[j] # w
  PROVE  Find(s, w, from) = k
<1> DEFINE I == {i \in from..Len(s) : s[i] = w}
<1>1. k \in I /\ k \in Int /\ \A i \in I : k <= i /\ i \in Int
  BY DEF String
<1>2. Min(I) = k
  <2>1. \A x \in I : (\A y \in I : x =< y) => x = k
    BY <1>1
  <2>2. QED BY <1>1, <2>1 DEF Min
<1>3. SelectInSubSeq(s, from, Len(s), LAMBDA x : x = w) = k
  BY <1>1, <1>2 DEF SelectInSubSeq
<1>4. QED BY <1>3 DEF Find

\* Where it is not, the result is that for npos.
LEMMA FindNone ==
  ASSUME NEW s, NEW w, NEW from, \A i \in from..Len(s) : s[i] # w
  PROVE  Find(s, w, from) = 0
BY DEF Find, SelectInSubSeq

\* A token that is somewhere is somewhere first.
LEMMA FindFirst ==
  ASSUME NEW s \in String, NEW w, Contains(s, w)
  PROVE  /\ Find(s, w, 1) \in 1..Len(s) /\ s[Find(s, w, 1)] = w
         /\ \A j \in 1..(Find(s, w, 1) - 1) : s[j] # w
<1> DEFINE P == {i \in 1..Len(s) : s[i] = w}
<1>1. Len(s) \in Nat
  BY DEF String
<1>2. P \subseteq Nat /\ P # {}
  BY <1>1 DEF Contains
<1>3. PICK k \in P : \A y \in P : ~ (<<y, k>> \in OpToRel(<, Nat))
  BY <1>2, WFMin, NatLessThanWellFounded
<1>4. \A y \in P : ~ (y < k)
  BY <1>2, <1>3 DEF OpToRel
<1>5. \A j \in 1..(k - 1) : s[j] # w
  BY <1>1, <1>4
<1>6. Find(s, w, 1) = k
  BY <1>1, <1>5, FindIs
<1>7. QED BY <1>5, <1>6

\* What is left of a C string: all before the first zero.
LEMMA CStringIs ==
  ASSUME NEW s \in String
  PROVE  /\ CString(s) \in String /\ Len(CString(s)) <= Len(s)
         /\ \A i \in 1..Len(CString(s)) : CString(s)[i] = s[i]
         /\ \A k \in 0..Len(s) : (\A i \in 1..k : s[i] # "nul") => k <= Len(CString(s))
<1>1. Len(s) \in Nat /\ \A i \in 1..Len(s) : s[i] \in Token
  BY DEF String
<1>2. CASE ~ Contains(s, "nul")
  BY <1>1, <1>2 DEF CString
<1>3. CASE Contains(s, "nul")
  <2> DEFINE z == Find(s, "nul", 1)
  <2>1. z \in 1..Len(s) /\ s[z] = "nul"
    BY <1>3, FindFirst
  <2>2. CString(s) = SubSeq(s, 1, z - 1)
    BY <1>3 DEF CString
  <2> HIDE DEF z
  <2>3. /\ SubSeq(s, 1, z - 1) \in Seq(Token) /\ Len(SubSeq(s, 1, z - 1)) = z - 1
        /\ \A i \in 1..(z - 1) : SubSeq(s, 1, z - 1)[i] = s[i]
    BY <1>1, <2>1, SubSeqProperties
  <2>4. QED BY <1>1, <2>1, <2>2, <2>3 DEF String
<1>4. QED BY <1>2, <1>3

\* The number that comes first in a text, or behind blanks.
LEMMA StoiIs ==
  ASSUME NEW s \in String, NEW k \in 1..Len(s), \A j \in 1..(k - 1) : s[j] = "sp",
         NEW n \in Sizes, s[k] = Numeral[n]
  PROVE  Stoi(s) = n
<1>1. n \in DOMAIN Numeral
  BY DEF Sizes
<1>2. Numeral[n] \in Range(Numeral) /\ Numeral[n] \notin {"sp", "nl"}
  BY <1>1, NumeralAssumption DEF Range
<1>3. \A m \in DOMAIN Numeral : Numeral[m] = Numeral[n] <=> m = n
  BY <1>1, NumeralAssumption
<1>4. Value[Numeral[n]] = n
  BY <1>1, <1>2, <1>3 DEF Value, AntiFunction, Inverse
<1> DEFINE I == {i \in 1..Len(s) : s[i] \notin {"sp", "nl"}}
<1>5. k \in Nat \ {0} /\ k \in I /\ \A i \in I : k <= i /\ i \in Int
  BY <1>2 DEF String
<1>6. Min(I) = k
  <2>1. \A x \in I : (\A y \in I : x =< y) => x = k
    BY <1>5
  <2>2. QED BY <1>5, <2>1 DEF Min
<1>7. SelectInSeq(s, LAMBDA w : w \notin {"sp", "nl"}) = k
  BY <1>5, <1>6 DEF SelectInSeq
<1>8. QED BY <1>2, <1>4, <1>5, <1>7 DEF Stoi

-----------------------------------------------------------------------------
(* Putting texts together and taking them apart *)

\* What a text r is made of: t after s; a after s; w after <<a, b>>; w and then
\* a, b, c after s; the number n and a newline after s.
Join(s, t, r) ==
  /\ r \in String /\ Len(s) \in Nat /\ Len(t) \in Nat /\ Len(r) = Len(s) + Len(t)
  /\ \A i \in 1..Len(s) : r[i] = s[i]
  /\ \A i \in (Len(s) + 1)..(Len(s) + Len(t)) : r[i] = t[i - Len(s)]

Push(s, a, r) ==
  /\ r \in String /\ Len(s) \in Nat /\ Len(r) = Len(s) + 1
  /\ \A i \in 1..Len(s) : r[i] = s[i]
  /\ r[Len(s) + 1] = a

Open(a, b, w, r) ==
  /\ r \in String /\ Len(w) \in Nat /\ Len(r) = 2 + Len(w)
  /\ r[1] = a /\ r[2] = b
  /\ \A i \in 3..(2 + Len(w)) : r[i] = w[i - 2]

Insert(s, w, a, b, c, r) ==
  /\ r \in String /\ Len(s) \in Nat /\ Len(w) \in Nat /\ Len(r) = Len(s) + Len(w) + 3
  /\ \A i \in 1..Len(s) : r[i] = s[i]
  /\ \A i \in (Len(s) + 1)..(Len(s) + Len(w)) : r[i] = w[i - Len(s)]
  /\ r[Len(s) + Len(w) + 1] = a /\ r[Len(s) + Len(w) + 2] = b /\ r[Len(s) + Len(w) + 3] = c

Count(s, n, r) ==
  /\ r \in String /\ Len(s) \in Nat /\ Len(r) = Len(s) + 2
  /\ \A i \in 1..Len(s) : r[i] = s[i]
  /\ r[Len(s) + 1] = Numeral[n] /\ r[Len(s) + 2] = "nl"

\* The protocol's words and the numerals are tokens, and no numeral ends a word.
LEMMA Words == /\ Protocol \subseteq Token /\ \A n \in Sizes : n \in Nat /\ Numeral[n] \in Token
               /\ \A n \in Sizes : Numeral[n] \notin {"sp", "nl", "nul"}
BY NumeralAssumption DEF Token, Sizes

\* What the operators on sequences put together, token by token.
LEMMA Joined == \A s, t \in String : Join(s, t, s \o t)
BY ConcatProperties DEF String, Join

\* One more token.
LEMMA Pushed == \A s \in String, a \in Token : Push(s, a, s \o <<a>>)
BY DEF String, Push

\* A word behind two tokens.
LEMMA Opened == \A a, b \in Token, w \in String : Open(a, b, w, <<a, b>> \o w)
<1> SUFFICES ASSUME NEW a \in Token, NEW b \in Token, NEW w \in String
             PROVE  Open(a, b, w, <<a, b>> \o w)
  OBVIOUS
<1>1. /\ <<a, b>> \in String /\ Len(<<a, b>>) = 2
      /\ <<a, b>>[1] = a /\ <<a, b>>[2] = b
  BY DEF String
<1>2. Join(<<a, b>>, w, <<a, b>> \o w)
  BY <1>1, Joined
<1>3. QED BY <1>1, <1>2 DEF Join, Open

\* A word and three tokens at the end.
LEMMA Inserted ==
  \A s, w \in String, a, b, c \in Token : Insert(s, w, a, b, c, s \o w \o <<a, b, c>>)
<1> SUFFICES ASSUME NEW s \in String, NEW w \in String,
                    NEW a \in Token, NEW b \in Token, NEW c \in Token
             PROVE  Insert(s, w, a, b, c, s \o w \o <<a, b, c>>)
  OBVIOUS
<1>1. /\ <<a, b, c>> \in String /\ Len(<<a, b, c>>) = 3
      /\ <<a, b, c>>[1] = a /\ <<a, b, c>>[2] = b /\ <<a, b, c>>[3] = c
  BY DEF String
<1>2. Join(s, w, s \o w)
  BY Joined
<1>3. Join(s \o w, <<a, b, c>>, s \o w \o <<a, b, c>>)
  BY <1>1, <1>2, Joined DEF Join
<1>4. \A v, r : Join(s, w, v) /\ Join(v, <<a, b, c>>, r) => Insert(s, w, a, b, c, r)
  BY <1>1 DEF Join, Insert
<1>5. QED BY <1>2, <1>3, <1>4

\* A length and the line's end.
LEMMA Counted == \A s \in String, n \in Sizes : Count(s, n, s \o Num(n) \o <<"nl">>)
<1> SUFFICES ASSUME NEW s \in String, NEW n \in Sizes
             PROVE  Count(s, n, s \o Num(n) \o <<"nl">>)
  OBVIOUS
<1>1. Numeral[n] \in Token /\ "nl" \in Token
  BY Words DEF Protocol
<1>2. Push(s, Numeral[n], s \o Num(n))
  BY <1>1, Pushed DEF Num
<1>3. Push(s \o Num(n), "nl", s \o Num(n) \o <<"nl">>)
  BY <1>1, <1>2, Pushed DEF Push
<1>4. \A v, r : Push(s, Numeral[n], v) /\ Push(v, "nl", r) => Count(s, n, r)
  BY DEF Push, Count
<1>5. QED BY <1>2, <1>3, <1>4

\* A piece of a text.
LEMMA Piece ==
  ASSUME NEW s \in String, NEW m \in Nat \ {0}, NEW n \in Nat, n <= Len(s)
  PROVE  /\ SubSeq(s, m, n) \in String
         /\ Len(SubSeq(s, m, n)) = IF m <= n THEN n - m + 1 ELSE 0
         /\ \A i \in 1..(n - m + 1) : SubSeq(s, m, n)[i] = s[m + i - 1]
BY SubSeqProperties DEF String

\* Two texts are the same if their tokens are.
LEMMA Same ==
  ASSUME NEW s \in String, NEW t \in String, Len(s) = Len(t), \A i \in 1..Len(s) : s[i] = t[i]
  PROVE  s = t
BY SeqEqual DEF String

\* A text without blanks, newlines and zeros.
Word(w) == w \in String /\ \A i \in 1..Len(w) : w[i] \notin {"sp", "nl", "nul"}

\* A piece that was put in comes out.
LEMMA Between ==
  ASSUME NEW s \in String, NEW w \in String, NEW l \in Nat \ {0}, NEW n \in Nat,
         n = Len(w) + (l - 1), n <= Len(s), \A i \in l..n : s[i] = w[i - (l - 1)]
  PROVE  SubSeq(s, l, n) = w
<1> DEFINE t == SubSeq(s, l, n)
<1>1. Len(w) \in Nat /\ Len(s) \in Nat
  BY DEF String
<1>2. t \in String /\ Len(t) = Len(w) /\ \A i \in 1..Len(w) : t[i] = s[l + i - 1]
  BY <1>1, Piece
<1> HIDE DEF t
<1>3. ASSUME NEW i \in 1..Len(w) PROVE t[i] = w[i]
  <2>1. l + i - 1 \in l..n /\ (l + i - 1) - (l - 1) = i
    BY <1>1
  <2>2. QED BY <1>2, <2>1
<1>4. t = w
  BY <1>2, <1>3, Same
<1>5. QED BY <1>4 DEF t

\* The first word of a header comes out.
LEMMA FirstWord ==
  ASSUME NEW s \in String, NEW w \in String, 2 + Len(w) <= Len(s),
         \A i \in 3..(2 + Len(w)) : s[i] = w[i - 2]
  PROVE  SubSeq(s, 3, 2 + Len(w)) = w
<1>1. PICK l \in Nat \ {0}, n \in Nat : l = 3 /\ n = 2 + Len(w) /\ l - 1 = 2
  <2>1. Len(w) \in Nat
    BY DEF String
  <2>2. 3 \in Nat \ {0} /\ 2 + Len(w) \in Nat /\ 3 - 1 = 2
    BY <2>1
  <2>3. QED BY <2>2
<1>2. n = Len(w) + (l - 1) /\ n <= Len(s) /\ \A i \in l..n : s[i] = w[i - (l - 1)]
  BY <1>1 DEF String
<1>3. SubSeq(s, l, n) = w
  BY <1>2, Between
<1>4. QED BY <1>1, <1>3

-----------------------------------------------------------------------------
(* Requests *)

\* The tokens of the three kinds of requests, and where their header ends.
Publish(w, n, b, r) ==
  /\ r \in String /\ Len(r) = 5 + Len(w) + Len(b)
  /\ r[1] = "PUBLISH" /\ r[2] = "sp"
  /\ \A i \in 3..(2 + Len(w)) : r[i] = w[i - 2]
  /\ r[3 + Len(w)] = "sp" /\ r[4 + Len(w)] = Numeral[n] /\ r[5 + Len(w)] = "nl"
  /\ \A i \in (6 + Len(w))..(5 + Len(w) + Len(b)) : r[i] = b[i - (5 + Len(w))]

Subscribe(w, r) ==
  /\ r \in String /\ Len(r) = 3 + Len(w)
  /\ r[1] = "SUBSCRIBE" /\ r[2] = "sp"
  /\ \A i \in 3..(2 + Len(w)) : r[i] = w[i - 2]
  /\ r[3 + Len(w)] = "nl"

Disconnect(w, r) ==
  /\ r \in String /\ Len(r) = 5 + Len(w)
  /\ r[1] = "DISCONNECT" /\ r[2] = "sp"
  /\ \A i \in 3..(2 + Len(w)) : r[i] = w[i - 2]
  /\ r[3 + Len(w)] = "sp" /\ r[4 + Len(w)] = "nonce" /\ r[5 + Len(w)] = "nl"

\* GoodLine of a message.
LEMMA Published ==
  \A w, b \in String, n \in Sizes :
    Publish(w, n, b, <<"PUBLISH", "sp">> \o w \o <<"sp">> \o Num(n) \o <<"nl">> \o b)
<1> SUFFICES ASSUME NEW w \in String, NEW b \in String, NEW n \in Sizes
             PROVE  Publish(w, n, b, <<"PUBLISH", "sp">> \o w \o <<"sp">> \o Num(n) \o <<"nl">> \o b)
  OBVIOUS
<1>1. "PUBLISH" \in Token /\ "sp" \in Token
  BY Words DEF Protocol
<1> DEFINE s1 == <<"PUBLISH", "sp">> \o w
           s2 == s1 \o <<"sp">>
           s4 == s2 \o Num(n) \o <<"nl">>
<1>2. Open("PUBLISH", "sp", w, s1)
  BY <1>1, Opened
<1>3. s1 \in String
  BY <1>2 DEF Open
<1>4. Push(s1, "sp", s2)
  <2> HIDE DEF s1
  <2>1. QED BY <1>1, <1>3, Pushed
<1>5. s2 \in String
  BY <1>4 DEF Push
<1>6. Count(s2, n, s4)
  <2> HIDE DEF s2
  <2>1. QED BY <1>5, Counted
<1>7. s4 \in String
  BY <1>6 DEF Count
<1>8. Join(s4, b, s4 \o b)
  <2> HIDE DEF s4
  <2>1. QED BY <1>7, Joined
<1>9. \A t, t2 : Open("PUBLISH", "sp", w, t) /\ Push(t, "sp", t2) =>
        /\ Len(t2) = 3 + Len(w) /\ Len(w) \in Nat /\ t2[1] = "PUBLISH" /\ t2[2] = "sp" /\ t2[3 + Len(w)] = "sp"
        /\ \A i \in 3..(2 + Len(w)) : t2[i] = w[i - 2]
  BY DEF Open, Push
<1>10. ASSUME NEW t, NEW t2, NEW t4, NEW r,
              Open("PUBLISH", "sp", w, t), Push(t, "sp", t2), Count(t2, n, t4), Join(t4, b, r)
       PROVE  Publish(w, n, b, r)
  <2>1. /\ Len(t4) = 5 + Len(w) /\ Len(w) \in Nat
        /\ t4[1] = "PUBLISH" /\ t4[2] = "sp" /\ t4[3 + Len(w)] = "sp"
        /\ t4[4 + Len(w)] = Numeral[n] /\ t4[5 + Len(w)] = "nl"
        /\ \A i \in 3..(2 + Len(w)) : t4[i] = w[i - 2]
    BY <1>9, <1>10 DEF Count
  <2>2. /\ r \in String /\ Len(b) \in Nat /\ Len(r) = 5 + Len(w) + Len(b)
        /\ \A i \in 1..(5 + Len(w)) : r[i] = t4[i]
        /\ \A i \in (6 + Len(w))..(5 + Len(w) + Len(b)) : r[i] = b[i - (5 + Len(w))]
    BY <1>10, <2>1 DEF Join
  <2>3. QED BY <2>1, <2>2 DEF Publish
<1> HIDE DEF s1, s2, s4
<1>11. Publish(w, n, b, s4 \o b)
  BY <1>2, <1>4, <1>6, <1>8, <1>10
<1>12. QED BY <1>11 DEF s1, s2, s4

\* GoodLine of a subscription.
LEMMA Subscribed ==
  \A w \in String : Subscribe(w, <<"SUBSCRIBE", "sp">> \o w \o <<"nl">>)
<1> SUFFICES ASSUME NEW w \in String
             PROVE  Subscribe(w, <<"SUBSCRIBE", "sp">> \o w \o <<"nl">>)
  OBVIOUS
<1>1. "SUBSCRIBE" \in Token /\ "sp" \in Token /\ "nl" \in Token
  BY Words DEF Protocol
<1> DEFINE s == <<"SUBSCRIBE", "sp">> \o w
<1>2. Open("SUBSCRIBE", "sp", w, s)
  BY <1>1, Opened
<1>3. s \in String
  BY <1>2 DEF Open
<1> HIDE DEF s
<1>4. Push(s, "nl", s \o <<"nl">>)
  BY <1>1, <1>3, Pushed
<1>5. \A t, r : Open("SUBSCRIBE", "sp", w, t) /\ Push(t, "nl", r) => Subscribe(w, r)
  BY DEF Open, Push, Subscribe
<1>6. Subscribe(w, s \o <<"nl">>)
  BY <1>2, <1>4, <1>5
<1>7. QED BY <1>6 DEF s

\* GoodLine of DISCONNECT.
LEMMA Disconnected ==
  \A w \in String : Disconnect(w, <<"DISCONNECT", "sp">> \o w \o <<"sp", "nonce", "nl">>)
<1> SUFFICES ASSUME NEW w \in String
             PROVE  Disconnect(w, <<"DISCONNECT", "sp">> \o w \o <<"sp", "nonce", "nl">>)
  OBVIOUS
<1>1. "DISCONNECT" \in Token /\ "sp" \in Token /\ "nonce" \in Token /\ "nl" \in Token
  BY Words DEF Protocol
<1>2. /\ <<"DISCONNECT", "sp">> \in String /\ Len(<<"DISCONNECT", "sp">>) = 2
      /\ <<"DISCONNECT", "sp">>[1] = "DISCONNECT" /\ <<"DISCONNECT", "sp">>[2] = "sp"
  BY <1>1 DEF String
<1>3. PICK u : u = <<"DISCONNECT", "sp">>
  OBVIOUS
<1>4. Insert(u, w, "sp", "nonce", "nl", u \o w \o <<"sp", "nonce", "nl">>)
  BY <1>1, <1>2, <1>3, Inserted
<1>5. \A r : Insert(u, w, "sp", "nonce", "nl", r) => Disconnect(w, r)
  BY <1>2, <1>3 DEF Insert, Disconnect
<1>6. QED BY <1>3, <1>4, <1>5

-----------------------------------------------------------------------------
(* What the server makes of a line *)

\* The constants are texts of these tokens.
LEMMA Texts ==
  /\ \A w \in Topics \cup Others \cup {Self} : Word(w)
  /\ Bodies \subseteq String /\ \A b \in Bodies : Len(b) \in Sizes
<1>1. Seq(STRING) \subseteq String
  BY SeqMonotonic DEF String, Token
<1>2. \A b \in Seq(STRING) : Len(b) \in Nat
  OBVIOUS
<1>3. ASSUME NEW w \in Topics \cup Others \cup {Self} PROVE Word(w)
  <2>1. w \in Seq(STRING) /\ \A i \in 1..Len(w) : w[i] \notin {"sp", "nl", "nul"}
    BY WordAssumption
  <2>2. QED BY <1>1, <2>1 DEF Word
<1>4. Bodies \subseteq Seq(STRING) /\ \A b \in Bodies : Len(b) \in DOMAIN Numeral
  BY WordAssumption, NumeralAssumption
<1>5. Bodies \subseteq String /\ \A b \in Bodies : Len(b) \in Sizes
  <2>1. Bodies \subseteq String
    BY <1>1, <1>4
  <2>2. \A b \in Bodies : Len(b) \in Sizes
    BY <1>2, <1>4 DEF Sizes
  <2>3. QED BY <2>1, <2>2
<1>6. QED BY <1>3, <1>5

\* PUBLISH, all of it or cut after its header.
PartOf(s, w, n, b, r) ==
  /\ Word(w) /\ b \in String /\ n \in Sizes /\ n = Len(b) /\ Publish(w, n, b, r)
  /\ s \in String /\ Len(s) \in (5 + Len(w))..Len(r) /\ \A i \in 1..Len(s) : s[i] = r[i]

\* The server finds the length that was sent, then the topic; then the body,
\* or a part of it for which it keeps waiting.
LEMMA TakePublish ==
  ASSUME NEW s, NEW w, NEW n, NEW b, NEW r, PartOf(s, w, n, b, r)
  PROVE  /\ Find(s, "nl", 1) = 5 + Len(w) /\ Find(s, "sp", 3) = 3 + Len(w)
         /\ Stoi(After(s, 3 + Len(w))) = n
         /\ SubSeq(s, 3, 2 + Len(w)) = w
         /\ Len(s) >= 5 + Len(w) + n => s = r /\ SubSeq(s, 6 + Len(w), 5 + Len(w) + n) = b
<1> USE DEF PartOf
<1>1. Len(w) \in Nat /\ Len(b) \in Nat /\ Len(s) \in Nat /\ Len(s) >= 5 + Len(w)
  BY DEF Word, String
<1>2. /\ s[1] = "PUBLISH" /\ s[2] = "sp"
      /\ \A i \in 3..(2 + Len(w)) : s[i] = w[i - 2]
      /\ s[3 + Len(w)] = "sp" /\ s[4 + Len(w)] = Numeral[n] /\ s[5 + Len(w)] = "nl"
  <2>1. \A i \in 1..(5 + Len(w)) : s[i] = r[i]
    BY <1>1
  <2>2. /\ {1, 2, 3 + Len(w), 4 + Len(w), 5 + Len(w)} \subseteq 1..(5 + Len(w))
        /\ \A i \in 3..(2 + Len(w)) : i \in 1..(5 + Len(w))
    BY <1>1
  <2>3. QED BY <2>1, <2>2 DEF Publish
<1>3. \A i \in 3..(2 + Len(w)) : s[i] \notin {"sp", "nl", "nul"}
  BY <1>1, <1>2 DEF Word
<1>4. Numeral[n] \notin {"sp", "nl"}
  BY Words
<1>5. Find(s, "nl", 1) = 5 + Len(w)
  <2>1. \A j \in 1..(4 + Len(w)) : j \in {1, 2, 3 + Len(w), 4 + Len(w)} \/ j \in 3..(2 + Len(w))
    BY <1>1
  <2>2. \A j \in 1..(4 + Len(w)) : s[j] # "nl"
    BY <1>1, <1>2, <1>3, <1>4, <2>1
  <2>3. PICK k \in 1..Len(s) : k = 5 + Len(w)
    BY <1>1
  <2>4. s[k] = "nl" /\ \A j \in 1..(k - 1) : s[j] # "nl"
    BY <1>1, <1>2, <2>2, <2>3
  <2>5. Find(s, "nl", 1) = k
    BY <2>4, FindIs
  <2>6. QED BY <2>3, <2>5
<1>6. Find(s, "sp", 3) = 3 + Len(w)
  <2>1. PICK l \in Nat, k \in Nat : k \in l..Len(s) /\ l = 3 /\ k = 3 + Len(w) /\ k - 1 = 2 + Len(w)
    <3>1. 3 + Len(w) \in Nat /\ 3 + Len(w) \in 3..Len(s) /\ (3 + Len(w)) - 1 = 2 + Len(w)
      BY <1>1
    <3>2. 3 \in Nat
      OBVIOUS
    <3>3. QED BY <3>1, <3>2, Zenon
  <2>2. s[k] = "sp" /\ \A j \in l..(k - 1) : s[j] # "sp"
    BY <1>2, <1>3, <2>1
  <2>3. Find(s, "sp", l) = k
    BY <2>1, <2>2, FindIs
  <2>4. QED BY <2>1, <2>3
<1>7. Stoi(After(s, 3 + Len(w))) = n
  <2> DEFINE t == SubSeq(s, 3 + Len(w), Len(s))
  <2>1. t \in String /\ Len(t) >= 2 /\ t[1] = s[3 + Len(w)] /\ t[2] = s[4 + Len(w)]
    BY <1>1, Piece
  <2> HIDE DEF t
  <2>2. Stoi(t) = n
    <3>1. 2 \in 1..Len(t) /\ t[2] = Numeral[n] /\ \A j \in 1..(2 - 1) : t[j] = "sp"
      BY <1>2, <2>1 DEF String
    <3>2. QED BY <2>1, <3>1, StoiIs
  <2>3. QED BY <1>1, <2>2 DEF t, After
<1>8. SubSeq(s, 3, 2 + Len(w)) = w
  <2>1. 2 + Len(w) <= Len(s) /\ w \in String
    BY <1>1 DEF Word
  <2>2. QED BY <1>2, <2>1, FirstWord
<1>9. ASSUME Len(s) >= 5 + Len(w) + n
      PROVE  s = r /\ SubSeq(s, 6 + Len(w), 5 + Len(w) + n) = b
  <2>1. Len(s) = Len(r) /\ r \in String /\ Len(r) = 5 + Len(w) + n
    <3>1. r \in String /\ Len(r) = 5 + Len(w) + n
      BY DEF Publish
    <3>2. Len(s) \in (5 + Len(w))..(5 + Len(w) + n)
      BY <3>1
    <3>3. QED BY <1>1, <1>9, <3>1, <3>2
  <2>2. s = r
    BY <2>1, Same
  <2>3. PICK l \in Nat \ {0}, k \in Nat :
          l = 6 + Len(w) /\ k = 5 + Len(w) + n /\ l - 1 = 5 + Len(w) /\ k <= Len(s) /\ k = Len(b) + (l - 1)
    BY <1>1, <1>9
  <2>4. \A i \in l..k : s[i] = b[i - (l - 1)]
    BY <2>2, <2>3 DEF Publish
  <2>5. SubSeq(s, l, k) = b
    BY <2>3, <2>4, Between
  <2>6. QED BY <2>2, <2>3, <2>5
<1>10. QED BY <1>5, <1>6, <1>7, <1>8, <1>9

\* SUBSCRIBE and DISCONNECT, which have no zero.
LEMMA TakeSubscribe ==
  ASSUME NEW w, Word(w), NEW s, Subscribe(w, s)
  PROVE  /\ s \in String /\ ~ Contains(s, "nul") /\ Len(w) \in Nat /\ Len(s) = 3 + Len(w)
         /\ Find(s, "nl", 1) = 3 + Len(w) /\ Find(s, "sp", 3) = 0
         /\ SubSeq(s, 3, 2 + Len(w)) = w
<1>1. Len(w) \in Nat /\ w \in String
  BY DEF Word, String
<1>2. /\ s \in String /\ Len(s) = 3 + Len(w) /\ s[1] = "SUBSCRIBE" /\ s[2] = "sp"
      /\ \A i \in 3..(2 + Len(w)) : s[i] = w[i - 2] /\ s[i] \notin {"sp", "nl", "nul"}
      /\ s[3 + Len(w)] = "nl"
  BY <1>1 DEF Subscribe, Word
<1>3. \A j \in 1..(3 + Len(w)) : j \in {1, 2, 3 + Len(w)} \/ j \in 3..(2 + Len(w))
  BY <1>1
<1>4. ~ Contains(s, "nul") /\ \A j \in 3..Len(s) : s[j] # "sp"
  BY <1>1, <1>2, <1>3 DEF Contains
<1>5. Find(s, "nl", 1) = 3 + Len(w)
  <2>1. PICK k \in 1..Len(s) : k = 3 + Len(w)
    BY <1>1, <1>2
  <2>2. s[k] = "nl" /\ \A j \in 1..(k - 1) : s[j] # "nl"
    BY <1>1, <1>2, <1>3, <2>1
  <2>3. Find(s, "nl", 1) = k
    BY <1>2, <2>2, FindIs
  <2>4. QED BY <2>1, <2>3
<1>6. Find(s, "sp", 3) = 0
  BY <1>4, FindNone
<1>7. SubSeq(s, 3, 2 + Len(w)) = w
  <2>1. 2 + Len(w) <= Len(s)
    BY <1>1, <1>2
  <2>2. QED BY <1>1, <1>2, <2>1, FirstWord
<1>8. QED BY <1>1, <1>2, <1>4, <1>5, <1>6, <1>7

\* It finds the name in DISCONNECT.
LEMMA TakeDisconnect ==
  ASSUME NEW w, Word(w), NEW s, Disconnect(w, s)
  PROVE  /\ s \in String /\ ~ Contains(s, "nul") /\ Len(w) \in Nat /\ Len(s) = 5 + Len(w)
         /\ Find(s, "nl", 1) = 5 + Len(w) /\ Find(s, "sp", 3) = 3 + Len(w)
         /\ SubSeq(s, 3, 2 + Len(w)) = w
<1>1. Len(w) \in Nat /\ w \in String
  BY DEF Word, String
<1>2. /\ s \in String /\ Len(s) = 5 + Len(w) /\ s[1] = "DISCONNECT" /\ s[2] = "sp"
      /\ \A i \in 3..(2 + Len(w)) : s[i] = w[i - 2] /\ s[i] \notin {"sp", "nl", "nul"}
      /\ s[3 + Len(w)] = "sp" /\ s[4 + Len(w)] = "nonce" /\ s[5 + Len(w)] = "nl"
  BY <1>1 DEF Disconnect, Word
<1>3. \A j \in 1..(5 + Len(w)) :
        j \in {1, 2, 3 + Len(w), 4 + Len(w), 5 + Len(w)} \/ j \in 3..(2 + Len(w))
  BY <1>1
<1>4. ~ Contains(s, "nul")
  BY <1>1, <1>2, <1>3 DEF Contains
<1>5. Find(s, "nl", 1) = 5 + Len(w)
  <2>1. PICK k \in 1..Len(s) : k = 5 + Len(w)
    BY <1>1, <1>2
  <2>2. s[k] = "nl" /\ \A j \in 1..(k - 1) : s[j] # "nl"
    BY <1>1, <1>2, <1>3, <2>1
  <2>3. Find(s, "nl", 1) = k
    BY <1>2, <2>2, FindIs
  <2>4. QED BY <2>1, <2>3
<1>6. Find(s, "sp", 3) = 3 + Len(w)
  BY <1>1, <1>2, FindIs
<1>7. SubSeq(s, 3, 2 + Len(w)) = w
  <2>1. 2 + Len(w) <= Len(s)
    BY <1>1, <1>2
  <2>2. QED BY <1>1, <1>2, <2>1, FirstWord
<1>8. QED BY <1>1, <1>2, <1>4, <1>5, <1>6, <1>7

\* What is left of a line after the handling.
LEMMA Nothing == ASSUME NEW s \in String PROVE After(s, Len(s) + 1) = <<>>
<1>1. Len(s) \in Nat
  BY DEF String
<1>2. QED BY <1>1, SubSeqEmpty DEF After

\* The server makes of a request's line the request, and nothing of a line that
\* was cut.
LEMMA Handling ==
  ASSUME NEW m \in ApiCall, out = CString(GoodLine(m)), ServerHandle
  PROVE  /\ out' = <<>> /\ handled' = Append(handled, m) /\ answers' = answers + 1
         /\ \/ mailed' = mailed
            \/ m.type = "MESSAGE" /\ m.topic \in Listened /\ mailed' = Append(mailed, Mail(m))
<1> DEFINE eol   == Find(out, "nl", 1)
           stop  == Find(out, "sp", 3)
           size  == Stoi(After(out, stop))
           whole == out[1] = "PUBLISH" /\ stop \in 1..eol
           total == IF whole THEN eol + size ELSE eol
           got   == [type  |-> IF whole THEN "MESSAGE" ELSE out[1],
                     topic |-> SubSeq(out, 3, (IF stop \in 1..eol THEN stop ELSE eol) - 1),
                     body  |-> SubSeq(out, eol + 1, total)]
<1>1. /\ Len(out) >= total /\ out' = After(out, total + 1)
      /\ handled' = Append(handled, got) /\ answers' = answers + 1
      /\ mailed' = IF got.type = "MESSAGE" /\ got.topic \in Listened
                   THEN Append(mailed, Mail(got)) ELSE mailed
  BY DEF ServerHandle
<1>2. ASSUME total = Len(out), got = m, out \in String PROVE out' = <<>> /\ handled' = Append(handled, m)
  <2> HIDE DEF total, got
  <2>1. QED BY <1>1, <1>2, Nothing
<1>3. CASE m.type = "MESSAGE"
  <2>1. PICK w, b : /\ w = m.topic /\ b = m.body /\ w \in Topics /\ b \in Bodies
                    /\ m = [type |-> "MESSAGE", topic |-> w, body |-> b]
    BY <1>3 DEF ApiCall
  <2>2. PICK n \in Sizes : n = Len(b)
    BY <2>1, Texts
  <2>3. Word(w) /\ w \in String /\ b \in String
    BY <2>1, Texts DEF Word
  <2>4. PICK r : r = GoodLine(m)
    OBVIOUS
  <2>5. Publish(w, n, b, r)
    <3>1. r = <<"PUBLISH", "sp">> \o w \o <<"sp">> \o Num(n) \o <<"nl">> \o b
      BY <1>3, <2>1, <2>2, <2>4 DEF GoodLine
    <3>2. QED BY <2>3, <3>1, Published
  <2>6. /\ out \in String /\ Len(out) \in (5 + Len(w))..Len(r)
        /\ \A i \in 1..Len(out) : out[i] = r[i]
    <3>1. r \in String /\ 5 + Len(w) \in 0..Len(r)
      BY <2>3, <2>5 DEF Publish, String
    <3>2. out = CString(r)
      BY <2>4
    <3>3. \A i \in 1..(5 + Len(w)) : r[i] # "nul"
      <4>1. Len(w) \in Nat
        BY <2>3 DEF String
      <4>2. \A i \in 1..(5 + Len(w)) : i \in {1, 2, 3 + Len(w), 4 + Len(w), 5 + Len(w)} \/ i \in 3..(2 + Len(w))
        BY <4>1
      <4>3. \A i \in 3..(2 + Len(w)) : r[i] # "nul"
        BY <2>3, <2>5, <4>1 DEF Publish, Word
      <4>4. Numeral[n] # "nul"
        BY Words
      <4>5. QED BY <2>5, <4>2, <4>3, <4>4 DEF Publish
    <3>4. PICK s : s = CString(r)
      OBVIOUS
    <3>5. s \in String /\ Len(s) <= Len(r) /\ 5 + Len(w) <= Len(s) /\ \A i \in 1..Len(s) : s[i] = r[i]
      BY <3>1, <3>3, <3>4, CStringIs
    <3>6. Len(s) \in Nat /\ 5 + Len(w) \in Nat /\ Len(r) \in Nat
      BY <3>1, <3>5 DEF String
    <3>7. QED BY <3>2, <3>4, <3>5, <3>6
  <2>7. /\ eol = 5 + Len(w) /\ stop = 3 + Len(w)
        /\ Stoi(After(out, 3 + Len(w))) = n
        /\ SubSeq(out, 3, 2 + Len(w)) = w
        /\ Len(out) >= 5 + Len(w) + n => out = r /\ SubSeq(out, 6 + Len(w), 5 + Len(w) + n) = b
    <3>1. PICK s \in String : s = out
      BY <2>6
    <3>2. PartOf(s, w, n, b, r)
      BY <2>2, <2>3, <2>5, <2>6, <3>1 DEF PartOf
    <3>3. /\ Find(s, "nl", 1) = 5 + Len(w) /\ Find(s, "sp", 3) = 3 + Len(w)
          /\ Stoi(After(s, 3 + Len(w))) = n
          /\ SubSeq(s, 3, 2 + Len(w)) = w
          /\ Len(s) >= 5 + Len(w) + n => s = r /\ SubSeq(s, 6 + Len(w), 5 + Len(w) + n) = b
      BY <3>2, TakePublish
    <3>4. QED BY <3>1, <3>3
  <2>8. Len(w) \in Nat /\ out[1] = "PUBLISH" /\ Len(r) = 5 + Len(w) + n
    BY <2>2, <2>3, <2>5, <2>6 DEF Publish, String
  <2>9. whole /\ size = n
    BY <2>7, <2>8
  <2>10. total = 5 + Len(w) + n
    BY <2>7, <2>9
  <2>11. out = r /\ SubSeq(out, 6 + Len(w), 5 + Len(w) + n) = b
    BY <1>1, <2>7, <2>10
  <2>12. got = m
    <3>1. got.topic = w
      BY <2>7, <2>8, <2>9
    <3>2. got.body = b
      <4>1. eol + 1 = 6 + Len(w)
        BY <2>7, <2>8
      <4>2. QED BY <2>10, <2>11, <4>1
    <3>3. QED BY <2>1, <2>9, <3>1, <3>2
  <2>13. QED BY <1>1, <1>2, <1>3, <2>6, <2>8, <2>10, <2>11, <2>12
<1>4. CASE m.type = "SUBSCRIBE"
  <2>1. PICK w : w \in Topics /\ m = [type |-> "SUBSCRIBE", topic |-> w, body |-> <<>>]
    BY <1>4, ListenedAssumption DEF ApiCall
  <2>2. Word(w) /\ w \in String
    BY <2>1, Texts DEF Word
  <2>3. Subscribe(w, GoodLine(m))
    <3>1. GoodLine(m) = <<"SUBSCRIBE", "sp">> \o w \o <<"nl">>
      BY <2>1 DEF GoodLine
    <3>2. QED BY <2>2, <3>1, Subscribed
  <2>4. ~ Contains(GoodLine(m), "nul")
    BY <2>2, <2>3, TakeSubscribe
  <2>5. out = GoodLine(m)
    BY <2>4 DEF CString
  <2>6. /\ out \in String /\ Len(w) \in Nat /\ Len(out) = 3 + Len(w) /\ eol = 3 + Len(w) /\ stop = 0
        /\ SubSeq(out, 3, 2 + Len(w)) = w /\ out[1] = "SUBSCRIBE"
    BY <2>2, <2>3, <2>5, TakeSubscribe DEF Subscribe
  <2>7. ~ whole /\ total = Len(out)
    BY <2>6
  <2>8. got.topic = w /\ got.type = "SUBSCRIBE"
    BY <2>6, <2>7
  <2>9. got.body = <<>>
    BY <2>6, <2>7, SubSeqEmpty
  <2>10. got = m
    BY <2>1, <2>8, <2>9
  <2>11. QED BY <1>1, <1>2, <1>4, <2>6, <2>7, <2>10
<1>5. CASE m.type = "DISCONNECT"
  <2>1. PICK w : w = Self /\ m = [type |-> "DISCONNECT", topic |-> w, body |-> <<>>]
    BY <1>5 DEF ApiCall
  <2>2. Word(w) /\ w \in String
    BY <2>1, Texts DEF Word
  <2>3. Disconnect(w, GoodLine(m))
    <3>1. GoodLine(m) = <<"DISCONNECT", "sp">> \o w \o <<"sp", "nonce", "nl">>
      BY <2>1 DEF GoodLine
    <3>2. QED BY <2>2, <3>1, Disconnected
  <2>4. ~ Contains(GoodLine(m), "nul")
    BY <2>2, <2>3, TakeDisconnect
  <2>5. out = GoodLine(m)
    BY <2>4 DEF CString
  <2>6. /\ out \in String /\ Len(w) \in Nat /\ Len(out) = 5 + Len(w) /\ eol = 5 + Len(w) /\ stop = 3 + Len(w)
        /\ SubSeq(out, 3, 2 + Len(w)) = w /\ out[1] = "DISCONNECT"
    BY <2>2, <2>3, <2>5, TakeDisconnect DEF Disconnect
  <2>7. ~ whole /\ total = Len(out)
    BY <2>6
  <2>8. got.topic = w /\ got.type = "DISCONNECT"
    BY <2>6, <2>7
  <2>9. got.body = <<>>
    BY <2>6, <2>7, SubSeqEmpty
  <2>10. got = m
    BY <2>1, <2>8, <2>9
  <2>11. QED BY <1>1, <1>2, <1>5, <2>6, <2>7, <2>10
<1>6. QED BY <1>3, <1>4, <1>5 DEF ApiCall

\* Every request's line is a text.
LEMMA GoodLineIs == ASSUME NEW m \in ApiCall PROVE GoodLine(m) \in String
<1>1. CASE m.type = "MESSAGE"
  <2>1. PICK w, b : /\ w \in String /\ b \in String /\ Len(b) \in Sizes
                    /\ w = m.topic /\ b = m.body
    BY <1>1, Texts DEF ApiCall, Word
  <2>2. GoodLine(m) = <<"PUBLISH", "sp">> \o w \o <<"sp">> \o Num(Len(b)) \o <<"nl">> \o b
    BY <1>1, <2>1 DEF GoodLine
  <2>3. Publish(w, Len(b), b, GoodLine(m))
    BY <2>1, <2>2, Published
  <2>4. QED BY <2>3 DEF Publish
<1>2. CASE m.type = "SUBSCRIBE"
  <2>1. m.topic \in String
    BY <1>2, Texts, ListenedAssumption DEF ApiCall, Word
  <2>2. GoodLine(m) = <<"SUBSCRIBE", "sp">> \o m.topic \o <<"nl">>
    BY <1>2 DEF GoodLine
  <2>3. Subscribe(m.topic, GoodLine(m))
    BY <2>1, <2>2, Subscribed
  <2>4. QED BY <2>3 DEF Subscribe
<1>3. CASE m.type = "DISCONNECT"
  <2>1. m.topic \in String
    BY <1>3, Texts DEF ApiCall, Word
  <2>2. GoodLine(m) = <<"DISCONNECT", "sp">> \o m.topic \o <<"sp", "nonce", "nl">>
    BY <1>3 DEF GoodLine
  <2>3. Disconnect(m.topic, GoodLine(m))
    BY <2>1, <2>2, Disconnected
  <2>4. QED BY <2>3 DEF Disconnect
<1>4. QED BY <1>1, <1>2, <1>3 DEF ApiCall

-----------------------------------------------------------------------------
(* The invariant of the publisher's connection *)

MailItem == [type : {"MESSAGE"}, topic : Listened, sender : Others \cup {Self}, body : Bodies]

\* A request is out and unanswered.
Asked == pub = "wait" /\ answers = 0

\* All that was sent has been handled, is on the connection, or queued, in this
\* order; at most one request is on the connection, and nothing else.
Requests ==
  /\ sent \in Seq(ApiCall) /\ handled \in Seq(ApiCall) /\ outMessages \in Seq(ApiCall)
  /\ mailed \in Seq(MailItem)
  /\ answers \in 0..1 /\ pub \in {"send", "wait"} /\ (pub = "send" => answers = 0)
  /\ Len(sent) = Len(handled) + Len(outMessages) + (IF Asked THEN 1 ELSE 0)
  /\ \A i \in 1..Len(handled) : handled[i] = sent[i]
  /\ \A i \in 1..Len(outMessages) : outMessages[i] = sent[Len(sent) - Len(outMessages) + i]
  /\ Asked  => out = CString(GoodLine(sent[Len(handled) + 1]))
  /\ ~Asked => out = <<>>

\* The steps that touch what the invariant is about.
LEMMA PublisherSteps ==
  ASSUME [Next]_vars
  PROVE  \/ \E m \in ApiCall : Call(m)
         \/ Send \/ Answered \/ ServerHandle
         \/ UNCHANGED pubVars /\ (ServerMail \/ mailed' = mailed)
BY DEF Next, Running, Publisher, Server, Receiver, ServerRetrieve, GetLine, GetLength, NoLength,
   ReadBody, Overrun, Callbacks, Take, Dispatch, DispatchThrows, ServerMail, vars

\* Each step on the publisher's connection preserves the invariant.
LEMMA RequestsStep == Requests /\ [Next]_vars => Requests'
<1> SUFFICES ASSUME Requests, [Next]_vars PROVE Requests'
  OBVIOUS
<1>t. Len(sent) \in Nat /\ Len(handled) \in Nat /\ Len(outMessages) \in Nat
  BY DEF Requests
<1>1. ASSUME NEW m \in ApiCall, Call(m) PROVE Requests'
  <2>1. /\ outMessages' = Append(outMessages, m) /\ sent' = Append(sent, m)
        /\ UNCHANGED <<handled, mailed, answers, pub, out>>
    BY <1>1 DEF Call
  <2>2. /\ outMessages' \in Seq(ApiCall) /\ sent' \in Seq(ApiCall)
        /\ Len(sent') = Len(sent) + 1 /\ Len(outMessages') = Len(outMessages) + 1
        /\ \A i \in 1..Len(sent) : sent'[i] = sent[i]
        /\ \A i \in 1..Len(outMessages) : outMessages'[i] = outMessages[i]
        /\ sent'[Len(sent) + 1] = m /\ outMessages'[Len(outMessages) + 1] = m
    <3>1. /\ sent' \in Seq(ApiCall) /\ Len(sent') = Len(sent) + 1 /\ sent'[Len(sent) + 1] = m
          /\ \A i \in 1..Len(sent) : sent'[i] = sent[i]
      <4>1. sent' = Append(sent, m) /\ sent \in Seq(ApiCall)
        BY <2>1 DEF Requests
      <4>2. QED BY <4>1, AppendProperties
    <3>2. /\ outMessages' \in Seq(ApiCall) /\ Len(outMessages') = Len(outMessages) + 1
          /\ outMessages'[Len(outMessages) + 1] = m
          /\ \A i \in 1..Len(outMessages) : outMessages'[i] = outMessages[i]
      BY <2>1, AppendProperties DEF Requests
    <3>3. QED BY <3>1, <3>2
  <2>3. ASSUME NEW i \in 1..Len(outMessages') PROVE outMessages'[i] = sent'[Len(sent') - Len(outMessages') + i]
    <3>1. Len(sent') - Len(outMessages') + i = Len(sent) - Len(outMessages) + i
      BY <1>t, <2>2
    <3>2. CASE i = Len(outMessages) + 1
      <4>1. Len(sent) - Len(outMessages) + i = Len(sent) + 1
        BY <1>t, <3>2
      <4>2. QED BY <2>2, <3>1, <3>2, <4>1
    <3>3. CASE i \in 1..Len(outMessages)
      <4>1. Len(sent) - Len(outMessages) + i \in 1..Len(sent)
        BY <1>t, <3>3 DEF Requests
      <4>2. QED BY <2>2, <3>1, <3>3, <4>1 DEF Requests
    <3>4. QED BY <1>t, <2>2, <3>2, <3>3
  <2>4. Asked' = Asked
    BY <2>1 DEF Asked
  <2>5. \A i \in 1..Len(handled) : i \in 1..Len(sent)
    BY <1>t DEF Requests
  <2>6. Asked => Len(handled) + 1 \in 1..Len(sent)
    BY <1>t DEF Requests
  <2>7. Len(sent') = Len(handled') + Len(outMessages') + (IF Asked' THEN 1 ELSE 0)
    BY <1>t, <2>1, <2>2, <2>4 DEF Requests
  <2>8. \A i \in 1..Len(handled') : handled'[i] = sent'[i]
    BY <2>1, <2>2, <2>5 DEF Requests
  <2>9. Asked' => out' = CString(GoodLine(sent'[Len(handled') + 1]))
    BY <2>1, <2>2, <2>4, <2>6 DEF Requests
  <2>10. QED BY <2>1, <2>2, <2>3, <2>4, <2>7, <2>8, <2>9 DEF Requests
<1>2. CASE Send
  <2> DEFINE m == Head(outMessages)
  <2>1. /\ pub = "send" /\ outMessages # <<>> /\ pub' = "wait" /\ answers = 0 /\ ~Asked /\ Asked' /\ out = <<>>
        /\ out' = out \o CString(GoodLine(m)) /\ outMessages' = Tail(outMessages)
        /\ UNCHANGED <<handled, mailed, answers, sent>>
    BY <1>2 DEF Send, Asked, Requests
  <2>2. /\ m = outMessages[1] /\ Len(outMessages) > 0 /\ m \in ApiCall /\ outMessages' \in Seq(ApiCall)
        /\ Len(outMessages') = Len(outMessages) - 1
        /\ \A i \in 1..Len(outMessages') : outMessages'[i] = outMessages[i + 1]
    BY <2>1 DEF Requests
  <2>3. Len(sent) - Len(outMessages) + 1 = Len(handled) + 1
    BY <1>t, <2>1 DEF Requests
  <2>4. m = sent[Len(handled) + 1]
    BY <1>t, <2>2, <2>3 DEF Requests
  <2>5. out' = CString(GoodLine(m))
    <3>1. CString(GoodLine(m)) \in String
      BY <2>2, GoodLineIs, CStringIs
    <3>2. <<>> \o CString(GoodLine(m)) = CString(GoodLine(m))
      BY <3>1, ConcatEmptySeq DEF String
    <3>3. QED BY <2>1, <3>2
  <2> HIDE DEF m
  <2>6. ASSUME NEW i \in 1..Len(outMessages') PROVE outMessages'[i] = sent'[Len(sent') - Len(outMessages') + i]
    <3>1. i + 1 \in 1..Len(outMessages) /\ Len(sent') - Len(outMessages') + i = Len(sent) - Len(outMessages) + (i + 1)
      BY <1>t, <2>1, <2>2
    <3>2. QED BY <2>1, <2>2, <3>1 DEF Requests
  <2>7. Len(sent') = Len(handled') + Len(outMessages') + (IF Asked' THEN 1 ELSE 0)
    BY <1>t, <2>1, <2>2 DEF Requests
  <2>8. Asked' => out' = CString(GoodLine(sent'[Len(handled') + 1]))
    BY <2>1, <2>4, <2>5
  <2>9. /\ sent' \in Seq(ApiCall) /\ handled' \in Seq(ApiCall) /\ mailed' \in Seq(MailItem)
        /\ \A i \in 1..Len(handled') : handled'[i] = sent'[i]
    BY <2>1 DEF Requests
  <2>10. answers' \in 0..1 /\ pub' \in {"send", "wait"} /\ (pub' = "send" => answers' = 0)
    BY <2>1
  <2>11. outMessages' \in Seq(ApiCall) /\ Asked'
    BY <2>1, <2>2
  <2>12. QED BY <2>6, <2>7, <2>8, <2>9, <2>10, <2>11 DEF Requests
<1>3. CASE Answered
  <2>1. ~Asked /\ ~Asked' /\ answers' = 0 /\ pub' = "send" /\ UNCHANGED <<outMessages, out, sent, handled, mailed>>
    BY <1>3 DEF Answered, Asked, Requests
  <2>2. Len(sent') = Len(handled') + Len(outMessages') + (IF Asked' THEN 1 ELSE 0)
    BY <2>1 DEF Requests
  <2>3. /\ sent' \in Seq(ApiCall) /\ handled' \in Seq(ApiCall) /\ mailed' \in Seq(MailItem)
        /\ outMessages' \in Seq(ApiCall)
        /\ \A i \in 1..Len(handled') : handled'[i] = sent'[i]
        /\ \A i \in 1..Len(outMessages') : outMessages'[i] = sent'[Len(sent') - Len(outMessages') + i]
        /\ out' = <<>>
    BY <2>1 DEF Requests
  <2>4. answers' \in 0..1 /\ pub' \in {"send", "wait"} /\ (pub' = "send" => answers' = 0) /\ ~Asked'
    BY <2>1
  <2>5. QED BY <2>2, <2>3, <2>4 DEF Requests
<1>4. CASE ServerHandle
  <2>1. CASE ~Asked
    <3>1. Find(<<>>, "nl", 1) = 0
      BY FindNone
    <3>2. QED BY <1>4, <2>1, <3>1 DEF ServerHandle, Requests
  <2>2. CASE Asked
    <3> DEFINE m == sent[Len(handled) + 1]
    <3>1. Len(handled) + 1 \in 1..Len(sent) /\ m \in ApiCall /\ out = CString(GoodLine(m))
      BY <1>t, <2>2 DEF Requests
    <3>2. /\ out' = <<>> /\ handled' = Append(handled, m) /\ answers' = answers + 1
          /\ \/ mailed' = mailed
             \/ m.type = "MESSAGE" /\ m.topic \in Listened /\ mailed' = Append(mailed, Mail(m))
      <4>1. PICK c \in ApiCall : c = m
        BY <3>1
      <4>2. QED BY <1>4, <3>1, <4>1, Handling
    <3> HIDE DEF m
    <3>3. UNCHANGED <<outMessages, pub, sent>> /\ answers' = 1 /\ ~Asked'
      BY <1>4, <2>2, <3>2 DEF ServerHandle, Asked
    <3>4. mailed' \in Seq(MailItem)
      <4>1. CASE m.type = "MESSAGE" /\ m.topic \in Listened /\ mailed' = Append(mailed, Mail(m))
        <5>1. Mail(m) \in MailItem
          BY <3>1, <4>1 DEF ApiCall, Mail, MailItem
        <5>2. QED BY <4>1, <5>1, AppendProperties DEF Requests
      <4>2. QED BY <3>2, <4>1 DEF Requests
    <3>5. /\ handled' \in Seq(ApiCall) /\ Len(handled') = Len(handled) + 1
          /\ \A i \in 1..Len(handled) : handled'[i] = handled[i]
          /\ handled'[Len(handled) + 1] = m
      BY <3>1, <3>2, AppendProperties DEF Requests
    <3>6. \A i \in 1..Len(handled') : handled'[i] = sent[i]
      BY <1>t, <3>5 DEF Requests, m
    <3>7. Len(sent') = Len(handled') + Len(outMessages') + (IF Asked' THEN 1 ELSE 0)
      BY <1>t, <2>2, <3>3, <3>5 DEF Requests
    <3>8. \A i \in 1..Len(outMessages') : outMessages'[i] = sent'[Len(sent') - Len(outMessages') + i]
      BY <3>3 DEF Requests
    <3>9. sent' \in Seq(ApiCall) /\ outMessages' \in Seq(ApiCall)
      BY <3>3 DEF Requests
    <3>10. answers' \in 0..1 /\ pub' \in {"send", "wait"} /\ (pub' = "send" => answers' = 0)
      BY <2>2, <3>3 DEF Asked
    <3>11. \A i \in 1..Len(handled') : handled'[i] = sent'[i]
      BY <3>3, <3>6
    <3>12. QED BY <3>2, <3>3, <3>4, <3>5, <3>7, <3>8, <3>9, <3>10, <3>11 DEF Requests
  <2>3. QED BY <2>1, <2>2
<1>5. CASE UNCHANGED pubVars /\ (ServerMail \/ mailed' = mailed)
  <2>1. UNCHANGED <<outMessages, out, answers, pub, sent, handled>> /\ Asked' = Asked
    BY <1>5 DEF pubVars, Asked
  <2>2. mailed' \in Seq(MailItem)
    <3>1. CASE ServerMail
      <4>1. PICK m \in MailItem : mailed' = Append(mailed, m)
        BY <3>1 DEF ServerMail, MailItem
      <4>2. QED BY <4>1, AppendProperties DEF Requests
    <3>2. QED BY <1>5, <3>1 DEF Requests
  <2>3. QED BY <2>1, <2>2 DEF Requests
<1>6. QED BY <1>1, <1>2, <1>3, <1>4, <1>5, PublisherSteps

\* So far nothing has been sent.
LEMMA InitRequests == Init => Requests
BY DEF Init, Requests, Asked

\* The server handles the requests that were made, as they were made and in
\* their order; what a zero cuts off a line is never made up from the next.
THEOREM RequestsIntact == Spec => []HandledAsSent
<1>1. Requests => HandledAsSent
  <2> SUFFICES ASSUME Requests PROVE IsPrefix(handled, sent)
    BY DEF HandledAsSent
  <2>1. /\ Len(handled) \in Nat /\ Len(sent) \in Nat /\ Len(handled) <= Len(sent)
        /\ \A i \in 1..Len(handled) : handled[i] \in ApiCall /\ sent[i] \in ApiCall /\ handled[i] = sent[i]
    BY DEF Requests
  <2>2. SubSeq(handled, 1, Len(handled)) = SubSeq(sent, 1, Len(handled))
    <3>1. /\ SubSeq(handled, 1, Len(handled)) \in Seq(ApiCall) /\ SubSeq(sent, 1, Len(handled)) \in Seq(ApiCall)
          /\ Len(SubSeq(handled, 1, Len(handled))) = Len(SubSeq(sent, 1, Len(handled)))
          /\ \A i \in 1..Len(SubSeq(handled, 1, Len(handled))) :
               SubSeq(handled, 1, Len(handled))[i] = SubSeq(sent, 1, Len(handled))[i]
      BY <2>1, SubSeqProperties
    <3>2. QED BY <3>1, SeqEqual
  <2>3. QED BY <2>1, <2>2 DEF IsPrefix
<1>2. QED BY <1>1, InitRequests, RequestsStep, PTL DEF Spec

-----------------------------------------------------------------------------
(* Mail *)

\* A header: n bytes from u on topic w.
HeaderText(w, u, n) ==
  <<"MESSAGE", "sp">> \o w \o <<"sp", "FROM", "sp">> \o u \o <<"sp", "LENGTH", "sp">> \o Num(n) \o <<"nl">>

\* Its tokens.
Header(w, u, n, h) ==
  /\ h \in String /\ Len(w) \in Nat /\ Len(u) \in Nat /\ Len(h) = 10 + Len(w) + Len(u)
  /\ h[1] = "MESSAGE" /\ h[2] = "sp"
  /\ \A i \in 3..(2 + Len(w)) : h[i] = w[i - 2]
  /\ h[3 + Len(w)] = "sp" /\ h[4 + Len(w)] = "FROM" /\ h[5 + Len(w)] = "sp"
  /\ \A i \in (6 + Len(w))..(5 + Len(w) + Len(u)) : h[i] = u[i - (5 + Len(w))]
  /\ h[6 + Len(w) + Len(u)] = "sp" /\ h[7 + Len(w) + Len(u)] = "LENGTH"
  /\ h[8 + Len(w) + Len(u)] = "sp"
  /\ h[9 + Len(w) + Len(u)] = Numeral[n] /\ h[10 + Len(w) + Len(u)] = "nl"

\* The tokens of a header.
LEMMA Headed ==
  \A w, u \in String, n \in Sizes : Header(w, u, n, HeaderText(w, u, n))
<1> SUFFICES ASSUME NEW w \in String, NEW u \in String, NEW n \in Sizes
             PROVE  Header(w, u, n, HeaderText(w, u, n))
  OBVIOUS
<1>1. {"MESSAGE", "sp", "FROM", "LENGTH"} \subseteq Token
  BY Words DEF Protocol
<1>2. PICK s1 : s1 = <<"MESSAGE", "sp">>
  OBVIOUS
<1>3. s1 \in String /\ Len(s1) = 2 /\ s1[1] = "MESSAGE" /\ s1[2] = "sp"
  BY <1>1, <1>2 DEF String
<1>4. PICK s2 : s2 = s1 \o w \o <<"sp", "FROM", "sp">>
  OBVIOUS
<1>5. Insert(s1, w, "sp", "FROM", "sp", s2)
  BY <1>1, <1>3, <1>4, Inserted
<1>6. PICK s3 : s3 = s2 \o u \o <<"sp", "LENGTH", "sp">>
  OBVIOUS
<1>7. Insert(s2, u, "sp", "LENGTH", "sp", s3)
  <2>1. s2 \in String
    BY <1>5 DEF Insert
  <2>2. QED BY <1>1, <1>6, <2>1, Inserted
<1>8. PICK h : h = s3 \o Num(n) \o <<"nl">>
  OBVIOUS
<1>9. Count(s3, n, h)
  <2>1. s3 \in String
    BY <1>7 DEF Insert
  <2>2. QED BY <1>8, <2>1, Counted
<1>10. h = HeaderText(w, u, n)
  BY <1>2, <1>4, <1>6, <1>8 DEF HeaderText
<1>11. ASSUME NEW t1, NEW t2, NEW t3, NEW r, Len(t1) = 2, t1[1] = "MESSAGE", t1[2] = "sp",
              Insert(t1, w, "sp", "FROM", "sp", t2), Insert(t2, u, "sp", "LENGTH", "sp", t3), Count(t3, n, r)
       PROVE  Header(w, u, n, r)
  <2>1. /\ Len(w) \in Nat /\ Len(t2) = 5 + Len(w) /\ t2[1] = "MESSAGE" /\ t2[2] = "sp"
        /\ \A i \in 3..(2 + Len(w)) : t2[i] = w[i - 2]
        /\ t2[3 + Len(w)] = "sp" /\ t2[4 + Len(w)] = "FROM" /\ t2[5 + Len(w)] = "sp"
    BY <1>11 DEF Insert
  <2>2. /\ Len(u) \in Nat /\ Len(t3) = 8 + Len(w) + Len(u)
        /\ \A i \in 1..(5 + Len(w)) : t3[i] = t2[i]
        /\ \A i \in (6 + Len(w))..(5 + Len(w) + Len(u)) : t3[i] = u[i - (5 + Len(w))]
        /\ t3[6 + Len(w) + Len(u)] = "sp" /\ t3[7 + Len(w) + Len(u)] = "LENGTH"
        /\ t3[8 + Len(w) + Len(u)] = "sp"
    BY <1>11, <2>1 DEF Insert
  <2>3. /\ r \in String /\ Len(r) = 10 + Len(w) + Len(u)
        /\ \A i \in 1..(8 + Len(w) + Len(u)) : r[i] = t3[i]
        /\ r[9 + Len(w) + Len(u)] = Numeral[n] /\ r[10 + Len(w) + Len(u)] = "nl"
    BY <1>11, <2>1, <2>2 DEF Count
  <2>4. /\ {1, 2, 3 + Len(w), 4 + Len(w), 5 + Len(w)} \subseteq 1..(5 + Len(w))
        /\ \A i \in 1..(5 + Len(w)) : i \in 1..(8 + Len(w) + Len(u))
        /\ \A i \in 3..(2 + Len(w)) : i \in 1..(5 + Len(w))
        /\ \A i \in (6 + Len(w))..(5 + Len(w) + Len(u)) : i \in 1..(8 + Len(w) + Len(u))
        /\ {6 + Len(w) + Len(u), 7 + Len(w) + Len(u), 8 + Len(w) + Len(u)} \subseteq 1..(8 + Len(w) + Len(u))
    BY <2>1, <2>2
  <2>5. QED BY <2>1, <2>2, <2>3, <2>4 DEF Header
<1>12. QED BY <1>3, <1>5, <1>7, <1>9, <1>10, <1>11

\* Where a header has its blanks, newline, zeros and words.
LEMMA HeaderMarks ==
  ASSUME NEW w, Word(w), NEW u, Word(u), NEW n \in Sizes, NEW h, Header(w, u, n, h)
  PROVE  /\ \A i \in 1..(9 + Len(w) + Len(u)) : h[i] # "nl"
         /\ \A i \in 1..(10 + Len(w) + Len(u)) : h[i] # "nul"
         /\ \A i \in 3..(2 + Len(w)) : h[i] # "sp"
         /\ \A i \in (6 + Len(w))..(5 + Len(w) + Len(u)) : h[i] # "sp"
<1>1. Len(w) \in Nat /\ Len(u) \in Nat
  BY DEF Header
<1>2. \A i \in 1..(10 + Len(w) + Len(u)) :
        \/ i \in {1, 2, 3 + Len(w), 4 + Len(w), 5 + Len(w), 6 + Len(w) + Len(u), 7 + Len(w) + Len(u),
                   8 + Len(w) + Len(u), 9 + Len(w) + Len(u), 10 + Len(w) + Len(u)}
        \/ i \in 3..(2 + Len(w)) \/ i \in (6 + Len(w))..(5 + Len(w) + Len(u))
  BY <1>1
<1>3. \A i \in 3..(2 + Len(w)) : h[i] \notin {"sp", "nl", "nul"}
  <2>1. \A i \in 3..(2 + Len(w)) : h[i] = w[i - 2] /\ i - 2 \in 1..Len(w)
    BY <1>1 DEF Header
  <2>2. QED BY <2>1 DEF Word
<1>4. \A i \in (6 + Len(w))..(5 + Len(w) + Len(u)) : h[i] \notin {"sp", "nl", "nul"}
  <2>1. \A i \in (6 + Len(w))..(5 + Len(w) + Len(u)) :
          h[i] = u[i - (5 + Len(w))] /\ i - (5 + Len(w)) \in 1..Len(u)
    BY <1>1 DEF Header
  <2>2. QED BY <2>1 DEF Word
<1>5. Numeral[n] \notin {"nl", "nul"}
  BY Words
<1>6. \A i \in 1..(9 + Len(w) + Len(u)) : h[i] # "nl"
  <2> SUFFICES ASSUME NEW i \in 1..(9 + Len(w) + Len(u)) PROVE h[i] # "nl"
    OBVIOUS
  <2>1. i \in 1..(10 + Len(w) + Len(u)) /\ i # 10 + Len(w) + Len(u)
    BY <1>1
  <2>2. QED BY <1>2, <1>3, <1>4, <1>5, <2>1 DEF Header
<1>7. \A i \in 1..(10 + Len(w) + Len(u)) : h[i] # "nul"
  BY <1>2, <1>3, <1>4, <1>5 DEF Header
<1>8. QED BY <1>3, <1>4, <1>6, <1>7

\* The receiver takes a header with its line's end, and the number in it.
LEMMA TakeHeader ==
  ASSUME NEW w, Word(w), NEW u, Word(u), NEW n \in Sizes, NEW h, Header(w, u, n, h),
         NEW b \in String, NEW s, s = h \o b
  PROVE  /\ Contains(s, "nl") /\ Find(s, "nl", 1) = Len(h)
         /\ CString(SubSeq(s, 1, Len(h))) = h /\ After(s, Len(h) + 1) = b
<1>1. h \in String /\ Len(w) \in Nat /\ Len(u) \in Nat /\ Len(h) = 10 + Len(w) + Len(u) /\ Len(b) \in Nat
  BY DEF Header, String
<1>2. Join(h, b, s)
  BY <1>1, Joined
<1>3. s \in String /\ Len(s) = Len(h) + Len(b) /\ \A i \in 1..Len(h) : s[i] = h[i]
  BY <1>2 DEF Join
<1>4. \A i \in 1..(Len(h) - 1) : s[i] # "nl"
  <2> SUFFICES ASSUME NEW i \in 1..(Len(h) - 1) PROVE s[i] # "nl"
    OBVIOUS
  <2>1. i \in 1..(9 + Len(w) + Len(u)) /\ i \in 1..Len(h)
    BY <1>1
  <2>2. QED BY <1>3, <2>1, HeaderMarks
<1>5. PICK k \in 1..Len(s) : k = Len(h)
  BY <1>1, <1>3
<1>6. s[k] = "nl"
  BY <1>1, <1>3, <1>5 DEF Header
<1>7. Contains(s, "nl") /\ Find(s, "nl", 1) = k
  <2>1. Find(s, "nl", 1) = k
    <3>1. \A j \in 1..(k - 1) : s[j] # "nl"
      BY <1>4, <1>5
    <3>2. QED BY <1>3, <1>6, <3>1, FindIs
  <2>2. QED BY <1>6, <2>1 DEF Contains
<1>8. SubSeq(s, 1, k) = h
  <2>1. PICK l \in Nat \ {0} : l = 1 /\ l - 1 = 0
    OBVIOUS
  <2>2. k \in Nat /\ k = Len(h) + (l - 1) /\ k <= Len(s) /\ \A i \in l..k : s[i] = h[i - (l - 1)]
    BY <1>1, <1>3, <1>5, <2>1
  <2>3. SubSeq(s, l, k) = h
    BY ZenonT(30), <1>1, <1>3, <2>2, Between
  <2>4. QED BY <2>1, <2>3
<1>9. CString(h) = h
  BY <1>1, HeaderMarks DEF CString, Contains
<1>10. SubSeq(s, k + 1, Len(s)) = b
  <2>1. PICK l \in Nat \ {0}, e \in Nat : l = k + 1 /\ l - 1 = k /\ e = Len(s)
    BY <1>1, <1>3, <1>5
  <2>2. e = Len(b) + (l - 1) /\ e <= Len(s) /\ \A i \in l..e : s[i] = b[i - (l - 1)]
    BY <1>1, <1>2, <1>3, <1>5, <2>1 DEF Join
  <2>3. SubSeq(s, l, e) = b
    BY ZenonT(30), <1>3, <2>1, <2>2, Between
  <2>4. QED BY <2>1, <2>3
<1>11. QED BY <1>5, <1>7, <1>8, <1>9, <1>10 DEF After

\* GetLength reads the field LENGTH, if no topic or name holds that word.
LEMMA TakeLength ==
  ASSUME NEW w, Word(w), NEW u, Word(u), NEW n \in Sizes, NEW h, Header(w, u, n, h),
         ~ Contains(w, "LENGTH"), ~ Contains(u, "LENGTH")
  PROVE  Find(h, "LENGTH", 1) = 7 + Len(w) + Len(u) /\ Stoi(After(h, 9 + Len(w) + Len(u))) = n
<1>1. h \in String /\ Len(w) \in Nat /\ Len(u) \in Nat /\ Len(h) = 10 + Len(w) + Len(u)
  BY DEF Header
<1>2. \A i \in 1..(6 + Len(w) + Len(u)) :
        \/ i \in {1, 2, 3 + Len(w), 4 + Len(w), 5 + Len(w), 6 + Len(w) + Len(u)}
        \/ i \in 3..(2 + Len(w)) \/ i \in (6 + Len(w))..(5 + Len(w) + Len(u))
  BY <1>1
<1>3. \A i \in 3..(2 + Len(w)) : h[i] # "LENGTH"
  <2>1. \A i \in 3..(2 + Len(w)) : h[i] = w[i - 2] /\ i - 2 \in 1..Len(w)
    BY <1>1 DEF Header
  <2>2. QED BY <2>1 DEF Contains
<1>4. \A i \in (6 + Len(w))..(5 + Len(w) + Len(u)) : h[i] # "LENGTH"
  <2>1. \A i \in (6 + Len(w))..(5 + Len(w) + Len(u)) :
          h[i] = u[i - (5 + Len(w))] /\ i - (5 + Len(w)) \in 1..Len(u)
    BY <1>1 DEF Header
  <2>2. QED BY <2>1 DEF Contains
<1>5. \A i \in 1..(6 + Len(w) + Len(u)) : h[i] # "LENGTH"
  BY <1>2, <1>3, <1>4 DEF Header
<1>6. Find(h, "LENGTH", 1) = 7 + Len(w) + Len(u)
  <2>1. PICK k \in 1..Len(h) : k = 7 + Len(w) + Len(u) /\ k - 1 = 6 + Len(w) + Len(u)
    BY <1>1
  <2>2. h[k] = "LENGTH"
    BY <2>1 DEF Header
  <2>3. Find(h, "LENGTH", 1) = k
    BY <1>1, <1>5, <2>1, <2>2, FindIs
  <2>4. QED BY <2>1, <2>3
<1>7. Stoi(After(h, 9 + Len(w) + Len(u))) = n
  <2> DEFINE t == SubSeq(h, 9 + Len(w) + Len(u), Len(h))
  <2>1. t \in String /\ Len(t) = 2 /\ t[1] = h[9 + Len(w) + Len(u)]
    BY <1>1, Piece
  <2> HIDE DEF t
  <2>2. 1 \in 1..Len(t) /\ t[1] = Numeral[n] /\ \A j \in 1..(1 - 1) : t[j] = "sp"
    BY <2>1 DEF Header
  <2>3. Stoi(t) = n
    BY <2>1, <2>2, StoiIs
  <2>4. QED BY <2>3 DEF t, After
<1>8. QED BY <1>6, <1>7

\* callbacks_thread takes apart a header with any text behind it.
LEMMA TakeMessage ==
  ASSUME NEW w, Word(w), NEW u, Word(u), NEW n \in Sizes, NEW h, Header(w, u, n, h),
         NEW c \in String, NEW s, Join(h, c, s)
  PROVE  /\ Starts(s) /\ ~ ParseThrows(s)
         /\ Parse(s) = [type |-> "MESSAGE", topic |-> w, sender |-> u, body |-> c]
<1>1. /\ h \in String /\ Len(w) \in Nat /\ Len(u) \in Nat /\ Len(h) = 10 + Len(w) + Len(u) /\ Len(c) \in Nat
      /\ w \in String /\ u \in String
  BY DEF Header, String, Word
<1>2. Join(h, c, s)
  OBVIOUS
<1>3. s \in String /\ Len(s) = Len(h) + Len(c) /\ Len(s) \in Nat /\ \A i \in 1..Len(h) : s[i] = h[i]
  BY <1>1, <1>2 DEF Join
<1>4. /\ {1, 2, 3 + Len(w), 4 + Len(w), 6 + Len(w) + Len(u), 7 + Len(w) + Len(u), 9 + Len(w) + Len(u),
           10 + Len(w) + Len(u)} \subseteq 1..Len(h)
      /\ \A i \in 3..(2 + Len(w)) : i \in 1..Len(h)
      /\ \A i \in (6 + Len(w))..(5 + Len(w) + Len(u)) : i \in 1..Len(h)
  BY <1>1
<1>5. /\ s[1] = "MESSAGE" /\ s[2] = "sp" /\ s[3 + Len(w)] = "sp" /\ s[4 + Len(w)] = "FROM"
      /\ s[6 + Len(w) + Len(u)] = "sp" /\ s[7 + Len(w) + Len(u)] = "LENGTH"
      /\ s[9 + Len(w) + Len(u)] = Numeral[n] /\ s[10 + Len(w) + Len(u)] = "nl"
      /\ \A i \in 3..(2 + Len(w)) : s[i] = w[i - 2] /\ s[i] # "sp"
      /\ \A i \in (6 + Len(w))..(5 + Len(w) + Len(u)) : s[i] = u[i - (5 + Len(w))] /\ s[i] # "sp"
  <2>1. /\ s[1] = h[1] /\ s[2] = h[2] /\ s[3 + Len(w)] = h[3 + Len(w)] /\ s[4 + Len(w)] = h[4 + Len(w)]
        /\ s[6 + Len(w) + Len(u)] = h[6 + Len(w) + Len(u)] /\ s[7 + Len(w) + Len(u)] = h[7 + Len(w) + Len(u)]
        /\ s[9 + Len(w) + Len(u)] = h[9 + Len(w) + Len(u)] /\ s[10 + Len(w) + Len(u)] = h[10 + Len(w) + Len(u)]
    BY <1>3, <1>4
  <2>2. \A i \in 3..(2 + Len(w)) : s[i] = h[i] /\ h[i] = w[i - 2] /\ h[i] # "sp"
    <3>1. \A i \in 3..(2 + Len(w)) : h[i] # "sp"
      BY HeaderMarks
    <3>2. \A i \in 3..(2 + Len(w)) : h[i] = w[i - 2]
      BY DEF Header
    <3>3. QED BY <1>3, <1>4, <3>1, <3>2
  <2>3. \A i \in (6 + Len(w))..(5 + Len(w) + Len(u)) :
          s[i] = h[i] /\ h[i] = u[i - (5 + Len(w))] /\ h[i] # "sp"
    <3>1. \A i \in (6 + Len(w))..(5 + Len(w) + Len(u)) : h[i] # "sp"
      BY HeaderMarks
    <3>2. \A i \in (6 + Len(w))..(5 + Len(w) + Len(u)) : h[i] = u[i - (5 + Len(w))]
      BY DEF Header
    <3>3. QED BY <1>3, <1>4, <3>1, <3>2
  <2>4. QED BY <2>1, <2>2, <2>3 DEF Header
<1>6. Find(s, "sp", 1) = 2
  <2>1. PICK k \in 1..Len(s) : k = 2
    BY <1>1, <1>3
  <2>2. s[k] = "sp" /\ \A j \in 1..(k - 1) : s[j] # "sp"
    BY <1>5, <2>1
  <2>3. QED BY <1>3, <2>1, <2>2, FindIs
<1>f. ASSUME NEW a, NEW l \in Nat, NEW k \in Nat, k \in l..Len(s), s[k] = a, \A j \in l..(k - 1) : s[j] # a
      PROVE  Find(s, a, l) = k
  BY <1>3, <1>f, FindIs
<1>7. Find(s, "sp", 3) = 3 + Len(w)
  <2>1. PICK l \in Nat, k \in Nat : k \in l..Len(s) /\ l = 3 /\ k = 3 + Len(w) /\ k - 1 = 2 + Len(w)
    <3>1. 3 + Len(w) \in Nat /\ 3 + Len(w) \in 3..Len(s) /\ (3 + Len(w)) - 1 = 2 + Len(w)
      BY <1>1, <1>3
    <3>2. 3 \in Nat
      OBVIOUS
    <3>3. QED BY <3>1, <3>2, Zenon
  <2>2. k \in l..Len(s) /\ s[k] = "sp" /\ \A j \in l..(k - 1) : s[j] # "sp"
    BY <1>5, <2>1
  <2>3. Find(s, "sp", l) = k
    BY <1>f, <2>2
  <2>4. QED BY <2>1, <2>3
<1>8. \A k \in 1..Len(s) : Find(s, s[k], k) = k
  BY <1>3, FindIs
<1>9. Find(s, "FROM", 4 + Len(w)) = 4 + Len(w)
  <2>1. 4 + Len(w) \in 1..Len(s)
    BY <1>1, <1>3
  <2>2. QED BY <1>5, <1>8, <2>1
<1>10. Find(s, "sp", 6 + Len(w)) = 6 + Len(w) + Len(u)
  <2>1. PICK l \in Nat, k \in Nat : k \in l..Len(s) /\ l = 6 + Len(w) /\ k = 6 + Len(w) + Len(u) /\ k - 1 = 5 + Len(w) + Len(u)
    BY <1>1, <1>3
  <2>2. k \in l..Len(s) /\ s[k] = "sp" /\ \A j \in l..(k - 1) : s[j] # "sp"
    BY <1>5, <2>1
  <2>3. Find(s, "sp", l) = k
    BY <1>f, <2>2
  <2>4. QED BY <2>1, <2>3
<1>11. Find(s, "LENGTH", 7 + Len(w) + Len(u)) = 7 + Len(w) + Len(u)
  <2>1. 7 + Len(w) + Len(u) \in 1..Len(s)
    BY <1>1, <1>3
  <2>2. QED BY <1>5, <1>8, <2>1
<1>12. Find(s, "nl", 9 + Len(w) + Len(u)) = 10 + Len(w) + Len(u)
  <2>1. PICK l \in Nat, k \in Nat : k \in l..Len(s) /\ l = 9 + Len(w) + Len(u) /\ k = 10 + Len(w) + Len(u) /\ k - 1 = l
    BY <1>1, <1>3
  <2>2. Numeral[n] # "nl"
    BY Words
  <2>3. k \in l..Len(s) /\ s[k] = "nl" /\ \A j \in l..(k - 1) : s[j] # "nl"
    BY <1>5, <2>1, <2>2
  <2>4. Find(s, "nl", l) = k
    BY <1>f, <2>3
  <2>5. QED BY <2>1, <2>4
<1>13. SubSeq(s, 1, 1) = <<"MESSAGE">>
  <2>1. PICK l \in Nat \ {0} : l = 1 /\ l - 1 = 0
    OBVIOUS
  <2>m. PICK m : m = <<"MESSAGE">>
    OBVIOUS
  <2>2. "MESSAGE" \in Token
    BY Words DEF Protocol
  <2>3. m \in String /\ Len(m) = 1 /\ m[1] = "MESSAGE"
    BY <2>m, <2>2 DEF String
  <2>4. l \in Nat /\ l = Len(m) + (l - 1) /\ l <= Len(s) /\ \A i \in l..l : s[i] = m[i - (l - 1)]
    BY <1>1, <1>3, <1>5, <2>1, <2>3
  <2>5. SubSeq(s, l, l) = m
    BY <1>3, <2>3, <2>4, Between
  <2>6. QED BY <2>1, <2>m, <2>5
<1>14. SubSeq(s, 3, 2 + Len(w)) = w
  <2>1. 2 + Len(w) <= Len(s)
    BY <1>1, <1>3
  <2>2. QED BY <1>1, <1>3, <1>5, <2>1, FirstWord
<1>15. SubSeq(s, 6 + Len(w), 5 + Len(w) + Len(u)) = u
  <2>1. PICK l \in Nat \ {0}, k \in Nat :
          l = 6 + Len(w) /\ k = 5 + Len(w) + Len(u) /\ l - 1 = 5 + Len(w) /\ k <= Len(s) /\ k = Len(u) + (l - 1)
    BY <1>1, <1>3
  <2>2. \A i \in l..k : s[i] = u[i - (l - 1)]
    BY <1>5, <2>1
  <2>3. SubSeq(s, l, k) = u
    BY ZenonT(30), <1>1, <1>3, <2>1, <2>2, Between
  <2>4. QED BY <2>1, <2>3
<1>16. SubSeq(s, 11 + Len(w) + Len(u), Len(s)) = c
  <2>1. PICK l \in Nat \ {0}, k \in Nat :
          l = 11 + Len(w) + Len(u) /\ k = Len(s) /\ l - 1 = Len(h) /\ l = Len(h) + 1 /\ k = Len(c) + (l - 1) /\ k <= Len(s)
    BY <1>1, <1>3
  <2>2. \A i \in l..k : s[i] = c[i - (l - 1)]
    BY <1>2, <1>3, <2>1 DEF Join
  <2>3. SubSeq(s, l, k) = c
    BY <1>3, <2>1, <2>2, Between
  <2>4. QED BY <2>1, <2>3
<1>17. Starts(s)
  BY <1>6, <1>13 DEF Starts, Field
<1>18. Field(s, 3, "sp") = w
  <2>1. (3 + Len(w)) - 1 = 2 + Len(w) /\ 3 + Len(w) # 0
    BY <1>1
  <2>2. QED BY <1>7, <1>14, <2>1 DEF Field
<1>19. Field(s, 6 + Len(w), "sp") = u
  <2>1. (6 + Len(w) + Len(u)) - 1 = 5 + Len(w) + Len(u) /\ 6 + Len(w) + Len(u) # 0
    BY <1>1
  <2>2. QED BY <1>10, <1>15, <2>1 DEF Field
<1>20. FromPos(s) = 4 + Len(w) /\ FromPos(s) + 2 = 6 + Len(w) /\ FromPos(s) # 0 /\ FromPos(s) # Len(s)
  <2>1. /\ (3 + Len(w)) + 1 = 4 + Len(w) /\ (4 + Len(w)) + 2 = 6 + Len(w)
        /\ 4 + Len(w) # 0 /\ 4 + Len(w) # Len(s)
    BY <1>1, <1>3
  <2>2. QED BY <1>7, <1>9, <2>1 DEF FromPos
<1>21. LengthPos(s) = 7 + Len(w) + Len(u) /\ LengthPos(s) + 2 = 9 + Len(w) + Len(u) /\ LengthPos(s) # 0
  <2>1. /\ (6 + Len(w) + Len(u)) + 1 = 7 + Len(w) + Len(u)
        /\ (7 + Len(w) + Len(u)) + 2 = 9 + Len(w) + Len(u) /\ 7 + Len(w) + Len(u) # 0
    BY <1>1
  <2>2. QED BY <1>10, <1>11, <1>20, <2>1 DEF LengthPos
<1>22. After(s, Find(s, "nl", 9 + Len(w) + Len(u)) + 1) = c
  <2>1. (10 + Len(w) + Len(u)) + 1 = 11 + Len(w) + Len(u)
    BY <1>1
  <2>2. QED BY <1>12, <1>16, <2>1 DEF After
<1>23. Stoi(Field(s, 9 + Len(w) + Len(u), "nl")) = n /\ n \in Nat
  <2>1. PICK l \in Nat \ {0} :
          /\ l = 9 + Len(w) + Len(u) /\ 10 + Len(w) + Len(u) = l + 1 /\ (l + 1) - 1 = l
          /\ l <= Len(s) /\ l + 1 # 0 /\ l - l + 1 = 1 /\ l + 1 - 1 = l
    BY <1>1, <1>3
  <2> DEFINE t == SubSeq(s, l, l)
  <2>2. t \in String /\ Len(t) = 1 /\ t[1] = s[l]
    <3>1. /\ SubSeq(s, l, l) \in String /\ Len(SubSeq(s, l, l)) = 1
          /\ \A i \in 1..(l - l + 1) : SubSeq(s, l, l)[i] = s[l + i - 1]
      BY <1>3, <2>1, Piece
    <3>2. 1 \in 1..(l - l + 1)
      BY <2>1
    <3>3. QED BY <2>1, <3>1, <3>2
  <2>3. Field(s, l, "nl") = t
    BY <1>12, <2>1 DEF Field
  <2> HIDE DEF t
  <2>4. 1 \in 1..Len(t) /\ t[1] = Numeral[n] /\ \A j \in 1..(1 - 1) : t[j] = "sp"
    BY <1>5, <2>1, <2>2
  <2>5. Stoi(t) = n
    BY <2>2, <2>4, StoiIs
  <2>6. n \in Nat
    BY Words
  <2>7. QED BY <2>1, <2>3, <2>5, <2>6
<1>24. ~ ParseThrows(s)
  <2>1. Stoi(Field(s, LengthPos(s) + 2, "nl")) = n
    BY <1>21, <1>23
  <2>2. ~ (n < 0)
    BY <1>23
  <2>3. ~ (Stoi(Field(s, LengthPos(s) + 2, "nl")) < 0)
    BY <2>1, <2>2, Zenon
  <2>4. QED BY <1>20, <1>21, <2>3, Zenon DEF ParseThrows
<1>25. Parse(s) = [type |-> "MESSAGE", topic |-> w, sender |-> u, body |-> c]
  BY <1>18, <1>19, <1>20, <1>21, <1>22 DEF Parse
<1>26. QED BY <1>17, <1>24, <1>25

-----------------------------------------------------------------------------
(* The invariant of the receiver's connection *)

HeaderOf(m) == HeaderText(m.topic, m.sender, Len(m.body))
Taken(m)    == HeaderOf(m) \o CString(m.body)
Seen(m)     == [m EXCEPT !.body = CString(@)]

AllPlain == \A i \in 1..given : Plain(mailed[i])

\* The messages given to the receiver are those shown, those in the inbox, and
\* the one it is taking apart, in this order; of that one, each point of the
\* receiver has what lies before it in header and need, and the rest in in.
Intact ==
  /\ inbox \in Seq(String) /\ shown \in Seq({Seen(m) : m \in MailItem})
  /\ given = Len(shown) + Len(inbox) + (IF rcv = "retrieve" THEN 0 ELSE 1)
  /\ \A i \in 1..Len(shown) : shown[i] = Seen(mailed[i])
  /\ \A i \in 1..Len(inbox) : inbox[i] = Taken(mailed[Len(shown) + i])
  /\ rcv = "retrieve" => in = <<>>
  /\ rcv = "line" => in = Reply(mailed[given])
  /\ rcv \in {"length", "body"} => header = HeaderOf(mailed[given]) /\ in = mailed[given].body
  /\ rcv = "body" => need = Len(mailed[given].body)

Received ==
  /\ given \in 0..Len(mailed) /\ rcv \in {"retrieve", "line", "length", "body"}
  /\ AllPlain => Intact

\* What the server makes of a message.
LEMMA MailIs ==
  ASSUME NEW m \in MailItem
  PROVE  /\ Word(m.topic) /\ Word(m.sender) /\ m.body \in String /\ Len(m.body) \in Sizes
         /\ Header(m.topic, m.sender, Len(m.body), HeaderOf(m))
         /\ Reply(m) = HeaderOf(m) \o m.body
         /\ m.topic \in Listened
         /\ Seen(m) = [type |-> "MESSAGE", topic |-> m.topic, sender |-> m.sender, body |-> CString(m.body)]
<1>1. /\ m.topic \in Listened /\ m.sender \in Others \cup {Self} /\ m.body \in Bodies
      /\ m = [type |-> "MESSAGE", topic |-> m.topic, sender |-> m.sender, body |-> m.body]
  BY DEF MailItem
<1>2. m.topic \in Topics \cup Others \cup {Self} /\ m.sender \in Topics \cup Others \cup {Self}
  BY <1>1, ListenedAssumption
<1>3. Word(m.topic) /\ Word(m.sender) /\ m.body \in String /\ Len(m.body) \in Sizes
  BY <1>1, <1>2, Texts
<1>4. m.topic \in String /\ m.sender \in String
  BY <1>3 DEF Word
<1>5. Header(m.topic, m.sender, Len(m.body), HeaderOf(m))
  BY <1>3, <1>4, Headed DEF HeaderOf
<1>6. Reply(m) = HeaderOf(m) \o m.body
  BY DEF Reply, HeaderOf, HeaderText
<1>7. Seen(m) = [type |-> "MESSAGE", topic |-> m.topic, sender |-> m.sender, body |-> CString(m.body)]
  BY <1>1 DEF Seen
<1>8. QED BY <1>1, <1>3, <1>5, <1>6, <1>7

\* What the callbacks get of a text that holds it.
LEMMA TakenIsSeen ==
  ASSUME NEW m \in MailItem
  PROVE  /\ Taken(m) \in String /\ Starts(Taken(m)) /\ ~ ParseThrows(Taken(m))
         /\ Parse(Taken(m)) = Seen(m) /\ Parse(Taken(m)).topic \in Listened
<1>1. PICK h \in String, c \in String : h = HeaderOf(m) /\ c = CString(m.body)
  BY MailIs, CStringIs DEF Header
<1>2. Join(h, c, Taken(m))
  BY <1>1, Joined DEF Taken
<1>3. PICK s \in String : s = Taken(m) /\ Join(h, c, s)
  BY <1>2 DEF Join
<1>4. PICK n \in Sizes : Header(m.topic, m.sender, n, h)
  BY <1>1, MailIs
<1>5. /\ Starts(s) /\ ~ ParseThrows(s)
      /\ Parse(s) = [type |-> "MESSAGE", topic |-> m.topic, sender |-> m.sender, body |-> c]
  BY <1>3, <1>4, MailIs, TakeMessage
<1>6. Parse(s) = Seen(m)
  BY <1>1, <1>5, MailIs
<1>7. Parse(s).topic = m.topic
  BY <1>5
<1>8. QED BY <1>3, <1>5, <1>6, <1>7, MailIs

\* Mail is only added to.
LEMMA MailGrows ==
  ASSUME Requests, [Next]_vars
  PROVE  /\ Len(mailed) \in Nat /\ Len(mailed') \in Nat /\ Len(mailed) <= Len(mailed')
         /\ \A i \in 1..Len(mailed) : mailed'[i] = mailed[i]
<1>1. mailed' = mailed \/ \E m : mailed' = Append(mailed, m)
  BY DEF Next, Running, Publisher, Server, Receiver, Call, Send, Answered, ServerHandle, ServerMail,
         ServerRetrieve, GetLine, GetLength, NoLength, ReadBody, Overrun, Callbacks, Dispatch, DispatchThrows, vars
<1>2. mailed \in Seq(MailItem)
  BY DEF Requests
<1>3. ASSUME NEW m, mailed' = Append(mailed, m)
      PROVE  Len(mailed') = Len(mailed) + 1 /\ \A i \in 1..Len(mailed) : mailed'[i] = mailed[i]
  <2>1. mailed \in Seq(MailItem \cup {m})
    BY <1>2, SeqMonotonic
  <2>2. QED BY <1>3, <2>1, AppendProperties
<1>4. QED BY <1>1, <1>2, <1>3

\* The steps that touch what the invariant is about.
LEMMA ReceiverSteps ==
  ASSUME [Next]_vars
  PROVE  \/ ServerRetrieve \/ GetLine \/ GetLength \/ ReadBody \/ Overrun \/ Dispatch \/ DispatchThrows
         \/ UNCHANGED <<in, rcv, header, need, inbox, given, shown>>
BY DEF Next, Running, Publisher, Server, Receiver, Callbacks, Call, Send, Answered, ServerHandle,
       ServerMail, NoLength, vars, rcvVars

\* What was so before mail was added is so of the same messages after.
LEMMA StillPlain ==
  ASSUME Requests, Received, [Next]_vars, given <= given', AllPlain'
  PROVE  AllPlain /\ given \in Nat /\ \A i \in 1..given : mailed'[i] = mailed[i]
<1>1. given \in 0..Len(mailed) /\ Len(mailed) \in Nat /\ \A i \in 1..Len(mailed) : mailed'[i] = mailed[i]
  BY MailGrows DEF Received
<1>2. given \in Nat /\ \A i \in 1..given : mailed'[i] = mailed[i]
  BY <1>1
<1>3. CASE given' \in Nat
  <2>1. \A i \in 1..given : i \in 1..given'
    BY <1>2, <1>3
  <2>2. \A i \in 1..given' : Plain(mailed'[i])
    BY DEF AllPlain, Plain
  <2>3. QED BY <1>2, <2>1, <2>2 DEF AllPlain
<1>4. CASE given' = given
  BY <1>2, <1>3, <1>4
<1>5. given' = given \/ given' = given + 1
  BY ReceiverSteps DEF ServerRetrieve, GetLine, GetLength, ReadBody, Overrun, Dispatch, DispatchThrows
<1>6. QED BY <1>2, <1>3, <1>4, <1>5

\* The message that the receiver is taking apart.
LEMMA Current ==
  ASSUME Requests, Received, AllPlain, rcv # "retrieve"
  PROVE  /\ given \in 1..Len(mailed) /\ mailed[given] \in MailItem /\ Plain(mailed[given])
<1>1. given \in 0..Len(mailed) /\ given = Len(shown) + Len(inbox) + 1
  BY DEF Received, Intact
<1>2. Len(shown) \in Nat /\ Len(inbox) \in Nat
  BY DEF Received, Intact
<1>3. given \in 1..Len(mailed) /\ given \in 1..given
  BY <1>1, <1>2 DEF Requests
<1>4. QED BY <1>3 DEF Requests, AllPlain

\* The server gives the receiver its next message.
LEMMA RetrieveStep ==
  ASSUME Requests, Received, [Next]_vars, ServerRetrieve
  PROVE  Received'
<1>1. /\ rcv = "retrieve" /\ given < Len(mailed) /\ given' = given + 1 /\ rcv' = "line"
      /\ in' = in \o Reply(mailed[given + 1]) /\ UNCHANGED <<header, need, inbox, mailed, shown>>
  BY DEF ServerRetrieve
<1>2. given \in 0..Len(mailed) /\ Len(mailed) \in Nat
  BY DEF Requests, Received
<1>3. given' \in 0..Len(mailed') /\ rcv' \in {"retrieve", "line", "length", "body"}
  BY <1>1, <1>2
<1>4. ASSUME AllPlain' PROVE Intact'
  <2>1. AllPlain
    BY <1>1, <1>2, <1>4, StillPlain
  <2>2. Intact
    BY <2>1 DEF Received
  <2>3. in' = Reply(mailed'[given'])
    <3>1. PICK m \in MailItem : m = mailed[given + 1]
      BY <1>1, <1>2 DEF Requests
    <3>2. PICK h \in String, b \in String : Reply(m) = h \o b
      BY MailIs DEF Header
    <3>3. h \o b \in String
      BY Joined DEF Join
    <3>4. PICK r \in String : r = Reply(m)
      BY <3>2, <3>3
    <3>5. <<>> \o r = r
      BY DEF String
    <3>6. QED BY <1>1, <2>2, <3>1, <3>4, <3>5 DEF Intact
  <2>4. given' = Len(shown') + Len(inbox') + 1
    BY <1>1, <1>2, <2>2 DEF Intact
  <2>5. QED BY <1>1, <2>2, <2>3, <2>4 DEF Intact
<1>5. QED BY <1>3, <1>4 DEF Received

\* The line that the receiver reads is the header.
LEMMA LineStep ==
  ASSUME Requests, Received, [Next]_vars, GetLine
  PROVE  Received'
<1>1. /\ rcv = "line" /\ rcv' = "length" /\ header' = CString(SubSeq(in, 1, Find(in, "nl", 1)))
      /\ in' = After(in, Find(in, "nl", 1) + 1) /\ UNCHANGED <<need, inbox, mailed, given, shown>>
  BY DEF GetLine
<1>2. given' \in 0..Len(mailed') /\ rcv' \in {"retrieve", "line", "length", "body"}
  BY <1>1 DEF Received
<1>3. ASSUME AllPlain' PROVE Intact'
  <2>1. AllPlain /\ Intact
    BY <1>1, <1>3 DEF AllPlain, Plain, Received
  <2>2. PICK m \in MailItem : m = mailed[given]
    BY <1>1, <2>1, Current
  <2>3. header' = HeaderOf(m) /\ in' = m.body
    <3>1. PICK h, b \in String, n \in Sizes :
            /\ h = HeaderOf(m) /\ b = m.body /\ Header(m.topic, m.sender, n, h) /\ Word(m.topic) /\ Word(m.sender)
      BY MailIs DEF Header
    <3>2. in = h \o b
      BY <1>1, <2>1, <2>2, <3>1, MailIs DEF Intact
    <3>3. PICK s : s = in
      OBVIOUS
    <3>4. Find(s, "nl", 1) = Len(h) /\ CString(SubSeq(s, 1, Len(h))) = h /\ After(s, Len(h) + 1) = b
      BY <3>1, <3>2, <3>3, TakeHeader
    <3>5. QED BY <1>1, <3>1, <3>3, <3>4
  <2>4. QED BY <1>1, <2>1, <2>2, <2>3 DEF Intact
<1>4. QED BY <1>2, <1>3 DEF Received

\* The number it takes from the header is the body's length.
LEMMA LengthStep ==
  ASSUME Requests, Received, [Next]_vars, GetLength
  PROVE  Received'
<1>1. /\ rcv = "length" /\ rcv' = "body" /\ need' = Length
      /\ UNCHANGED <<in, header, inbox, mailed, given, shown>>
  BY DEF GetLength
<1>2. given' \in 0..Len(mailed') /\ rcv' \in {"retrieve", "line", "length", "body"}
  BY <1>1 DEF Received
<1>3. ASSUME AllPlain' PROVE Intact'
  <2>1. AllPlain /\ Intact
    BY <1>1, <1>3 DEF AllPlain, Plain, Received
  <2>2. PICK m \in MailItem : m = mailed[given] /\ Plain(m)
    BY <1>1, <2>1, Current
  <2>3. Length = Len(m.body)
    <3>1. PICK h \in String, n \in Sizes : h = HeaderOf(m) /\ n = Len(m.body) /\ Header(m.topic, m.sender, n, h)
      BY MailIs DEF Header
    <3>2. header = h
      BY <1>1, <2>1, <2>2, <3>1 DEF Intact
    <3>3. PICK w, u : w = m.topic /\ u = m.sender
      OBVIOUS
    <3>4. Word(w) /\ Word(u) /\ Header(w, u, n, h) /\ ~ Contains(w, "LENGTH") /\ ~ Contains(u, "LENGTH")
      BY <2>2, <3>1, <3>3, MailIs DEF Plain
    <3>5. Find(h, "LENGTH", 1) = 7 + Len(w) + Len(u) /\ Stoi(After(h, 9 + Len(w) + Len(u))) = n
      BY <3>4, TakeLength
    <3>6. Len(w) \in Nat /\ Len(u) \in Nat
      BY <3>4 DEF Header
    <3>7. PICK k \in Nat : k = 7 + Len(w) + Len(u) /\ k # 0 /\ k + 2 = 9 + Len(w) + Len(u)
      BY <3>6
    <3>8. QED BY <3>1, <3>2, <3>5, <3>7 DEF Length
  <2>4. QED BY <1>1, <2>1, <2>2, <2>3 DEF Intact
<1>4. QED BY <1>2, <1>3 DEF Received

\* What it then reads is the body, and nothing is left over.
LEMMA BodyStep ==
  ASSUME Requests, Received, [Next]_vars, ReadBody
  PROVE  Received'
<1>1. /\ rcv = "body" /\ rcv' = "retrieve" /\ inbox' = Append(inbox, header \o CString(SubSeq(in, 1, need)))
      /\ in' = After(in, need + 1) /\ UNCHANGED <<mailed, given, shown>>
  BY DEF ReadBody, Text
<1>2. given' \in 0..Len(mailed') /\ rcv' \in {"retrieve", "line", "length", "body"}
  BY <1>1 DEF Received
<1>3. ASSUME AllPlain' PROVE Intact'
  <2>1. AllPlain /\ Intact
    BY <1>1, <1>3 DEF AllPlain, Plain, Received
  <2>2. PICK m \in MailItem : m = mailed[given]
    BY <1>1, <2>1, Current
  <2>3. header = HeaderOf(m) /\ in = m.body /\ need = Len(m.body)
    BY <1>1, <2>1, <2>2 DEF Intact
  <2>4. PICK b \in String : b = m.body
    BY MailIs
  <2>5. SubSeq(b, 1, Len(b)) = b /\ SubSeq(b, Len(b) + 1, Len(b)) = <<>>
    BY <2>4 DEF String
  <2>6. inbox' = Append(inbox, Taken(m)) /\ in' = <<>>
    BY <1>1, <2>3, <2>4, <2>5 DEF Taken, After
  <2>7. /\ inbox' \in Seq(String) /\ Len(inbox') = Len(inbox) + 1
        /\ \A i \in 1..Len(inbox) : inbox'[i] = inbox[i]
        /\ inbox'[Len(inbox) + 1] = Taken(m)
    <3>1. Taken(m) \in String /\ inbox \in Seq(String)
      BY <2>1, TakenIsSeen DEF Intact
    <3>2. QED BY <2>6, <3>1, AppendProperties
  <2>8. Len(inbox) \in Nat /\ Len(shown) \in Nat /\ given = Len(shown) + Len(inbox) + 1
    BY <1>1, <2>1 DEF Intact
  <2>9. ASSUME NEW i \in 1..Len(inbox') PROVE inbox'[i] = Taken(mailed'[Len(shown') + i])
    <3>1. CASE i \in 1..Len(inbox)
      BY <1>1, <2>1, <2>7, <3>1 DEF Intact
    <3>2. CASE i = Len(inbox) + 1
      <4>1. Len(shown') + i = given
        BY <1>1, <2>8, <3>2
      <4>2. QED BY <1>1, <2>2, <2>7, <3>2, <4>1
    <3>3. QED BY <2>7, <2>8, <3>1, <3>2
  <2>10. given' = Len(shown') + Len(inbox')
    BY <1>1, <2>7, <2>8
  <2>11. QED BY <1>1, <2>1, <2>6, <2>7, <2>9, <2>10 DEF Intact
<1>4. QED BY <1>2, <1>3 DEF Received

\* A plain body fits the buffer.
LEMMA OverrunStep ==
  ASSUME Requests, Received, [Next]_vars, Overrun
  PROVE  Received'
<1>1. /\ rcv = "body" /\ rcv' \in {"retrieve", "body"} /\ need >= BufSize /\ UNCHANGED <<mailed, given>>
  BY DEF Overrun, rcvVars
<1>2. given' \in 0..Len(mailed') /\ rcv' \in {"retrieve", "line", "length", "body"}
  BY <1>1 DEF Received
<1>3. ASSUME AllPlain' PROVE FALSE
  <2>1. AllPlain /\ Intact
    BY <1>1, <1>3 DEF AllPlain, Plain, Received
  <2>2. PICK m \in MailItem : m = mailed[given] /\ Plain(m)
    BY <1>1, <2>1, Current
  <2>3. need = Len(m.body) /\ Len(m.body) < BufSize /\ Len(m.body) \in Sizes
    BY <1>1, <2>1, <2>2, MailIs DEF Intact, Plain
  <2>4. QED BY <1>1, <2>3, SizeAssumption
<1>4. QED BY <1>2, <1>3 DEF Received

\* The callback gets the oldest text of the inbox.
LEMMA DispatchStep ==
  ASSUME Requests, Received, [Next]_vars, Dispatch
  PROVE  Received'
<1>1. /\ inbox # <<>> /\ inbox' = Tail(inbox)
      /\ shown' = IF Starts(Head(inbox)) /\ Parse(Head(inbox)).topic \in Listened
                  THEN Append(shown, Parse(Head(inbox))) ELSE shown
      /\ UNCHANGED <<in, rcv, header, need, mailed, given>>
  BY DEF Dispatch, Take, rcvVars
<1>2. given' \in 0..Len(mailed') /\ rcv' \in {"retrieve", "line", "length", "body"}
  BY <1>1 DEF Received
<1>3. ASSUME AllPlain' PROVE Intact'
  <2>1. AllPlain /\ Intact
    BY <1>1, <1>3 DEF AllPlain, Plain, Received
  <2>2. /\ inbox \in Seq(String) /\ Len(inbox) \in Nat \ {0} /\ Len(shown) \in Nat
        /\ given \in 0..Len(mailed) /\ Len(mailed) \in Nat
        /\ given = Len(shown) + Len(inbox) + (IF rcv = "retrieve" THEN 0 ELSE 1)
    BY <1>1, <2>1 DEF Intact, Received, Requests
  <2>3. PICK m \in MailItem : m = mailed[Len(shown) + 1]
    <3>1. Len(shown) + 1 \in 1..Len(mailed)
      BY <2>2
    <3>2. QED BY <3>1 DEF Requests
  <2>4. Head(inbox) = Taken(m)
    <3>1. Head(inbox) = inbox[1] /\ 1 \in 1..Len(inbox)
      BY <2>2
    <3>2. QED BY <2>1, <2>3, <3>1 DEF Intact
  <2>5. shown' = Append(shown, Seen(m))
    BY <1>1, <2>4, TakenIsSeen
  <2>6. /\ shown' \in Seq({Seen(x) : x \in MailItem}) /\ Len(shown') = Len(shown) + 1
        /\ \A i \in 1..Len(shown) : shown'[i] = shown[i]
        /\ shown'[Len(shown) + 1] = Seen(m)
    <3>1. Seen(m) \in {Seen(x) : x \in MailItem} /\ shown \in Seq({Seen(x) : x \in MailItem})
      BY <2>1 DEF Intact
    <3>2. QED BY <2>5, <3>1, AppendProperties
  <2>7. /\ inbox' \in Seq(String) /\ Len(inbox') = Len(inbox) - 1
        /\ \A i \in 1..Len(inbox') : inbox'[i] = inbox[i + 1]
    BY <1>1, <2>2
  <2>8. \A i \in 1..Len(shown') : shown'[i] = Seen(mailed'[i])
    BY <1>1, <2>1, <2>2, <2>3, <2>6 DEF Intact
  <2>9. ASSUME NEW i \in 1..Len(inbox') PROVE inbox'[i] = Taken(mailed'[Len(shown') + i])
    <3>0. /\ Len(inbox) \in Nat \ {0} /\ Len(shown) \in Nat
          /\ Len(inbox') = Len(inbox) - 1 /\ Len(shown') = Len(shown) + 1
      BY <2>2, <2>6, <2>7
    <3>1. i + 1 \in 1..Len(inbox) /\ Len(shown) + (i + 1) = Len(shown') + i
      BY <3>0
    <3>2. inbox[i + 1] = Taken(mailed[Len(shown) + (i + 1)])
      BY <2>1, <3>1 DEF Intact
    <3>3. QED BY <1>1, <2>7, <3>1, <3>2
  <2>10. given' = Len(shown') + Len(inbox') + (IF rcv' = "retrieve" THEN 0 ELSE 1)
    <3>1. given' = given /\ rcv' = rcv /\ Len(shown') + Len(inbox') = Len(shown) + Len(inbox)
      BY <1>1, <2>2, <2>6, <2>7
    <3>2. QED BY <2>2, <3>1
  <2>11. QED BY <1>1, <2>1, <2>6, <2>7, <2>8, <2>9, <2>10 DEF Intact
<1>4. QED BY <1>2, <1>3 DEF Received

\* What throws is not a plain message.
LEMMA ThrowsStep ==
  ASSUME Requests, Received, [Next]_vars, DispatchThrows
  PROVE  Received'
<1>1. inbox # <<>> /\ ParseThrows(Head(inbox)) /\ UNCHANGED <<rcv, mailed, given>>
  BY DEF DispatchThrows, Take, rcvVars
<1>2. given' \in 0..Len(mailed') /\ rcv' \in {"retrieve", "line", "length", "body"}
  BY <1>1 DEF Received
<1>3. ASSUME AllPlain' PROVE FALSE
  <2>1. AllPlain /\ Intact
    BY <1>1, <1>3 DEF AllPlain, Plain, Received
  <2>2. /\ inbox \in Seq(String) /\ Len(inbox) \in Nat \ {0} /\ Len(shown) \in Nat
        /\ given \in 0..Len(mailed) /\ Len(mailed) \in Nat
        /\ given = Len(shown) + Len(inbox) + (IF rcv = "retrieve" THEN 0 ELSE 1)
    BY <1>1, <2>1 DEF Intact, Received, Requests
  <2>3. PICK m \in MailItem : m = mailed[Len(shown) + 1]
    <3>1. Len(shown) + 1 \in 1..Len(mailed)
      BY <2>2
    <3>2. QED BY <3>1 DEF Requests
  <2>4. Head(inbox) = Taken(m)
    <3>1. Head(inbox) = inbox[1] /\ 1 \in 1..Len(inbox)
      BY <2>2
    <3>2. QED BY <2>1, <2>3, <3>1 DEF Intact
  <2>5. QED BY <1>1, <2>4, TakenIsSeen
<1>4. QED BY <1>2, <1>3 DEF Received

\* The other steps only add mail.
LEMMA OtherStep ==
  ASSUME Requests, Received, [Next]_vars, UNCHANGED <<in, rcv, header, need, inbox, given, shown>>
  PROVE  Received'
<1>1. /\ given \in 0..Len(mailed) /\ Len(mailed) \in Nat /\ Len(mailed') \in Nat /\ Len(mailed) <= Len(mailed')
      /\ given' = given /\ rcv' = rcv
  BY MailGrows DEF Received
<1>2. given' \in 0..Len(mailed') /\ rcv' \in {"retrieve", "line", "length", "body"}
  BY <1>1 DEF Received
<1>3. ASSUME AllPlain' PROVE Intact'
  <2>1. AllPlain /\ Intact /\ \A i \in 1..given : mailed'[i] = mailed[i]
    BY <1>1, <1>3, StillPlain DEF Received
  <2>2. /\ Len(shown) \in Nat /\ Len(inbox) \in Nat
        /\ given = Len(shown) + Len(inbox) + (IF rcv = "retrieve" THEN 0 ELSE 1)
    BY <2>1 DEF Intact
  <2>3. \A i \in 1..Len(shown) : mailed'[i] = mailed[i]
    BY <1>1, <2>1, <2>2
  <2>4. \A i \in 1..Len(inbox) : mailed'[Len(shown) + i] = mailed[Len(shown) + i]
    BY <1>1, <2>1, <2>2
  <2>5. rcv # "retrieve" => mailed'[given] = mailed[given]
    BY <1>1, <2>1, <2>2
  <2>6. QED BY <2>1, <2>3, <2>4, <2>5 DEF Intact
<1>4. QED BY <1>2, <1>3 DEF Received

\* So far nothing has been received.
LEMMA InitReceived == Init => Received
BY DEF Init, Received, Intact

\* The callbacks get the messages of the server, in order, each as it was up to
\* a zero in its body, as long as none was one that the receiver cannot take
\* apart.
THEOREM MailIntact == Spec => []ShownAsMailed
<1>1. Requests /\ Received => ShownAsMailed
  <2> SUFFICES ASSUME Requests, Received, \A i \in 1..given : Plain(mailed[i])
               PROVE  /\ Len(shown) <= Len(mailed)
                      /\ \A i \in 1..Len(shown) : shown[i] = [mailed[i] EXCEPT !.body = CString(@)]
    BY DEF ShownAsMailed
  <2>1. Intact /\ given \in 0..Len(mailed) /\ Len(mailed) \in Nat
    BY DEF Received, AllPlain, Requests
  <2>2. Len(shown) <= Len(mailed)
    BY <2>1 DEF Intact
  <2>3. QED BY <2>1, <2>2 DEF Intact, Seen
<1>2. Init => Requests /\ Received
  BY InitRequests, InitReceived
<1>3. Requests /\ Received /\ [Next]_vars => (Requests /\ Received)'
  BY RequestsStep, ReceiverSteps, RetrieveStep, LineStep, LengthStep, BodyStep, OverrunStep, DispatchStep,
     ThrowsStep, OtherStep
<1>4. QED BY <1>1, <1>2, <1>3, PTL DEF Spec

=============================================================================
