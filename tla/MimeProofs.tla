------------------------------- MODULE MimeProofs -------------------------------
(***************************************************************************)
(* What mime2wl lays out, wl2mime takes apart again, for any mail: with its  *)
(* sender, recipients and subject, and, if it has a text for a body, with    *)
(* all its parts.  A mail that is handed over peer to peer is to that        *)
(* station alone.                                                            *)
(***************************************************************************)
EXTENDS Mime, SequenceTheorems, WellFoundedInduction, TLAPS

(* A set of numbers has a smallest one: what induction comes down to here.   *)
LEMMA Smallest ==
    ASSUME NEW S \in SUBSET Nat, S # {}
    PROVE  \E n \in S : \A k \in S : n =< k
  <1>1. PICK n \in S : \A k \in S : ~(<<k, n>> \in OpToRel(<, Nat))
    BY NatLessThanWellFounded, WFMin
  <1>2. \A k \in S : ~ (k < n)
    BY <1>1 DEF OpToRel
  <1>3. QED
    BY <1>2

(* Two texts, one behind the other.                                          *)
LEMMA JoinIs ==
    ASSUME NEW S, NEW s \in Seq(S), NEW t \in Seq(S)
    PROVE  /\ s \o t \in Seq(S) /\ Len(s \o t) = Len(s) + Len(t)
           /\ Len(s) \in Nat /\ Len(t) \in Nat
           /\ \A i \in 1 .. Len(s) : (s \o t)[i] = s[i]
           /\ \A i \in 1 .. Len(t) : (s \o t)[Len(s) + i] = t[i]
  <1>1. /\ s \o t \in Seq(S) /\ Len(s \o t) = Len(s) + Len(t)
        /\ \A i \in 1 .. Len(s) + Len(t) :
              (s \o t)[i] = IF i =< Len(s) THEN s[i] ELSE t[i - Len(s)]
    BY ConcatProperties
  <1>2. Len(s) \in Nat /\ Len(t) \in Nat
    BY LenProperties
  <1>3. ASSUME NEW i \in 1 .. Len(t)
        PROVE  (s \o t)[Len(s) + i] = t[i]
    BY <1>1, <1>2
  <1>4. QED
    BY <1>1, <1>2, <1>3

(* Of three it does not matter which two are joined first.                   *)
Regrouped(s, e, c, a) == (s \o (e \o c)) \o a = (s \o <<>>) \o (e \o (c \o a))

(* So it is for texts.                                                       *)
LEMMA Regroup ==
    ASSUME NEW S, NEW s \in Seq(S), NEW e \in Seq(S), NEW c \in Seq(S), NEW a \in Seq(S)
    PROVE  Regrouped(s, e, c, a)
  <1>1. e \o c \in Seq(S)
    BY ConcatProperties
  <1>2. (e \o c) \o a = e \o (c \o a)
    BY ConcatAssociative
  <1>3. (s \o (e \o c)) \o a = s \o ((e \o c) \o a)
    <2> DEFINE d == e \o c
    <2>1. d \in Seq(S)
      BY <1>1
    <2> HIDE DEF d
    <2>2. (s \o d) \o a = s \o (d \o a)
      BY <2>1, ConcatAssociative
    <2>3. QED
      BY <2>2 DEF d
  <1>4. s \o <<>> = s
    BY ConcatEmptySeq
  <1>5. QED
    BY <1>2, <1>3, <1>4 DEF Regrouped

(* c is s and t, a and b their lengths.                                      *)
Joined(c, s, t, a, b) ==
    /\ Len(c) = a + b
    /\ \A i \in 1 .. a : c[i] = s[i]
    /\ \A i \in 1 .. b : c[a + i] = t[i]

(* The same, with names for what is meant.                                   *)
LEMMA JoinedIs ==
    ASSUME NEW S, NEW s \in Seq(S), NEW t \in Seq(S),
           NEW a, NEW b, NEW c, a = Len(s), b = Len(t), c = s \o t
    PROVE  c \in Seq(S) /\ a \in Nat /\ b \in Nat /\ Joined(c, s, t, a, b)
  BY JoinIs DEF Joined

(* r is what is left of n tokens after the first a.                          *)
RestOf(r, s, a, n) == Len(r) = n - a /\ \A i \in 1 .. n - a : r[i] = s[a + i]

(* SubSeq gives it.                                                          *)
LEMMA RestIs ==
    ASSUME NEW S, NEW s \in Seq(S), NEW a \in Nat, NEW n, n = Len(s), a =< n,
           NEW r, r = SubSeq(s, a + 1, n)
    PROVE  r \in Seq(S) /\ n \in Nat /\ RestOf(r, s, a, n)
  <1> DEFINE f == a + 1
  <1>1. n \in Nat /\ \A i \in f .. n : s[i] \in S
    BY LenProperties, ElementOfSeq
  <1>2. /\ SubSeq(s, f, n) \in Seq(S)
        /\ Len(SubSeq(s, f, n)) = IF f <= n THEN (n - f) + 1 ELSE 0
        /\ \A i \in 1 .. (n - f) + 1 : SubSeq(s, f, n)[i] = s[(f + i) - 1]
    <2>1. f \in Int /\ n \in Int
      BY <1>1
    <2> HIDE DEF f
    <2>2. QED
      BY <1>1, <2>1, SubSeqProperties
  <1>3. r \in Seq(S) /\ Len(r) = n - a /\ \A i \in 1 .. n - a : r[i] = s[a + i]
    BY <1>1, <1>2
  <1>4. QED
    BY <1>1, <1>3 DEF RestOf

(* The first n of a text.                                                    *)
LEMMA FirstOnes ==
    ASSUME NEW S, NEW s \in Seq(S), NEW n \in Nat, n =< Len(s), NEW r, r = SubSeq(s, 1, n)
    PROVE  r \in Seq(S) /\ Len(r) = n /\ \A i \in 1 .. n : r[i] = s[i]
  <1>1. \A i \in 1 .. n : s[i] \in S
    BY LenProperties, ElementOfSeq
  <1>2. /\ SubSeq(s, 1, n) \in Seq(S)
        /\ Len(SubSeq(s, 1, n)) = IF 1 <= n THEN (n - 1) + 1 ELSE 0
        /\ \A i \in 1 .. (n - 1) + 1 : SubSeq(s, 1, n)[i] = s[(1 + i) - 1]
    BY <1>1, SubSeqProperties
  <1>3. QED
    BY <1>1, <1>2

-------------------------------------------------------------------------------
(* The headers.                                                              *)

(* A whole line that does not end the headers.                               *)
Lines == {t \in Tokens : t.key \notin {"cr", "char", "0xff", "lf"}}

(* What Headers writes.                                                      *)
HeaderOf(m) ==
    <<Token("From", Address(m.from), 0)>>
    \o Addresses("To", m.to) \o Addresses("Cc", m.cc) \o Addresses("Bcc", m.bcc)
    \o <<Token("Subject", <<m.subject>>, 0)>>
    \o (IF m.replyTo = <<>> THEN <<>> ELSE <<Token("Reply-To", m.replyTo, 0)>>)
    \o <<Token("Mbo", Mbo(m.from), 0)>>

(* Where in it the lines of each kind are.                                   *)
CcFrom(m)    == 1 + Len(m.to)
BccFrom(m)   == CcFrom(m) + Len(m.cc)
SubjectAt(m) == BccFrom(m) + Len(m.bcc) + 1
MboAt(m)     == IF m.replyTo = <<>> THEN SubjectAt(m) + 1 ELSE SubjectAt(m) + 2

(* A text that begins with the headers of m.                                 *)
Begins(m, h) ==
    /\ MboAt(m) =< Len(h)
    /\ h[1] = Token("From", Address(m.from), 0)
    /\ \A i \in 1 .. Len(m.to)  : h[1 + i] = Token("To", Address(m.to[i]), 0)
    /\ \A i \in 1 .. Len(m.cc)  : h[CcFrom(m) + i] = Token("Cc", Address(m.cc[i]), 0)
    /\ \A i \in 1 .. Len(m.bcc) : h[BccFrom(m) + i] = Token("Bcc", Address(m.bcc[i]), 0)
    /\ h[SubjectAt(m)] = Token("Subject", <<m.subject>>, 0)
    /\ m.replyTo # <<>> => h[SubjectAt(m) + 1] = Token("Reply-To", m.replyTo, 0)
    /\ h[MboAt(m)] = Token("Mbo", Mbo(m.from), 0)

(* A mail's parts, with their types.                                         *)
LEMMA MailHas ==
    ASSUME NEW m \in Mail
    PROVE  /\ m.from \in Word \X Word /\ m.to \in Seq(Word \X Word)
           /\ m.cc \in Seq(Word \X Word) /\ m.bcc \in Seq(Word \X Word)
           /\ m.replyTo \in Seq(Word) /\ m.subject \in Word
           /\ m.parts \in Seq([kind : Word, name : Word, content : Seq(Tokens)])
           /\ Len(m.to) \in Nat /\ Len(m.cc) \in Nat /\ Len(m.bcc) \in Nat
           /\ CcFrom(m) \in Nat /\ BccFrom(m) \in Nat /\ SubjectAt(m) \in Nat /\ MboAt(m) \in Nat
           /\ 1 =< CcFrom(m) /\ CcFrom(m) =< BccFrom(m) /\ BccFrom(m) < SubjectAt(m)
           /\ SubjectAt(m) < MboAt(m)
           /\ CcFrom(m) = 1 + Len(m.to) /\ BccFrom(m) = CcFrom(m) + Len(m.cc)
           /\ SubjectAt(m) = BccFrom(m) + Len(m.bcc) + 1
  <1>1. /\ m.from \in Word \X Word /\ m.to \in Seq(Word \X Word)
        /\ m.cc \in Seq(Word \X Word) /\ m.bcc \in Seq(Word \X Word)
        /\ m.replyTo \in Seq(Word) /\ m.subject \in Word
        /\ m.parts \in Seq([kind : Word, name : Word, content : Seq(Tokens)])
    BY DEF Mail
  <1>2. Len(m.to) \in Nat /\ Len(m.cc) \in Nat /\ Len(m.bcc) \in Nat
    BY <1>1, LenProperties
  <1>3. CcFrom(m) \in Nat /\ BccFrom(m) \in Nat /\ 1 =< CcFrom(m) /\ CcFrom(m) =< BccFrom(m)
    <2>1. CcFrom(m) \in Nat /\ 1 =< CcFrom(m)
      BY <1>2 DEF CcFrom
    <2>2. BccFrom(m) \in Nat /\ CcFrom(m) =< BccFrom(m)
      BY <1>2, <2>1 DEF BccFrom
    <2>3. QED
      BY <2>1, <2>2
  <1>4. SubjectAt(m) \in Nat /\ BccFrom(m) < SubjectAt(m)
    BY <1>2, <1>3 DEF SubjectAt
  <1>5. MboAt(m) \in Nat /\ SubjectAt(m) < MboAt(m)
    BY <1>4 DEF MboAt
  <1>6. /\ CcFrom(m) = 1 + Len(m.to) /\ BccFrom(m) = CcFrom(m) + Len(m.cc)
        /\ SubjectAt(m) = BccFrom(m) + Len(m.bcc) + 1
    BY DEF CcFrom, BccFrom, SubjectAt
  <1>7. QED
    BY <1>1, <1>2, <1>3, <1>4, <1>5, <1>6

(* All of them are places in the headers.                                    *)
LEMMA PlacesAre ==
    ASSUME NEW m \in Mail
    PROVE  /\ 1 \in 1 .. CcFrom(m)
           /\ 1 \in 1 .. MboAt(m)
           /\ \A i \in 1 .. Len(m.to) : 1 + i \in 1 .. CcFrom(m) /\ 1 + i \in 1 .. MboAt(m)
           /\ \A i \in 1 .. Len(m.cc) :
                 CcFrom(m) + i \in 1 .. BccFrom(m) /\ CcFrom(m) + i \in 1 .. MboAt(m)
           /\ \A i \in 1 .. Len(m.bcc) :
                 /\ BccFrom(m) + i \in 1 .. BccFrom(m) + Len(m.bcc)
                 /\ BccFrom(m) + i \in 1 .. MboAt(m)
           /\ SubjectAt(m) \in 1 .. SubjectAt(m) /\ SubjectAt(m) \in 1 .. MboAt(m)
           /\ SubjectAt(m) + 1 \in 1 .. MboAt(m)
           /\ MboAt(m) \in 1 .. MboAt(m)
  <1> DEFINE a == Len(m.to)
             b == Len(m.cc)
             c == Len(m.bcc)
             p == CcFrom(m)
             q == BccFrom(m)
             s == SubjectAt(m)
             n == MboAt(m)
  <1>1. /\ a \in Nat /\ b \in Nat /\ c \in Nat /\ p \in Nat /\ q \in Nat /\ s \in Nat /\ n \in Nat
        /\ p = 1 + a /\ q = p + b /\ s = q + c + 1 /\ s < n
    BY MailHas
  <1> HIDE DEF a, b, c, p, q, s, n
  <1>2. 1 \in 1 .. p /\ 1 \in 1 .. n /\ s \in 1 .. s /\ s \in 1 .. n /\ s + 1 \in 1 .. n /\ n \in 1 .. n
    BY <1>1
  <1>3. \A i \in 1 .. a : 1 + i \in 1 .. p /\ 1 + i \in 1 .. n
    BY <1>1
  <1>4. \A i \in 1 .. b : p + i \in 1 .. q /\ p + i \in 1 .. n
    BY <1>1
  <1>5. \A i \in 1 .. c : q + i \in 1 .. q + c /\ q + i \in 1 .. n
    BY <1>1
  <1>6. QED
    BY <1>2, <1>3, <1>4, <1>5 DEF a, b, c, p, q, s, n

(* A line of text.                                                           *)
LEMMA LineIs ==
    ASSUME NEW k \in Key \ {"cr", "char", "0xff", "lf"}, NEW text \in Seq(Word), NEW n \in Nat
    PROVE  Token(k, text, n) \in Lines
  <1>1. Token(k, text, n) \in Tokens /\ Token(k, text, n).key = k
    BY Zenon DEF Token, Tokens
  <1>2. QED
    BY <1>1 DEF Lines

(* Texts of one and of three words.                                          *)
LEMMA Words ==
    ASSUME NEW S, NEW a \in S, NEW b \in S, NEW c \in S
    PROVE  <<a>> \in Seq(S) /\ <<a, b, c>> \in Seq(S)
  OBVIOUS

(* What a triple is made of.                                                 *)
LEMMA Triple ==
    ASSUME NEW x, NEW y, NEW z
    PROVE  <<x, y, z>>[1] = x /\ <<x, y, z>>[2] = y /\ <<x, y, z>>[3] = z
  OBVIOUS

(* Three in a row.                                                           *)
LEMMA Three ==
    ASSUME NEW S, NEW x \in S, NEW y \in S, NEW z \in S, NEW t, t = <<x>> \o <<y, z>>
    PROVE  t \in Seq(S) /\ Len(t) = 3 /\ t[1] = x /\ t[2] = y /\ t[3] = z
  <1>1. /\ <<x>> \in Seq(S) /\ <<y, z>> \in Seq(S) /\ 1 = Len(<<x>>) /\ 2 = Len(<<y, z>>)
        /\ <<x>>[1] = x /\ <<y, z>>[1] = y /\ <<y, z>>[2] = z
    OBVIOUS
  <1>2. t \in Seq(S) /\ Joined(t, <<x>>, <<y, z>>, 1, 2)
    BY <1>1, JoinedIs
  <1>3. 1 \in 1 .. 1 /\ 1 \in 1 .. 2 /\ 2 \in 1 .. 2 /\ 1 + 2 = 3 /\ 1 + 1 = 2
    OBVIOUS
  <1>4. QED
    BY <1>1, <1>2, <1>3 DEF Joined

(* What a pair is made of.                                                   *)
LEMMA Pair ==
    ASSUME NEW S, NEW a \in S \X S
    PROVE  a[1] \in S /\ a[2] \in S
  OBVIOUS

(* The text of an address.                                                   *)
LEMMA AddressIs ==
    ASSUME NEW a \in Word \X Word
    PROVE  Address(a) \in Seq(Word) /\ Mbo(a) \in Seq(Word)
  <1>1. a[1] \in Word /\ a[2] \in Word
    BY Pair
  <1>2. "" \in Word /\ "SMTP:" \in Word
    BY MailsAssumption
  <1>3. <<"", a[1], "">> \in Seq(Word) /\ <<"SMTP:", a[1], a[2]>> \in Seq(Word)
    BY <1>1, <1>2, Words
  <1>4. Address(a) \in Seq(Word)
    BY <1>3, Zenon DEF Address
  <1>5. QED
    BY <1>3, <1>4, Zenon DEF Mbo

(* The lines of a list of addresses.                                         *)
LEMMA AddressesAre ==
    ASSUME NEW k \in Key \ {"cr", "char", "0xff", "lf"}, NEW list \in Seq(Word \X Word)
    PROVE  /\ Addresses(k, list) \in Seq(Lines) /\ Len(Addresses(k, list)) = Len(list)
           /\ \A i \in 1 .. Len(list) : Addresses(k, list)[i] = Token(k, Address(list[i]), 0)
  <1>1. Len(list) \in Nat /\ \A i \in 1 .. Len(list) : list[i] \in Word \X Word
    BY LenProperties, ElementOfSeq
  <1>2. \A i \in 1 .. Len(list) : Token(k, Address(list[i]), 0) \in Lines
    BY <1>1, AddressIs, LineIs
  <1>3. Addresses(k, list) \in [1 .. Len(list) -> Lines]
    BY <1>2 DEF Addresses
  <1>4. Addresses(k, list) \in Seq(Lines) /\ Len(Addresses(k, list)) = Len(list)
    BY <1>1, <1>3, SeqDef, LenProperties, SMTT(60)
  <1>5. QED
    BY <1>4 DEF Addresses

(* Headers writes them where Begins says.                                    *)
LEMMA HeaderIs ==
    ASSUME NEW m \in Mail
    PROVE  HeaderOf(m) \in Seq(Lines) /\ Len(HeaderOf(m)) = MboAt(m) /\ Begins(m, HeaderOf(m))
  <1> DEFINE f == <<Token("From", Address(m.from), 0)>>
             to == Addresses("To", m.to)
             cc == Addresses("Cc", m.cc)
             bcc == Addresses("Bcc", m.bcc)
             sub == <<Token("Subject", <<m.subject>>, 0)>>
             rep == IF m.replyTo = <<>> THEN <<>> ELSE <<Token("Reply-To", m.replyTo, 0)>>
             mbo == <<Token("Mbo", Mbo(m.from), 0)>>
             c1 == f \o to
             c2 == c1 \o cc
             c3 == c2 \o bcc
             c4 == c3 \o sub
             c5 == c4 \o rep
             c6 == c5 \o mbo
  <1>0. HeaderOf(m) = c6
    BY DEF HeaderOf
  <1>1. /\ f \in Seq(Lines) /\ Len(f) = 1 /\ f[1] = Token("From", Address(m.from), 0)
        /\ sub \in Seq(Lines) /\ Len(sub) = 1 /\ sub[1] = Token("Subject", <<m.subject>>, 0)
        /\ mbo \in Seq(Lines) /\ Len(mbo) = 1 /\ mbo[1] = Token("Mbo", Mbo(m.from), 0)
    <2>1. Address(m.from) \in Seq(Word) /\ Mbo(m.from) \in Seq(Word)
      BY MailHas, AddressIs
    <2>2. <<m.subject>> \in Seq(Word)
      BY MailHas, Words
    <2>3. {"From", "Subject", "Mbo"} \subseteq Key \ {"cr", "char", "0xff", "lf"} /\ 0 \in Nat
      BY DEF Key
    <2>4. /\ Token("From", Address(m.from), 0) \in Lines
          /\ Token("Subject", <<m.subject>>, 0) \in Lines
          /\ Token("Mbo", Mbo(m.from), 0) \in Lines
      BY <2>1, <2>2, <2>3, LineIs
    <2>5. ASSUME NEW t \in Lines PROVE <<t>> \in Seq(Lines) /\ Len(<<t>>) = 1 /\ <<t>>[1] = t
      OBVIOUS
    <2>6. QED
      BY <2>4, <2>5
  <1>2. /\ to \in Seq(Lines) /\ Len(to) = Len(m.to)
        /\ \A i \in 1 .. Len(m.to) : to[i] = Token("To", Address(m.to[i]), 0)
        /\ cc \in Seq(Lines) /\ Len(cc) = Len(m.cc)
        /\ \A i \in 1 .. Len(m.cc) : cc[i] = Token("Cc", Address(m.cc[i]), 0)
        /\ bcc \in Seq(Lines) /\ Len(bcc) = Len(m.bcc)
        /\ \A i \in 1 .. Len(m.bcc) : bcc[i] = Token("Bcc", Address(m.bcc[i]), 0)
    <2>1. {"To", "Cc", "Bcc"} \subseteq Key \ {"cr", "char", "0xff", "lf"}
      BY DEF Key
    <2>2. QED
      BY <2>1, MailHas, AddressesAre, ZenonT(60)
  <1>3. /\ rep \in Seq(Lines) /\ Len(rep) = IF m.replyTo = <<>> THEN 0 ELSE 1
        /\ m.replyTo # <<>> => rep[1] = Token("Reply-To", m.replyTo, 0)
    <2>1. Token("Reply-To", m.replyTo, 0) \in Lines
      <3>1. "Reply-To" \in Key \ {"cr", "char", "0xff", "lf"} /\ 0 \in Nat
        BY DEF Key
      <3>2. QED
        BY <3>1, MailHas, LineIs
    <2>2. QED
      BY <2>1, EmptySeq
  <1> HIDE DEF f, to, cc, bcc, sub, rep, mbo
  <1>4. /\ c1 \in Seq(Lines) /\ Len(c1) = CcFrom(m)
        /\ c1[1] = Token("From", Address(m.from), 0)
        /\ \A i \in 1 .. Len(m.to) : c1[1 + i] = Token("To", Address(m.to[i]), 0)
    <2>1. c1 \in Seq(Lines) /\ Len(m.to) \in Nat /\ Joined(c1, f, to, 1, Len(m.to))
      BY <1>1, <1>2, JoinedIs
    <2>2. 1 \in 1 .. 1
      OBVIOUS
    <2>3. QED
      BY <1>1, <1>2, <2>1, <2>2 DEF CcFrom, Joined
  <1> HIDE DEF c1
  <1>5. /\ c2 \in Seq(Lines) /\ Len(c2) = BccFrom(m)
        /\ \A i \in 1 .. CcFrom(m) : c2[i] = c1[i]
        /\ \A i \in 1 .. Len(m.cc) : c2[CcFrom(m) + i] = Token("Cc", Address(m.cc[i]), 0)
    <2>1. c2 \in Seq(Lines) /\ Joined(c2, c1, cc, CcFrom(m), Len(m.cc))
      BY <1>2, <1>4, JoinedIs
    <2>2. QED
      BY <1>2, <2>1 DEF BccFrom, Joined
  <1> HIDE DEF c2
  <1>6. /\ c3 \in Seq(Lines) /\ Len(c3) = BccFrom(m) + Len(m.bcc)
        /\ \A i \in 1 .. BccFrom(m) : c3[i] = c2[i]
        /\ \A i \in 1 .. Len(m.bcc) : c3[BccFrom(m) + i] = Token("Bcc", Address(m.bcc[i]), 0)
    <2>1. c3 \in Seq(Lines) /\ Joined(c3, c2, bcc, BccFrom(m), Len(m.bcc))
      BY <1>2, <1>5, JoinedIs
    <2>2. QED
      BY <1>2, <2>1 DEF Joined
  <1> HIDE DEF c3
  <1>7. /\ c4 \in Seq(Lines) /\ Len(c4) = SubjectAt(m)
        /\ \A i \in 1 .. BccFrom(m) + Len(m.bcc) : c4[i] = c3[i]
        /\ c4[SubjectAt(m)] = Token("Subject", <<m.subject>>, 0)
    <2> DEFINE a == BccFrom(m) + Len(m.bcc)
    <2>1. c4 \in Seq(Lines) /\ Joined(c4, c3, sub, a, 1)
      BY <1>1, <1>6, JoinedIs
    <2>2. SubjectAt(m) = a + 1 /\ 1 \in 1 .. 1
      BY DEF SubjectAt
    <2> HIDE DEF a
    <2>3. QED
      BY <1>1, <2>1, <2>2 DEF Joined, a
  <1> HIDE DEF c4
  <1>8. /\ c5 \in Seq(Lines) /\ Len(c5) = MboAt(m) - 1
        /\ \A i \in 1 .. SubjectAt(m) : c5[i] = c4[i]
        /\ m.replyTo # <<>> => c5[SubjectAt(m) + 1] = Token("Reply-To", m.replyTo, 0)
    <2>1. /\ c5 \in Seq(Lines) /\ Len(c5) = SubjectAt(m) + Len(rep)
          /\ \A i \in 1 .. SubjectAt(m) : c5[i] = c4[i]
          /\ \A i \in 1 .. Len(rep) : c5[SubjectAt(m) + i] = rep[i]
      <3>1. c5 \in Seq(Lines) /\ Joined(c5, c4, rep, SubjectAt(m), Len(rep))
        BY <1>3, <1>7, JoinedIs
      <3>2. QED
        BY <3>1 DEF Joined
    <2> HIDE DEF c5
    <2>2. SubjectAt(m) \in Nat
      BY MailHas
    <2>3. Len(c5) = MboAt(m) - 1
      BY <1>3, <2>1, <2>2 DEF MboAt
    <2>4. m.replyTo # <<>> => 1 \in 1 .. Len(rep)
      BY <1>3
    <2>5. QED
      BY <1>3, <2>1, <2>3, <2>4
  <1> HIDE DEF c5
  <1>9. /\ c6 \in Seq(Lines) /\ Len(c6) = MboAt(m)
        /\ \A i \in 1 .. MboAt(m) - 1 : c6[i] = c5[i]
        /\ c6[MboAt(m)] = Token("Mbo", Mbo(m.from), 0)
    <2>1. 1 \in 1 .. Len(mbo) /\ MboAt(m) \in Nat
      BY <1>1, MailHas
    <2>2. /\ c6 \in Seq(Lines) /\ Len(c6) = (MboAt(m) - 1) + 1
          /\ \A i \in 1 .. MboAt(m) - 1 : c6[i] = c5[i]
          /\ c6[(MboAt(m) - 1) + 1] = mbo[1]
      <3> DEFINE a == MboAt(m) - 1
      <3>1. c6 \in Seq(Lines) /\ Joined(c6, c5, mbo, a, 1)
        BY <1>1, <1>8, JoinedIs
      <3> HIDE DEF a
      <3>2. 1 \in 1 .. 1
        OBVIOUS
      <3>3. QED
        BY <3>1, <3>2 DEF Joined, a
    <2>3. (MboAt(m) - 1) + 1 = MboAt(m)
      BY <2>1
    <2>4. QED
      BY <1>1, <2>2, <2>3
  <1> HIDE DEF c6
  <1>10. /\ \A i \in 1 .. SubjectAt(m) : c6[i] = c4[i]
         /\ \A i \in 1 .. BccFrom(m) + Len(m.bcc) : c6[i] = c3[i]
         /\ \A i \in 1 .. BccFrom(m) : c6[i] = c2[i]
         /\ \A i \in 1 .. CcFrom(m) : c6[i] = c1[i]
    <2>1. /\ SubjectAt(m) \in Nat /\ MboAt(m) \in Nat /\ CcFrom(m) \in Nat /\ BccFrom(m) \in Nat
          /\ Len(m.bcc) \in Nat
          /\ SubjectAt(m) =< MboAt(m) - 1 /\ BccFrom(m) + Len(m.bcc) =< SubjectAt(m)
          /\ CcFrom(m) =< BccFrom(m)
      BY MailHas DEF SubjectAt
    <2>2. \A i \in 1 .. SubjectAt(m) : c6[i] = c4[i]
      BY <1>8, <1>9, <2>1
    <2>3. \A i \in 1 .. BccFrom(m) + Len(m.bcc) : c6[i] = c3[i]
      BY <1>7, <2>1, <2>2
    <2>4. \A i \in 1 .. BccFrom(m) : c6[i] = c2[i]
      BY <1>6, <2>1, <2>3
    <2>5. \A i \in 1 .. CcFrom(m) : c6[i] = c1[i]
      BY <1>5, <2>1, <2>4
    <2>6. QED
      BY <2>2, <2>3, <2>4, <2>5
  <1>11. Begins(m, c6)
    <2>1. /\ Len(m.to) \in Nat /\ Len(m.cc) \in Nat /\ Len(m.bcc) \in Nat
          /\ CcFrom(m) \in Nat /\ BccFrom(m) \in Nat /\ SubjectAt(m) \in Nat /\ MboAt(m) \in Nat
          /\ 1 =< CcFrom(m) /\ SubjectAt(m) >= 1 /\ SubjectAt(m) < MboAt(m)
          /\ CcFrom(m) = 1 + Len(m.to) /\ BccFrom(m) = CcFrom(m) + Len(m.cc)
      BY MailHas
    <2>2. c6[1] = Token("From", Address(m.from), 0)
      BY <1>4, <1>10, <2>1
    <2>3. \A i \in 1 .. Len(m.to) : c6[1 + i] = Token("To", Address(m.to[i]), 0)
      BY <1>4, <1>10, PlacesAre
    <2>4. \A i \in 1 .. Len(m.cc) : c6[CcFrom(m) + i] = Token("Cc", Address(m.cc[i]), 0)
      BY <1>5, <1>10, PlacesAre
    <2>5. \A i \in 1 .. Len(m.bcc) : c6[BccFrom(m) + i] = Token("Bcc", Address(m.bcc[i]), 0)
      BY <1>6, <1>10, PlacesAre
    <2>6. c6[SubjectAt(m)] = Token("Subject", <<m.subject>>, 0)
      BY <1>7, <1>10, <2>1
    <2>7. m.replyTo # <<>> => c6[SubjectAt(m) + 1] = Token("Reply-To", m.replyTo, 0)
      <3>1. m.replyTo # <<>> => SubjectAt(m) + 1 \in 1 .. MboAt(m) - 1
        BY <2>1 DEF MboAt
      <3>2. QED
        BY <1>8, <1>9, <3>1
    <2>8. MboAt(m) =< Len(c6)
      BY <1>9, <2>1
    <2>9. QED
      BY <1>9, <2>2, <2>3, <2>4, <2>5, <2>6, <2>7, <2>8 DEF Begins
  <1>12. QED
    BY <1>0, <1>9, <1>11

(* They stay there whatever follows.                                         *)
LEMMA BeginsOn ==
    ASSUME NEW m \in Mail, NEW h, NEW g, Begins(m, h),
           Len(h) \in Nat, Len(g) \in Nat, Len(h) =< Len(g),
           \A i \in 1 .. Len(h) : g[i] = h[i]
    PROVE  Begins(m, g)
  <1>1. /\ Len(m.to) \in Nat /\ Len(m.cc) \in Nat /\ Len(m.bcc) \in Nat
        /\ CcFrom(m) \in Nat /\ BccFrom(m) \in Nat /\ SubjectAt(m) \in Nat /\ MboAt(m) \in Nat
        /\ 1 =< CcFrom(m) /\ SubjectAt(m) >= 1 /\ SubjectAt(m) < MboAt(m)
        /\ CcFrom(m) = 1 + Len(m.to) /\ BccFrom(m) = CcFrom(m) + Len(m.cc)
        /\ SubjectAt(m) = BccFrom(m) + Len(m.bcc) + 1
    BY MailHas
  <1>2. MboAt(m) =< Len(h)
    BY DEF Begins
  <1>3. /\ \A i \in 1 .. MboAt(m) : g[i] = h[i]
        /\ MboAt(m) =< Len(g)
    BY <1>1, <1>2
  <1>4. QED
    BY <1>3, PlacesAre DEF Begins

-------------------------------------------------------------------------------
(* A session's reading of a file.                                            *)

(* The mail a file was made of: its headers come first, each a line.         *)
Heads(m, text) ==
    /\ Len(text) \in Nat /\ Begins(m, text)
    /\ \A i \in 1 .. MboAt(m) : text[i] \in Lines

(* So each of them starts a line.                                            *)
LEMMA HeadsStart ==
    ASSUME NEW m \in Mail, NEW text, Heads(m, text)
    PROVE  \A i \in 1 .. MboAt(m) : i \in LineStarts(text)
  <1>1. MboAt(m) \in Nat /\ Len(text) \in Nat /\ MboAt(m) =< Len(text)
    BY MailHas DEF Heads, Begins
  <1>2. \A i \in 1 .. MboAt(m) : EndsLine(text[i])
    BY DEF Heads, Lines, EndsLine
  <1>3. ASSUME NEW i \in 1 .. MboAt(m)
        PROVE  i \in 1 .. Len(text) /\ (i = 1 \/ EndsLine(text[i - 1]))
    <2>1. i \in 1 .. Len(text)
      BY <1>1
    <2>2. i # 1 => i - 1 \in 1 .. MboAt(m)
      BY <1>1
    <2>3. QED
      BY <1>2, <2>1, <2>2
  <1>4. QED
    BY <1>3 DEF LineStarts

(* What p2p_qualify() lets pass has no Cc:, and no To: of another station    *)
(* whose '@' it sees.                                                        *)
Alone(m, call) ==
    /\ m.cc = <<>>
    /\ \A i \in 1 .. Len(m.to) :
          IF m.to[i][2] = "" THEN m.to[i][1] \in Colon
          ELSE m.to[i][1] \in Long \/ Upper(m.to[i][1]) = call

LEMMA QualifiesFor ==
    ASSUME NEW m \in Mail, NEW text, Heads(m, text), NEW call, Qualifies(text, call)
    PROVE  Alone(m, call)
  <1>1. ASSUME m.cc # <<>> PROVE FALSE
    <2>1. Len(m.cc) \in Nat /\ 1 \in 1 .. Len(m.cc)
      BY <1>1, MailHas, EmptySeq
    <2>2. /\ CcFrom(m) + 1 \in 1 .. MboAt(m)
          /\ text[CcFrom(m) + 1] = Token("Cc", Address(m.cc[1]), 0)
      BY <2>1, PlacesAre DEF Heads, Begins
    <2>3. CcFrom(m) + 1 \in LinesOf(text, "Cc")
      BY <2>2, HeadsStart DEF LinesOf, Token
    <2>4. QED
      BY <2>3 DEF Qualifies
  <1>2. ASSUME NEW i \in 1 .. Len(m.to)
        PROVE  IF m.to[i][2] = "" THEN m.to[i][1] \in Colon
               ELSE m.to[i][1] \in Long \/ Upper(m.to[i][1]) = call
    <2> DEFINE a == m.to[i]
    <2>1. a \in Word \X Word
      BY MailHas, ElementOfSeq
    <2>2. 1 + i \in LineStarts(text) /\ text[1 + i] = Token("To", Address(a), 0)
      BY PlacesAre, HeadsStart DEF Heads, Begins
    <2>3. 1 + i \in LinesOf(text, "To")
      BY <2>2 DEF LinesOf, Token
    <2>4. text[1 + i].text = Address(a)
      BY <2>2 DEF Token
    <2>5. IsFor(Address(a), call)
      BY <2>3, <2>4 DEF Qualifies
    <2>6. CASE a[2] = ""
      <3>1. Address(a)[1] = "" /\ Address(a)[2] = a[1]
        BY <2>6, Triple DEF Address
      <3>2. QED
        BY <2>5, <2>6, <3>1 DEF IsFor
    <2>7. CASE a[2] # ""
      <3>1. Address(a)[1] = "SMTP:" /\ Address(a)[2] = a[1] /\ Address(a)[3] = a[2]
        BY <2>7, Triple DEF Address
      <3>2. QED
        BY <2>5, <2>7, <3>1 DEF IsFor
    <2>8. QED
      BY <2>6, <2>7
  <1>3. QED
    BY <1>1, <1>2 DEF Alone

-------------------------------------------------------------------------------
(* wl2mime's reading of a file.                                              *)

(* Where a text of lines, and of a last one that nobody stands for, is       *)
(* followed by nothing or by a line end.                                     *)
Layered(lines, tail, rest) ==
    /\ lines \in Seq(Lines) /\ lines # <<>> /\ tail \in {<<>>, nobody} /\ rest \in Seq(Tokens)
    /\ rest = <<>> \/ (Len(rest) >= 2 /\ rest[1] = CR /\ rest[2] = LF)

(* The n tokens of such a text: a lines, b with the last one, and l more.    *)
Layers(lines, rest, head, text, a, b, l, n) ==
    /\ head \in Seq(Tokens) /\ text \in Seq(Tokens) /\ rest \in Seq(Tokens)
    /\ a \in Nat /\ b \in Nat /\ l \in Nat /\ n \in Nat /\ 1 =< a /\ a =< b /\ n = b + l
    /\ n = Len(text) /\ l = Len(rest) /\ b = Len(head)
    /\ l = 0 \/ (l >= 2 /\ rest[1] = CR /\ rest[2] = LF)
    /\ \A i \in 1 .. a : text[i] = lines[i] /\ text[i] \in Lines
    /\ \A i \in 1 .. l : text[b + i] = rest[i]
    /\ \/ b = a
       \/ b = a + 3 /\ text[a + 1].key = "char" /\ text[a + 2] = CR /\ text[a + 3] = LF
    /\ \A i \in 1 .. b : text[i] = head[i]

(* They are these.                                                           *)
LEMMA LayersAre ==
    ASSUME NEW lines, NEW tail, NEW rest, Layered(lines, tail, rest),
           NEW head, head = lines \o tail, NEW text, text = head \o rest,
           NEW a, a = Len(lines), NEW b, b = Len(head),
           NEW l, l = Len(rest), NEW n, n = Len(text)
    PROVE  Layers(lines, rest, head, text, a, b, l, n)
  <1>1. lines \in Seq(Tokens) /\ lines \in Seq(Lines) /\ rest \in Seq(Tokens)
    BY SeqMonotonic DEF Layered, Lines
  <1>2. /\ nobody \in Seq(Tokens) /\ Len(nobody) = 3
        /\ nobody[1].key = "char" /\ nobody[2] = CR /\ nobody[3] = LF
    <2>1. "nobody" \in Word /\ <<>> \in Seq(Word) /\ 0 \in Nat
      BY MailsAssumption, EmptySeq
    <2>2. <<"nobody">> \in Seq(Word)
      BY <2>1, Words
    <2>3. Char("nobody") \in Tokens /\ CR \in Tokens /\ LF \in Tokens /\ Char("nobody").key = "char"
      <3>1. ASSUME NEW k \in Key, NEW t \in Seq(Word)
            PROVE  Token(k, t, 0) \in Tokens /\ Token(k, t, 0).key = k
        BY <2>1 DEF Token, Tokens
      <3>2. {"char", "cr", "lf"} \subseteq Key
        BY DEF Key
      <3>3. QED
        BY <2>1, <2>2, <3>1, <3>2 DEF Char, CR, LF
    <2>4. nobody = <<Char("nobody")>> \o <<CR, LF>>
      BY DEF nobody, Crlf
    <2>5. QED
      BY <2>3, <2>4, Three
  <1>3. tail \in Seq(Tokens)
    BY <1>2, EmptySeq DEF Layered
  <1> DEFINE c == Len(tail)
  <1>4. /\ head \in Seq(Tokens) /\ a \in Nat /\ c \in Nat /\ Joined(head, lines, tail, a, c)
    BY <1>1, <1>3, JoinedIs
  <1>5. /\ text \in Seq(Tokens) /\ b \in Nat /\ l \in Nat /\ Joined(text, head, rest, b, l)
    BY <1>1, <1>4, JoinedIs
  <1>6. 1 =< a
    BY <1>1, EmptySeq DEF Layered
  <1>7. b = a + c /\ (c = 0 \/ (c = 3 /\ tail = nobody))
    <2>1. tail = <<>> => c = 0
      BY EmptySeq
    <2>2. tail = nobody => c = 3
      BY <1>2
    <2> HIDE DEF c
    <2>3. QED
      BY <1>4, <2>1, <2>2 DEF Joined, Layered
  <1> HIDE DEF c
  <1>8. a =< b /\ n = b + l /\ n \in Nat
    BY <1>4, <1>5, <1>7 DEF Joined
  <1>9. l = 0 \/ (l >= 2 /\ rest[1] = CR /\ rest[2] = LF)
    BY EmptySeq DEF Layered
  <1>10. \A i \in 1 .. a : text[i] = lines[i] /\ text[i] \in Lines
    <2>1. \A i \in 1 .. a : i \in 1 .. b
      BY <1>4, <1>5, <1>8
    <2>2. \A i \in 1 .. a : lines[i] \in Lines
      BY <1>1, ElementOfSeq
    <2>3. QED
      BY <1>4, <1>5, <2>1, <2>2 DEF Joined
  <1>11. \/ b = a
         \/ b = a + 3 /\ text[a + 1].key = "char" /\ text[a + 2] = CR /\ text[a + 3] = LF
    <2>1. CASE c = 0
      BY <1>4, <1>7, <2>1
    <2>2. CASE c = 3 /\ tail = nobody
      <3>1. /\ a + 1 \in 1 .. b /\ a + 2 \in 1 .. b /\ a + 3 \in 1 .. b /\ b = a + 3
            /\ 1 \in 1 .. 3 /\ 2 \in 1 .. 3 /\ 3 \in 1 .. 3
        BY <1>4, <1>7, <2>2
      <3>2. head[a + 1] = nobody[1] /\ head[a + 2] = nobody[2] /\ head[a + 3] = nobody[3]
        BY <1>4, <2>2, <3>1 DEF Joined
      <3>3. text[a + 1].key = "char" /\ text[a + 2] = CR /\ text[a + 3] = LF
        BY <1>2, <1>5, <3>1, <3>2 DEF Joined
      <3>4. QED
        BY <3>1, <3>3
    <2>3. QED
      BY <1>7, <2>1, <2>2
  <1>12. /\ \A i \in 1 .. l : text[b + i] = rest[i]
         /\ \A i \in 1 .. b : text[i] = head[i]
    BY <1>5, Zenon DEF Joined
  <1>13. QED
    BY <1>1, <1>4, <1>5, <1>6, <1>8, <1>9, <1>10, <1>11, <1>12, Zenon DEF Layers

(* The smallest number of a set, and what stands for it if there is none.    *)
LEMMA FirstIs ==
    ASSUME NEW S \in SUBSET Nat, NEW n \in S, \A j \in S : n =< j
    PROVE  n = CHOOSE i \in S : \A j \in S : i =< j
  <1> DEFINE c == CHOOSE i \in S : \A j \in S : i =< j
  <1>1. \E i \in S : \A j \in S : i =< j
    OBVIOUS
  <1>2. c \in S /\ \A j \in S : c =< j
    BY <1>1
  <1> HIDE DEF c
  <1>3. c = n
    BY <1>2
  <1>4. QED
    BY <1>3 DEF c

(* Where a line starts.                                                      *)
LEMMA StartsAt ==
    ASSUME NEW text, NEW i
    PROVE  i \in LineStarts(text) <=>
             i \in 1 .. Len(text) /\ (i = 1 \/ text[i - 1].key \notin {"cr", "char", "0xff"})
  BY DEF LineStarts, EndsLine

(* wl2mime's headers are head, its body is rest without a line end.          *)
Split(text, head, rest) ==
    /\ SubSeq(text, 1, HeadEnd(text) - 1) = head
    /\ SubSeq(text, RestFrom(text, HeadEnd(text)), Len(text)) = SubSeq(rest, 3, Len(rest))

(* These are the lines with the one that nobody stands for, and what follows. *)
LEMMA SplitsAt ==
    ASSUME NEW lines, NEW tail, NEW rest, Layered(lines, tail, rest),
           NEW head, head = lines \o tail, NEW text, text = head \o rest
    PROVE  Split(text, head, rest)
  <1> DEFINE a == Len(lines)
             b == Len(head)
             l == Len(rest)
             n == Len(text)
             e == HeadEnd(text)
             f == RestFrom(text, e)
  <1>0. Layers(lines, rest, head, text, a, b, l, n)
    BY LayersAre
  <1> HIDE DEF a, b, l, n
  <1>1. /\ a \in Nat /\ b \in Nat /\ l \in Nat /\ n \in Nat /\ 1 =< a /\ a =< b /\ n = b + l
        /\ l = 0 \/ l >= 2
        /\ b = a \/ b = a + 3
    BY <1>0, Zenon DEF Layers
  <1>10. /\ head \in Seq(Tokens) /\ text \in Seq(Tokens) /\ rest \in Seq(Tokens)
         /\ n = Len(text) /\ l = Len(rest) /\ b = Len(head)
         /\ l # 0 => rest[1] = CR /\ rest[2] = LF
         /\ \A i \in 1 .. a : text[i] = lines[i] /\ text[i] \in Lines
         /\ \A i \in 1 .. l : text[b + i] = rest[i]
         /\ b # a => text[a + 1].key = "char" /\ text[a + 2] = CR /\ text[a + 3] = LF
         /\ \A i \in 1 .. b : text[i] = head[i]
    BY <1>0, Zenon DEF Layers
  <1>2. CR.key = "cr" /\ LF.key = "lf"
    BY DEF CR, LF, Token
  <1>3. /\ BlankAt(text) \in SUBSET Nat /\ LineStarts(text) \in SUBSET Nat
        /\ \A i \in LineStarts(text) : i \in 1 .. n
    BY <1>10 DEF BlankAt, LineStarts
  <1>4. ASSUME NEW i \in 1 .. b
        PROVE  i \notin BlankAt(text)
    <2>1. CASE i =< a
      <3>1. text[i] \in Lines
        BY <1>1, <1>10, <2>1, SMTT(60)
      <3>2. QED
        BY <3>1 DEF BlankAt, Lines
    <2>2. CASE i = a + 1
      <3>1. b # a
        BY <1>1, <2>2
      <3>2. text[i].key = "char"
        BY <1>10, <2>2, <3>1
      <3>3. QED
        BY <3>2 DEF BlankAt
    <2>3. CASE i = a + 2
      <3>1. i - 1 = a + 1 /\ i # 1 /\ b # a
        BY <1>1, <2>3
      <3>2. text[i - 1].key = "char"
        BY <1>10, <3>1
      <3>3. i \notin LineStarts(text)
        BY <3>1, <3>2, StartsAt
      <3>4. QED
        BY <3>3 DEF BlankAt
    <2>4. CASE i = a + 3
      <3>1. i - 1 = a + 2 /\ i # 1 /\ b # a
        BY <1>1, <2>4
      <3>2. text[i - 1].key = "cr"
        BY <1>2, <1>10, <3>1
      <3>3. i \notin LineStarts(text)
        BY <3>1, <3>2, StartsAt
      <3>4. QED
        BY <3>3 DEF BlankAt
    <2>5. QED
      BY <1>1, <2>1, <2>2, <2>3, <2>4
  <1>5. text[b].key \notin {"cr", "char", "0xff"} /\ b # 0
    <2>1. CASE b = a
      <3>1. b \in 1 .. a /\ b # 0
        BY <1>1, <2>1
      <3>2. text[b] \in Lines
        BY <1>10, <3>1
      <3>3. QED
        BY <3>1, <3>2 DEF Lines
    <2>2. CASE b # a
      <3>1. b = a + 3 /\ b # 0
        BY <1>1, <2>2
      <3>2. text[b] = LF
        BY <1>10, <2>2, <3>1
      <3>3. QED
        BY <1>2, <3>1, <3>2
    <2>3. QED
      BY <2>1, <2>2
  <1>6. e = b + 1
    <2>1. CASE l = 0
      <3>1. n = b
        BY <1>1, <2>1
      <3>2. BlankAt(text) = {}
        BY <1>3, <1>4, <3>1 DEF BlankAt
      <3>3. QED
        BY <1>10, <3>1, <3>2 DEF HeadEnd
    <2>2. CASE l # 0
      <3>1. 1 \in 1 .. l /\ b + 1 \in 1 .. n /\ (b + 1) - 1 = b /\ b + 1 \in Nat
        BY <1>1, <2>2
      <3>2. text[b + 1] = CR
        BY <1>10, <2>2, <3>1
      <3>3. b + 1 \in LineStarts(text)
        BY <1>5, <1>10, <3>1, StartsAt
      <3>4. b + 1 \in BlankAt(text)
        BY <1>2, <3>2, <3>3 DEF BlankAt
      <3>5. ASSUME NEW j \in BlankAt(text)
            PROVE  b + 1 =< j
        <4>1. j \in 1 .. n /\ j \notin 1 .. b
          BY <1>3, <1>4 DEF BlankAt
        <4>2. QED
          BY <1>1, <4>1
      <3> DEFINE m == b + 1
      <3>6. m \in BlankAt(text) /\ \A j \in BlankAt(text) : m =< j
        BY <3>4, <3>5
      <3> HIDE DEF m
      <3>7. m = CHOOSE i \in BlankAt(text) : \A j \in BlankAt(text) : i =< j
        BY <1>3, <3>6, FirstIs
      <3>8. e = m
        BY <3>6, <3>7 DEF HeadEnd
      <3>9. QED
        BY <3>8 DEF m
    <2>3. QED
      BY <2>1, <2>2
  <1> HIDE DEF e
  <1>7. SubSeq(text, 1, e - 1) = head
    <2>1. e - 1 = b
      BY <1>1, <1>6
    <2>2. b =< n /\ b \in Nat
      BY <1>1
    <2>3. /\ SubSeq(text, 1, b) \in Seq(Tokens) /\ Len(SubSeq(text, 1, b)) = b
          /\ \A i \in 1 .. b : SubSeq(text, 1, b)[i] = text[i]
      BY <1>10, <2>2, FirstOnes
    <2>4. head \in Seq(Tokens)
      BY <1>10
    <2>5. Len(head) = b
      BY <1>10
    <2>6. \A i \in 1 .. b : SubSeq(text, 1, b)[i] = head[i]
      BY <1>10, <2>3
    <2>7. SubSeq(text, 1, b) = head
      BY <2>3, <2>4, <2>5, <2>6, SeqEqual
    <2>8. QED
      BY <2>1, <2>7
  <1>8. SubSeq(text, f, n) = SubSeq(rest, 3, l)
    <2> DEFINE next == {j \in LineStarts(text) : j > e}
    <2>1. f = IF next = {} THEN n + 1 ELSE CHOOSE j \in next : \A k \in next : j =< k
      BY <1>10 DEF RestFrom
    <2>2. CASE l = 0
      <3>1. n = b /\ l = 0
        BY <1>1, <2>2
      <3>2. next = {}
        <4>1. ASSUME NEW j \in LineStarts(text) PROVE ~ (j > e)
          BY <1>1, <1>3, <1>6, <3>1
        <4>2. QED
          BY <4>1
      <3>3. f = b + 1
        BY <2>1, <3>1, <3>2
      <3>4. SubSeq(text, f, n) = <<>>
        BY <1>1, <3>1, <3>3, SubSeqEmpty
      <3>5. SubSeq(rest, 3, l) = <<>>
        BY <3>1, SubSeqEmpty
      <3>6. QED
        BY <3>4, <3>5
    <2>3. CASE l # 0
      <3>1. l >= 2 /\ 1 \in 1 .. l /\ 2 \in 1 .. l
        BY <1>1, <2>3
      <3>2. text[b + 1] = CR /\ text[b + 2] = LF
        BY <1>10, <2>3, <3>1
      <3>3. next \in SUBSET Nat /\ \A j \in next : j \in 1 .. n /\ j > b + 1
        BY <1>3, <1>6
      <3>4. b + 2 \notin next
        <4>1. (b + 2) - 1 = b + 1 /\ b + 2 # 1
          BY <1>1
        <4>2. b + 2 \notin LineStarts(text)
          BY <1>2, <3>2, <4>1, StartsAt
        <4>3. QED
          BY <4>2
      <3>5. \A j \in next : b + 3 =< j
        BY <1>1, <3>3, <3>4
      <3>6. f = b + 3
        <4>1. CASE l = 2
          <5>1. n = b + 2
            BY <1>1, <4>1
          <5>2. next = {}
            BY <1>1, <3>3, <3>5, <5>1
          <5>3. QED
            BY <1>1, <2>1, <5>1, <5>2
        <4>2. CASE l > 2
          <5> DEFINE m == b + 3
          <5>1. m \in 1 .. n /\ m - 1 = b + 2 /\ m > b + 1 /\ m \in Nat
            BY <1>1, <4>2
          <5>2. m \in LineStarts(text)
            <6>1. text[m - 1].key \notin {"cr", "char", "0xff"}
              BY <1>2, <3>2, <5>1
            <6>2. QED
              BY <1>10, <5>1, <6>1, StartsAt
          <5>3. m \in next /\ \A j \in next : m =< j
            BY <1>6, <3>5, <5>1, <5>2
          <5> HIDE DEF m
          <5>4. m = CHOOSE i \in next : \A j \in next : i =< j
            <6> HIDE DEF next
            <6>1. QED
              BY <3>3, <5>3, FirstIs
          <5>5. next # {}
            BY <5>3
          <5>6. f = m
            <6> HIDE DEF next
            <6>1. QED
              BY <2>1, <5>4, <5>5
          <5>7. QED
            BY <5>6 DEF m
        <4>3. l = 2 \/ l > 2
          BY <1>1, <3>1
        <4>4. QED
          BY <4>1, <4>2, <4>3
      <3>7. SubSeq(text, b + 3, n) = SubSeq(rest, 3, l)
        <4> DEFINE u == SubSeq(text, b + 3, n)
                   v == SubSeq(rest, 3, l)
                   c == b + 2
        <4>1. /\ c \in Nat /\ b \in Nat /\ b + 3 = c + 1 /\ 3 = 2 + 1 /\ n \in Nat /\ l \in Nat
              /\ c =< n /\ n - c = l - 2 /\ 2 \in Nat /\ 2 =< l /\ c = b + 2
          BY <1>1, <3>1
        <4>2. text \in Seq(Tokens) /\ rest \in Seq(Tokens) /\ n = Len(text) /\ l = Len(rest)
          BY <1>10
        <4>3. u = SubSeq(text, c + 1, n) /\ v = SubSeq(rest, 2 + 1, l)
          BY <4>1
        <4> HIDE DEF u, v, c
        <4>4. u \in Seq(Tokens) /\ RestOf(u, text, c, n)
          BY <4>1, <4>2, <4>3, RestIs
        <4>5. v \in Seq(Tokens) /\ RestOf(v, rest, 2, l)
          BY <4>1, <4>2, <4>3, RestIs
        <4>6. ASSUME NEW i \in 1 .. l - 2
              PROVE  u[i] = v[i]
          <5>1. 2 + i \in 1 .. l /\ c + i = b + (2 + i)
            BY <4>1
          <5>2. text[b + (2 + i)] = rest[2 + i]
            BY <1>10, <5>1
          <5>3. QED
            BY <4>1, <4>4, <4>5, <5>1, <5>2 DEF RestOf
        <4>7. u = v
          <5>1. Len(u) = n - c /\ Len(v) = l - 2
            BY <4>4, <4>5 DEF RestOf
          <5>2. Len(u) = Len(v) /\ \A i \in 1 .. Len(u) : u[i] = v[i]
            BY <4>1, <4>6, <5>1
          <5>3. QED
            BY <4>4, <4>5, <5>2, SeqEqual
        <4>8. QED
          BY <4>7 DEF u, v
      <3>8. QED
        BY <3>6, <3>7
    <2>4. QED
      BY <2>2, <2>3
  <1>9. QED
    BY <1>7, <1>8 DEF e, l, n, Split

-------------------------------------------------------------------------------
(* The parts.                                                                *)

(* A part as gmime hands it over.                                            *)
PartType == [kind : Word, name : Word, content : Seq(Tokens)]

(* What the n-th part of m adds to the leaves.                               *)
Adds(m, n) == IF m.parts[n].kind \in Leaf THEN <<m.parts[n]>> ELSE <<>>

(* The leaves among the first n parts, for each n.                           *)
Picked(m, p) ==
    p = [n \in 0 .. Len(m.parts) |-> IF n = 0 THEN <<>> ELSE p[n - 1] \o Adds(m, n)]
Pick(m) == CHOOSE p : Picked(m, p)

(* Induction up to N.                                                        *)
LEMMA Climbs ==
    ASSUME NEW N \in Nat, NEW S, 0 \in S, \A n \in 0 .. N : n + 1 =< N /\ n \in S => n + 1 \in S
    PROVE  \A n \in 0 .. N : n \in S
  <1> DEFINE B == {n \in 0 .. N : n \notin S}
  <1>1. SUFFICES ASSUME B # {} PROVE FALSE
    OBVIOUS
  <1>2. B \in SUBSET Nat
    OBVIOUS
  <1>3. PICK n \in B : \A k \in B : n =< k
    <2> HIDE DEF B
    <2>1. QED
      BY <1>1, <1>2, Smallest
  <1>4. n \in 0 .. N /\ n \notin S /\ n # 0
    OBVIOUS
  <1>5. n - 1 \in 0 .. N /\ (n - 1) + 1 = n /\ ~ (n =< n - 1)
    BY <1>4
  <1>6. n - 1 \in S
    BY <1>3, <1>5
  <1>7. QED
    BY <1>4, <1>5, <1>6

(* What a part adds.                                                         *)
LEMMA AddsIs ==
    ASSUME NEW m \in Mail, NEW n \in 1 .. Len(m.parts)
    PROVE  m.parts[n] \in PartType /\ Adds(m, n) \in Seq(PartType)
  <1>1. m.parts \in Seq(PartType)
    BY MailHas DEF PartType
  <1>2. m.parts[n] \in PartType
    BY <1>1, ElementOfSeq
  <1>3. QED
    BY <1>2, EmptySeq DEF Adds

(* The recursion of Leaves has a solution.                                   *)
LEMMA PickExists ==
    ASSUME NEW m \in Mail
    PROVE  Picked(m, Pick(m))
  <1> DEFINE N == Len(m.parts)
             Upto(n, p) == /\ p = [k \in 0 .. n |-> p[k]] /\ p[0] = <<>>
                           /\ \A k \in 1 .. n : p[k] = p[k - 1] \o Adds(m, k)
             S == {n \in 0 .. N : \E p : Upto(n, p)}
  <1>1. N \in Nat
    BY MailHas, LenProperties
  <1> HIDE DEF N
  <1>2. 0 \in S
    <2> DEFINE p == [k \in 0 .. 0 |-> <<>>]
    <2>1. p = [k \in 0 .. 0 |-> p[k]] /\ p[0] = <<>> /\ 1 .. 0 = {}
      OBVIOUS
    <2>2. Upto(0, p)
      BY <2>1
    <2>3. 0 \in 0 .. N
      BY <1>1
    <2> HIDE DEF Upto, p
    <2>4. QED
      BY <2>2, <2>3
  <1>3. ASSUME NEW n \in 0 .. N, n + 1 =< N, n \in S
        PROVE  n + 1 \in S
    <2>1. PICK p : Upto(n, p)
      BY <1>3
    <2> DEFINE q == [k \in 0 .. n + 1 |-> IF k = n + 1 THEN p[n] \o Adds(m, n + 1) ELSE p[k]]
    <2>2. n \in Nat /\ n + 1 \in 0 .. N /\ 0 # n + 1
      BY <1>1, <1>3
    <2>3. q = [k \in 0 .. n + 1 |-> q[k]] /\ q[0] = <<>>
      BY <2>1, <2>2
    <2>4. ASSUME NEW k \in 1 .. n + 1
          PROVE  q[k] = q[k - 1] \o Adds(m, k)
      <3>1. k \in 0 .. n + 1 /\ k - 1 \in 0 .. n + 1 /\ k - 1 # n + 1
        BY <2>2
      <3>2. q[k - 1] = p[k - 1]
        BY <3>1
      <3>3. CASE k = n + 1
        <4>1. k - 1 = n
          BY <2>2, <3>3
        <4>2. QED
          BY <3>1, <3>2, <3>3, <4>1
      <3>4. CASE k # n + 1
        <4>1. k \in 1 .. n
          BY <2>2, <3>4
        <4>2. QED
          BY <2>1, <3>1, <3>2, <3>4, <4>1
      <3>5. QED
        BY <3>3, <3>4
    <2> HIDE DEF q
    <2>5. Upto(n + 1, q)
      BY <2>3, <2>4
    <2> HIDE DEF Upto
    <2>6. QED
      BY <2>2, <2>5
  <1>4. \A n \in 0 .. N : n \in S
    <2> HIDE DEF S
    <2>1. QED
      BY <1>1, <1>2, <1>3, Climbs
  <1>5. N \in S
    BY <1>1, <1>4
  <1>6. PICK p : Upto(N, p)
    BY <1>5
  <1>7. p = [k \in 0 .. N |-> IF k = 0 THEN <<>> ELSE p[k - 1] \o Adds(m, k)]
    <2>1. p = [k \in 0 .. N |-> p[k]]
      BY <1>6
    <2>2. \A k \in 0 .. N : p[k] = IF k = 0 THEN <<>> ELSE p[k - 1] \o Adds(m, k)
      <3>1. \A k \in 0 .. N : k = 0 \/ k \in 1 .. N
        BY <1>1
      <3>2. QED
        BY <1>6, <3>1
    <2>3. [k \in 0 .. N |-> p[k]] = [k \in 0 .. N |-> IF k = 0 THEN <<>> ELSE p[k - 1] \o Adds(m, k)]
      BY <2>2
    <2>4. QED
      BY <2>1, <2>3
  <1>8. Picked(m, p)
    BY <1>7 DEF Picked, N
  <1>9. QED
    BY <1>8 DEF Pick

(* Its solution, step by step.                                               *)
LEMMA PickIs ==
    ASSUME NEW m \in Mail
    PROVE  /\ Pick(m)[0] = <<>>
           /\ \A n \in 1 .. Len(m.parts) : Pick(m)[n] = Pick(m)[n - 1] \o Adds(m, n)
           /\ \A n \in 0 .. Len(m.parts) : Pick(m)[n] \in Seq(PartType)
  <1> DEFINE N == Len(m.parts)
             p == Pick(m)
             S == {n \in 0 .. N : p[n] \in Seq(PartType)}
  <1>1. N \in Nat
    BY MailHas, LenProperties
  <1>2. p = [n \in 0 .. N |-> IF n = 0 THEN <<>> ELSE p[n - 1] \o Adds(m, n)]
    BY PickExists DEF Picked
  <1>3. \A n \in 1 .. N : Adds(m, n) \in Seq(PartType)
    BY AddsIs
  <1> HIDE DEF p, N
  <1>4. p[0] = <<>> /\ \A n \in 1 .. N : p[n] = p[n - 1] \o Adds(m, n)
    <2>1. 0 \in 0 .. N /\ \A n \in 1 .. N : n \in 0 .. N /\ n # 0
      BY <1>1
    <2>2. QED
      BY <1>2, <2>1
  <1>5. 0 \in S
    <2>1. 0 \in 0 .. N
      BY <1>1
    <2>2. p[0] \in Seq(PartType)
      BY <1>4, EmptySeq
    <2>3. QED
      BY <2>1, <2>2
  <1>6. ASSUME NEW n \in 0 .. N, n + 1 =< N, n \in S
        PROVE  n + 1 \in S
    <2>1. n + 1 \in 1 .. N /\ n + 1 \in 0 .. N /\ (n + 1) - 1 = n
      BY <1>1, <1>6
    <2>2. p[n + 1] = p[n] \o Adds(m, n + 1)
      BY <1>4, <2>1
    <2>3. p[n] \o Adds(m, n + 1) \in Seq(PartType)
      BY <1>3, <1>6, <2>1, ConcatProperties
    <2>4. QED
      BY <2>1, <2>2, <2>3
  <1>7. \A n \in 0 .. N : n \in S
    <2> HIDE DEF S
    <2>1. QED
      BY <1>1, <1>5, <1>6, Climbs
  <1>8. QED
    BY <1>4, <1>7 DEF p, N

(* The leaves are those of all parts.                                        *)
LEMMA LeavesAre == Leaves = Pick(mail)[Len(mail.parts)]
  BY DEF Leaves, Pick, Picked, Adds

-------------------------------------------------------------------------------
(* What the callback has gathered.                                           *)

(* t is s, of n, and e.                                                      *)
Longer(t, s, e, n) == Len(t) = n + 1 /\ t[n + 1] = e /\ \A i \in 1 .. n : t[i] = s[i]

(* Append gives it.                                                          *)
LEMMA LongerIs ==
    ASSUME NEW S, NEW s \in Seq(S), NEW e \in S, NEW n, n = Len(s),
           NEW t, t = Append(s, e) \/ t = s \o <<e>>
    PROVE  t \in Seq(S) /\ n \in Nat /\ Longer(t, s, e, n)
  <1>1. t = Append(s, e)
    BY AppendIsConcat
  <1>2. n \in Nat
    BY LenProperties
  <1>3. QED
    BY <1>1, <1>2, AppendProperties DEF Longer

(* The part that becomes the body, if it comes first.                        *)
IsText(p) == p.kind = "text" /\ p.name = NoName

(* The b-th of the leaves l is the body and fs are the others; there is no   *)
(* body if b is 0.                                                           *)
Others(l, b, fs) ==
    /\ l \in Seq(PartType) /\ fs \in Seq(PartType) /\ b \in 0 .. Len(l)
    /\ b = 0 => fs = l /\ \A i \in 1 .. Len(l) : ~ IsText(l[i])
    /\ b # 0 => /\ IsText(l[b]) /\ \A i \in 1 .. b - 1 : ~ IsText(l[i])
                /\ Len(l) = Len(fs) + 1
                /\ \A i \in 1 .. Len(fs) : fs[i] = l[IF i < b THEN i ELSE i + 1]

(* A body is one leaf more.                                                  *)
LEMMA BodyMore ==
    ASSUME NEW l, NEW fs, Others(l, 0, fs), NEW p \in PartType, IsText(p), NEW m, m = l \o <<p>>
    PROVE  Others(m, Len(l) + 1, fs) /\ m[Len(l) + 1] = p
  <1> DEFINE n == Len(l)
  <1>1. l \in Seq(PartType) /\ fs = l /\ \A i \in 1 .. n : ~ IsText(l[i])
    BY DEF Others
  <1>2. m \in Seq(PartType) /\ n \in Nat /\ Longer(m, l, p, n)
    BY <1>1, LongerIs
  <1> HIDE DEF n
  <1>3. n + 1 \in 0 .. n + 1 /\ n + 1 # 0 /\ (n + 1) - 1 = n
    BY <1>2
  <1>4. \A i \in 1 .. n : (IF i < n + 1 THEN i ELSE i + 1) = i
    BY <1>2
  <1>5. Len(m) = n + 1 /\ m[n + 1] = p /\ \A i \in 1 .. n : m[i] = l[i]
    BY <1>2 DEF Longer
  <1>6. Len(fs) = n
    BY <1>1 DEF n
  <1>7. Others(m, n + 1, fs)
    BY <1>1, <1>2, <1>3, <1>4, <1>5, <1>6 DEF Others
  <1>8. QED
    BY <1>5, <1>7 DEF n

(* A file is one leaf more.                                                  *)
LEMMA FileMore ==
    ASSUME NEW l, NEW b, NEW fs, Others(l, b, fs), NEW p \in PartType, b = 0 => ~ IsText(p),
           NEW m, m = l \o <<p>>, NEW gs, gs = Append(fs, p)
    PROVE  Others(m, b, gs) /\ (b # 0 => m[b] = l[b])
  <1> DEFINE n == Len(l)
             k == Len(fs)
  <1>1. l \in Seq(PartType) /\ fs \in Seq(PartType) /\ b \in 0 .. n
    BY DEF Others
  <1>2. m \in Seq(PartType) /\ n \in Nat /\ Longer(m, l, p, n)
    BY <1>1, LongerIs
  <1>3. gs \in Seq(PartType) /\ k \in Nat /\ Longer(gs, fs, p, k)
    BY <1>1, LongerIs
  <1>4. /\ b = 0 => fs = l /\ \A i \in 1 .. n : ~ IsText(l[i])
        /\ b # 0 => /\ IsText(l[b]) /\ \A i \in 1 .. b - 1 : ~ IsText(l[i])
                    /\ n = k + 1
                    /\ \A i \in 1 .. k : fs[i] = l[IF i < b THEN i ELSE i + 1]
    BY DEF Others
  <1> HIDE DEF n, k
  <1>5. /\ Len(m) = n + 1 /\ m[n + 1] = p /\ \A i \in 1 .. n : m[i] = l[i]
        /\ Len(gs) = k + 1 /\ gs[k + 1] = p /\ \A i \in 1 .. k : gs[i] = fs[i]
    BY <1>2, <1>3 DEF Longer
  <1>6. CASE b = 0
    <2>1. gs = m
      BY <1>1, <1>4, <1>6, AppendIsConcat
    <2>2. \A i \in 1 .. n + 1 : i = n + 1 \/ i \in 1 .. n
      BY <1>2
    <2>3. \A i \in 1 .. n + 1 : ~ IsText(m[i])
      BY <1>4, <1>5, <1>6, <2>2
    <2>4. 0 \in 0 .. n + 1
      BY <1>2
    <2>5. QED
      BY <1>2, <1>5, <1>6, <2>1, <2>3, <2>4 DEF Others
  <1>7. CASE b # 0
    <2>1. b \in 1 .. n /\ b \in 0 .. n + 1 /\ \A i \in 1 .. b - 1 : i \in 1 .. n
      BY <1>1, <1>2, <1>7
    <2>2. IsText(m[b]) /\ m[b] = l[b] /\ \A i \in 1 .. b - 1 : ~ IsText(m[i])
      BY <1>4, <1>5, <1>7, <2>1
    <2>3. ASSUME NEW i \in 1 .. k + 1
          PROVE  gs[i] = m[IF i < b THEN i ELSE i + 1]
      <3>1. n = k + 1
        BY <1>4, <1>7
      <3>2. CASE i = k + 1
        <4>1. ~ (i < b) /\ i + 1 = n + 1
          BY <1>2, <1>3, <2>1, <3>1, <3>2
        <4>2. QED
          BY <1>5, <3>2, <4>1
      <3>3. CASE i # k + 1
        <4>1. i \in 1 .. k /\ i \in 1 .. n /\ i + 1 \in 1 .. n
          BY <1>2, <1>3, <3>1, <3>3
        <4>2. gs[i] = l[IF i < b THEN i ELSE i + 1]
          BY <1>4, <1>5, <1>7, <4>1
        <4>3. QED
          BY <1>5, <4>1, <4>2
      <3>4. QED
        BY <3>2, <3>3
    <2>4. Len(m) = Len(gs) + 1
      BY <1>4, <1>5, <1>7
    <2>5. QED
      BY <1>2, <1>3, <1>5, <1>7, <2>1, <2>2, <2>3, <2>4 DEF Others
  <1>8. QED
    BY <1>6, <1>7

(* The header lines of a body and of a file.                                 *)
BodyToken(p) == Token("Body", <<>>, Len(p.content))
FileToken(p) == Token("File", <<NameOf(p)>>, Len(p.content))

(* They are lines.                                                           *)
LEMMA PartLines ==
    ASSUME NEW p \in PartType
    PROVE  /\ BodyToken(p) \in Lines /\ FileToken(p) \in Lines
           /\ Token("Body", <<>>, Len(nobody)) \in Lines
           /\ Len(p.content) \in Nat /\ p.content \in Seq(Tokens)
  <1>1. p.content \in Seq(Tokens) /\ p.name \in Word
    BY DEF PartType
  <1>2. Len(p.content) \in Nat /\ Len(nobody) \in Nat
    <2>1. nobody = <<Char("nobody")>> \o <<CR, LF>>
      BY DEF nobody, Crlf
    <2>2. Len(nobody) = 3
      <3> DEFINE S == {Char("nobody"), CR, LF}
      <3>1. Char("nobody") \in S /\ CR \in S /\ LF \in S
        OBVIOUS
      <3> HIDE DEF S
      <3>2. QED
        BY <2>1, <3>1, Three
    <2>3. QED
      BY <1>1, <2>2, LenProperties
  <1>3. NameOf(p) \in Word
    <2>1. {"attachment.bin", "attachment.txt"} \subseteq Word
      BY MailsAssumption
    <2>2. QED
      BY <1>1, <2>1 DEF NameOf
  <1>4. <<NameOf(p)>> \in Seq(Word) /\ <<>> \in Seq(Word)
    BY <1>3, Words, EmptySeq
  <1>5. {"Body", "File"} \subseteq Key \ {"cr", "char", "0xff", "lf"}
    BY DEF Key
  <1>6. QED
    BY <1>1, <1>2, <1>4, <1>5, LineIs DEF BodyToken, FileToken

(* t holds the lines for fs.                                                 *)
Filed(fs, t) ==
    t \in Seq(Lines) /\ Len(t) = Len(fs) /\ \A i \in 1 .. Len(fs) : t[i] = FileToken(fs[i])

(* a holds what is in fs, each behind a line end: off[i] tokens the first i. *)
Glued(fs, a, off) ==
    /\ a \in Seq(Tokens) /\ off \in [0 .. Len(fs) -> Nat] /\ off[0] = 0 /\ off[Len(fs)] = Len(a)
    /\ \A i \in 1 .. Len(fs) :
          /\ off[i] = off[i - 1] + 2 + Len(fs[i].content) /\ off[i] =< Len(a)
          /\ a[off[i - 1] + 1] = CR /\ a[off[i - 1] + 2] = LF
          /\ \A k \in 1 .. Len(fs[i].content) : a[off[i - 1] + 2 + k] = fs[i].content[k]

(* One more file has one more line.                                          *)
LEMMA FiledMore ==
    ASSUME NEW fs \in Seq(PartType), NEW t, Filed(fs, t), NEW p \in PartType,
           NEW gs, gs = Append(fs, p), NEW u, u = Append(t, FileToken(p))
    PROVE  Filed(gs, u)
  <1> DEFINE n == Len(fs)
  <1>1. t \in Seq(Lines) /\ n = Len(t) /\ \A i \in 1 .. n : t[i] = FileToken(fs[i])
    BY DEF Filed
  <1>2. gs \in Seq(PartType) /\ n \in Nat /\ Longer(gs, fs, p, n)
    BY LongerIs
  <1>3. u \in Seq(Lines) /\ Longer(u, t, FileToken(p), n)
    BY <1>1, PartLines, LongerIs
  <1> HIDE DEF n
  <1>4. \A i \in 1 .. n + 1 : i = n + 1 \/ i \in 1 .. n
    BY <1>2
  <1>5. QED
    BY <1>1, <1>2, <1>3, <1>4 DEF Filed, Longer

(* A line end, as a text.                                                    *)
LEMMA CrlfIs ==
    CR \in Tokens /\ LF \in Tokens /\ Crlf \in Seq(Tokens) /\ Len(Crlf) = 2
    /\ Crlf[1] = CR /\ Crlf[2] = LF
  <1>1. ASSUME NEW k \in Key, NEW t \in Seq(Word)
        PROVE  Token(k, t, 0) \in Tokens
    <2>1. 0 \in Nat
      OBVIOUS
    <2>2. QED
      BY <2>1 DEF Token, Tokens
  <1>2. {"cr", "lf"} \subseteq Key
    BY DEF Key
  <1>3. CR \in Tokens /\ LF \in Tokens
    BY <1>1, <1>2, EmptySeq DEF CR, LF
  <1>4. ASSUME NEW S, NEW x \in S, NEW y \in S
        PROVE  <<x, y>> \in Seq(S) /\ Len(<<x, y>>) = 2 /\ <<x, y>>[1] = x /\ <<x, y>>[2] = y
    OBVIOUS
  <1>5. QED
    BY <1>3, <1>4 DEF Crlf

(* One more file is one more text behind a line end.                         *)
LEMMA GluedMore ==
    ASSUME NEW fs \in Seq(PartType), NEW a, NEW off, Glued(fs, a, off), NEW p \in PartType,
           NEW gs, gs = Append(fs, p), NEW c, c = a \o Crlf \o p.content
    PROVE  \E o : Glued(gs, c, o)
  <1> DEFINE n == Len(fs)
             la == Len(a)
             lp == Len(p.content)
             d == a \o Crlf
             o == [i \in 0 .. n + 1 |-> IF i = n + 1 THEN la + 2 + lp ELSE off[i]]
  <1>1. /\ a \in Seq(Tokens) /\ off \in [0 .. n -> Nat] /\ off[0] = 0 /\ off[n] = la
        /\ \A i \in 1 .. n :
              /\ off[i] = off[i - 1] + 2 + Len(fs[i].content) /\ off[i] =< la
              /\ a[off[i - 1] + 1] = CR /\ a[off[i - 1] + 2] = LF
              /\ \A k \in 1 .. Len(fs[i].content) : a[off[i - 1] + 2 + k] = fs[i].content[k]
    BY DEF Glued
  <1>2. gs \in Seq(PartType) /\ n \in Nat /\ Longer(gs, fs, p, n)
    BY LongerIs
  <1>3. la \in Nat /\ lp \in Nat /\ p.content \in Seq(Tokens)
    BY <1>1, PartLines, LenProperties
  <1>4. d \in Seq(Tokens) /\ Joined(d, a, Crlf, la, 2)
    BY <1>1, CrlfIs, JoinedIs
  <1>5. c \in Seq(Tokens) /\ Joined(c, d, p.content, la + 2, lp)
    <2>1. la + 2 = Len(d)
      BY <1>4 DEF Joined
    <2> HIDE DEF d, la, lp
    <2>2. lp = Len(p.content) /\ c = d \o p.content
      BY DEF lp, d
    <2>3. QED
      BY <1>3, <1>4, <2>1, <2>2, JoinedIs
  <1> HIDE DEF n, la, lp, d
  <1>6. /\ \A i \in 1 .. la : c[i] = a[i]
        /\ c[la + 1] = CR /\ c[la + 2] = LF /\ \A k \in 1 .. lp : c[la + 2 + k] = p.content[k]
        /\ Len(c) = la + 2 + lp
    <2>1. /\ 1 \in 1 .. 2 /\ 2 \in 1 .. 2 /\ la + 1 \in 1 .. la + 2 /\ la + 2 \in 1 .. la + 2
          /\ \A i \in 1 .. la : i \in 1 .. la + 2
      BY <1>3
    <2>2. \A i \in 1 .. la : c[i] = a[i]
      BY <1>4, <1>5, <2>1 DEF Joined
    <2>3. c[la + 1] = CR /\ c[la + 2] = LF
      BY <1>4, <1>5, <2>1, CrlfIs DEF Joined
    <2>4. (\A k \in 1 .. lp : c[la + 2 + k] = p.content[k]) /\ Len(c) = la + 2 + lp
      BY <1>5 DEF Joined
    <2>5. QED
      BY <2>2, <2>3, <2>4
  <1>7. o \in [0 .. n + 1 -> Nat] /\ o[0] = 0 /\ o[n + 1] = la + 2 + lp /\ \A i \in 0 .. n : o[i] = off[i]
    <2>1. 0 \in 0 .. n /\ n + 1 \in 0 .. n + 1 /\ la + 2 + lp \in Nat
      BY <1>2, <1>3
    <2>2. \A i \in 0 .. n : i # n + 1 /\ i \in 0 .. n + 1
      BY <1>2
    <2>3. \A i \in 0 .. n + 1 : i # n + 1 => i \in 0 .. n
      BY <1>2
    <2>4. \A i \in 0 .. n + 1 : o[i] \in Nat
      BY <1>1, <2>1, <2>3
    <2>5. QED
      BY <1>1, <2>1, <2>2, <2>4
  <1> HIDE DEF o
  <1>8. ASSUME NEW i \in 1 .. n + 1
        PROVE  /\ o[i] = o[i - 1] + 2 + Len(gs[i].content) /\ o[i] =< Len(c)
               /\ c[o[i - 1] + 1] = CR /\ c[o[i - 1] + 2] = LF
               /\ \A k \in 1 .. Len(gs[i].content) : c[o[i - 1] + 2 + k] = gs[i].content[k]
    <2>1. CASE i = n + 1
      <3>1. gs[i] = p
        BY <1>2, <2>1 DEF Longer
      <3>2. i - 1 = n /\ n \in 0 .. n
        BY <1>2, <2>1
      <3>3. o[i - 1] = la /\ o[i] = la + 2 + lp
        BY <1>1, <1>7, <2>1, <3>2
      <3>4. Len(gs[i].content) = lp
        BY <3>1 DEF lp
      <3>5. o[i] =< Len(c)
        BY <1>3, <1>6, <3>3
      <3>6. QED
        BY <1>6, <3>1, <3>3, <3>4, <3>5
    <2>2. CASE i # n + 1
      <3>1. i \in 1 .. n /\ i \in 0 .. n /\ i - 1 \in 0 .. n
        BY <1>2, <2>2
      <3>2. gs[i] = fs[i] /\ o[i] = off[i] /\ o[i - 1] = off[i - 1]
        BY <1>2, <1>7, <3>1 DEF Longer
      <3> DEFINE q == off[i - 1]
                 r == off[i]
                 m == Len(fs[i].content)
      <3>3. q \in Nat /\ r \in Nat /\ r = q + 2 + m /\ r =< la
        BY <1>1, <3>1
      <3>4. m \in Nat
        <4>1. fs[i] \in PartType
          BY <3>1, ElementOfSeq DEF n
        <4>2. QED
          BY <4>1, PartLines
      <3> HIDE DEF q, r, m
      <3>5. r =< Len(c) /\ q + 1 \in 1 .. la /\ q + 2 \in 1 .. la /\ \A k \in 1 .. m : q + 2 + k \in 1 .. la
        BY <1>3, <1>6, <3>3, <3>4
      <3>6. c[q + 1] = CR /\ c[q + 2] = LF /\ \A k \in 1 .. m : c[q + 2 + k] = fs[i].content[k]
        <4>1. a[q + 1] = CR /\ a[q + 2] = LF /\ \A k \in 1 .. m : a[q + 2 + k] = fs[i].content[k]
          BY <1>1, <3>1 DEF q, m
        <4>2. QED
          BY <1>6, <3>5, <4>1
      <3>7. QED
        BY <3>2, <3>3, <3>5, <3>6 DEF q, r, m
    <2>3. QED
      BY <2>1, <2>2
  <1>9. Len(gs) = n + 1
    BY <1>2 DEF Longer
  <1>10. Glued(gs, c, o)
    <2>1. o[Len(gs)] = Len(c)
      BY <1>6, <1>7, <1>9
    <2>2. QED
      BY <1>5, <1>7, <1>8, <1>9, <2>1, ZenonT(60) DEF Glued
  <1>11. QED
    BY <1>10

(* Something glued is empty, or begins with a line end.                      *)
LEMMA GluedBegins ==
    ASSUME NEW fs \in Seq(PartType), NEW a, NEW off, Glued(fs, a, off)
    PROVE  a \in Seq(Tokens) /\ (a = <<>> \/ (Len(a) >= 2 /\ a[1] = CR /\ a[2] = LF))
  <1> DEFINE n == Len(fs)
             la == Len(a)
  <1>1. /\ a \in Seq(Tokens) /\ off[0] = 0 /\ off[n] = la
        /\ \A i \in 1 .. n :
              /\ off[i] = off[i - 1] + 2 + Len(fs[i].content) /\ off[i] =< la
              /\ a[off[i - 1] + 1] = CR /\ a[off[i - 1] + 2] = LF
    BY DEF Glued
  <1>2. n \in Nat /\ la \in Nat
    BY <1>1, LenProperties
  <1>3. CASE n = 0
    BY <1>1, <1>3, EmptySeq
  <1>4. CASE n # 0
    <2>1. 1 \in 1 .. n /\ 1 - 1 = 0 /\ 0 + 1 = 1 /\ 0 + 2 = 2
      BY <1>2, <1>4
    <2>2. fs[1] \in PartType
      BY <2>1, ElementOfSeq
    <2> DEFINE m == Len(fs[1].content)
    <2>3. m \in Nat
      BY <2>2, PartLines
    <2>4. off[1] = 0 + 2 + m /\ off[1] =< la /\ a[1] = CR /\ a[2] = LF
      BY <1>1, <2>1
    <2> HIDE DEF n, la, m
    <2>5. la >= 2
      BY <1>2, <2>3, <2>4
    <2>6. QED
      BY <1>1, <2>4, <2>5 DEF la
  <1>5. QED
    BY <1>3, <1>4

(* What is gathered of the leaves l: headers, files, body and attachments.   *)
Gathered(m, l, b, fs, off, h, f, bb, a) ==
    /\ Others(l, b, fs) /\ Filed(fs, f) /\ Glued(fs, a, off)
    /\ h = IF b = 0 THEN HeaderOf(m) ELSE Append(HeaderOf(m), BodyToken(l[b]))
    /\ bb = IF b = 0 THEN <<>> ELSE Crlf \o l[b].content

(* A file made of m: lines and tail, which wl2mime takes for its headers, and *)
(* the rest; the body is the b-th of the leaves l, the files are fs and lie in *)
(* a.                                                                        *)
Laid(m, l, text, lines, tail, rest, b, fs, a, off) ==
    /\ Layered(lines, tail, rest) /\ text = (lines \o tail) \o rest
    /\ Begins(m, lines) /\ Len(lines) = MboAt(m) + 1 + Len(fs)
    /\ lines[MboAt(m) + 1].key = "Body"
    /\ \A i \in 1 .. Len(fs) : lines[MboAt(m) + 1 + i] = FileToken(fs[i])
    /\ Others(l, b, fs) /\ Glued(fs, a, off)
    /\ b # 0 => /\ lines[MboAt(m) + 1] = BodyToken(l[b])
                /\ tail = <<>> /\ rest = Crlf \o (l[b].content \o a)

(* Its lines, t being the one for the body.                                  *)
LinesFor(m, t, fs, lines) ==
    /\ lines \in Seq(Lines) /\ lines # <<>> /\ Begins(m, lines)
    /\ Len(lines) = MboAt(m) + 1 + Len(fs) /\ lines[MboAt(m) + 1] = t
    /\ \A i \in 1 .. Len(fs) : lines[MboAt(m) + 1 + i] = FileToken(fs[i])

(* They are the headers, t and those for the files.                          *)
LEMMA LinesAre ==
    ASSUME NEW m \in Mail, NEW t \in Lines, NEW fs \in Seq(PartType), NEW f, Filed(fs, f),
           NEW h, h = Append(HeaderOf(m), t) \/ h = HeaderOf(m) \o <<t>>, NEW lines, lines = h \o f
    PROVE  LinesFor(m, t, fs, lines)
  <1> DEFINE n == Len(fs)
             k == MboAt(m)
             g == HeaderOf(m)
  <1>1. n \in Nat /\ k \in Nat
    BY MailHas, LenProperties
  <1>2. g \in Seq(Lines) /\ k = Len(g) /\ Begins(m, g)
    BY HeaderIs
  <1>3. f \in Seq(Lines) /\ n = Len(f) /\ \A i \in 1 .. n : f[i] = FileToken(fs[i])
    BY DEF Filed
  <1> HIDE DEF g, k, n
  <1>4. h \in Seq(Lines) /\ Longer(h, g, t, k)
    <2>1. h = Append(g, t) \/ h = g \o <<t>>
      BY DEF g
    <2>2. QED
      BY <1>2, <2>1, LongerIs
  <1>5. lines \in Seq(Lines) /\ Joined(lines, h, f, k + 1, n)
    <2>1. k + 1 = Len(h)
      BY <1>4 DEF Longer
    <2>2. QED
      BY <1>3, <1>4, <2>1, JoinedIs
  <1>6. /\ Len(lines) = k + 1 + n /\ lines[k + 1] = t
        /\ \A i \in 1 .. k : lines[i] = g[i]
        /\ \A i \in 1 .. n : lines[k + 1 + i] = FileToken(fs[i])
    <2>1. k + 1 \in 1 .. k + 1 /\ \A i \in 1 .. k : i \in 1 .. k + 1
      BY <1>1
    <2>2. Len(lines) = k + 1 + n /\ lines[k + 1] = t /\ \A i \in 1 .. k : lines[i] = g[i]
      BY <1>4, <1>5, <2>1 DEF Joined, Longer
    <2>3. \A i \in 1 .. n : lines[k + 1 + i] = FileToken(fs[i])
      BY <1>3, <1>5 DEF Joined
    <2>4. QED
      BY <2>2, <2>3
  <1>7. Begins(m, lines)
    <2>1. Len(g) \in Nat /\ Len(lines) \in Nat /\ Len(g) =< Len(lines)
          /\ \A i \in 1 .. Len(g) : lines[i] = g[i]
      BY <1>1, <1>2, <1>6
    <2>2. QED
      BY <1>2, <2>1, BeginsOn
  <1>8. lines # <<>>
    <2>1. Len(lines) # 0
      BY <1>1, <1>6
    <2>2. QED
      BY <2>1, EmptySeq
  <1>9. QED
    BY <1>5, <1>6, <1>7, <1>8 DEF k, n, LinesFor

(* What Layout writes.                                                       *)
Written(h, f, bb, a) ==
    IF bb = <<>> THEN h \o <<Token("Body", <<>>, Len(nobody))>> \o f \o nobody \o a
    ELSE h \o f \o bb \o a

(* It is laid out.                                                           *)
LEMMA LaysOut ==
    ASSUME NEW m \in Mail, NEW l, NEW b, NEW fs, NEW off, NEW h, NEW f, NEW bb, NEW a,
           Gathered(m, l, b, fs, off, h, f, bb, a), 
           NEW text, text = Written(h, f, bb, a)
    PROVE  \E lines, tail, rest : Laid(m, l, text, lines, tail, rest, b, fs, a, off)
  <1>1. /\ Others(l, b, fs) /\ Filed(fs, f) /\ Glued(fs, a, off)
        /\ h = IF b = 0 THEN HeaderOf(m) ELSE Append(HeaderOf(m), BodyToken(l[b]))
        /\ bb = IF b = 0 THEN <<>> ELSE Crlf \o l[b].content
    BY Zenon DEF Gathered
  <1>2. fs \in Seq(PartType) /\ l \in Seq(PartType) /\ b \in 0 .. Len(l)
    BY <1>1 DEF Others
  <1>3. a \in Seq(Tokens) /\ (a = <<>> \/ (Len(a) >= 2 /\ a[1] = CR /\ a[2] = LF))
    BY <1>1, <1>2, GluedBegins
  <1>4. CASE b = 0
    <2> DEFINE t == Token("Body", <<>>, Len(nobody))
               g == h \o <<t>>
               lines == g \o f
    <2>1. h = HeaderOf(m) /\ bb = <<>>
      BY <1>1, <1>4
    <2>2. text = (lines \o nobody) \o a
      BY <2>1 DEF Written
    <2>3. t \in Lines /\ t.key = "Body"
      <3>1. "Body" \in Key \ {"cr", "char", "0xff", "lf"} /\ <<>> \in Seq(Word)
        BY EmptySeq DEF Key
      <3>2. Len(nobody) \in Nat
        <4>1. nobody = <<Char("nobody")>> \o <<CR, LF>>
          BY DEF nobody, Crlf
        <4> DEFINE S == {Char("nobody"), CR, LF}
        <4>2. Char("nobody") \in S /\ CR \in S /\ LF \in S
          OBVIOUS
        <4> HIDE DEF S
        <4>3. QED
          BY <4>1, <4>2, Three
      <3>3. QED
        BY <3>1, <3>2, LineIs DEF Token
    <2> HIDE DEF t
    <2>4. LinesFor(m, t, fs, lines)
      <3>1. g = HeaderOf(m) \o <<t>>
        BY <2>1
      <3>2. lines = g \o f
        OBVIOUS
      <3> HIDE DEF g, lines
      <3>3. QED
        BY <1>1, <1>2, <2>3, <3>1, <3>2, LinesAre
    <2> HIDE DEF lines
    <2>5. Layered(lines, nobody, a)
      BY <1>3, <2>4 DEF Layered, LinesFor
    <2>6. Laid(m, l, text, lines, nobody, a, b, fs, a, off)
      BY <1>1, <1>4, <2>2, <2>3, <2>4, <2>5 DEF Laid, LinesFor
    <2>7. QED
      BY <2>6
  <1>5. CASE b # 0
    <2> DEFINE c == l[b].content
               t == BodyToken(l[b])
               lines == h \o f
               rest == Crlf \o (c \o a)
    <2>1. h = Append(HeaderOf(m), t) /\ bb = Crlf \o c
      BY <1>1, <1>5
    <2>2. b \in 1 .. Len(l)
      BY <1>2, <1>5
    <2>3. l[b] \in PartType
      BY <1>2, <2>2, ElementOfSeq
    <2>4. t \in Lines /\ c \in Seq(Tokens)
      BY <2>3, PartLines
    <2>5. t.key = "Body"
      BY DEF BodyToken, Token
    <2> HIDE DEF c, t
    <2>6. bb # <<>> /\ bb \in Seq(Tokens)
      <3> DEFINE n == Len(c)
      <3>1. bb \in Seq(Tokens) /\ n \in Nat /\ Joined(bb, Crlf, c, 2, n)
        BY <2>1, <2>4, CrlfIs, JoinedIs
      <3>2. Len(bb) = 2 + n
        BY <3>1 DEF Joined
      <3>3. 2 + n # 0
        BY <3>1
      <3>4. QED
        BY <3>1, <3>2, <3>3, EmptySeq
    <2>7. LinesFor(m, t, fs, lines)
      <3>1. lines = h \o f
        OBVIOUS
      <3> HIDE DEF lines
      <3>2. QED
        BY <1>1, <1>2, <2>1, <2>4, <3>1, LinesAre
    <2>8. c \o a \in Seq(Tokens)
      BY <1>3, <2>4, ConcatProperties
    <2>9. rest \in Seq(Tokens) /\ Len(rest) >= 2 /\ rest[1] = CR /\ rest[2] = LF
      <3> DEFINE d == c \o a
                 n == Len(d)
      <3>1. n \in Nat
        BY <2>8, LenProperties
      <3>2. rest = Crlf \o d
        OBVIOUS
      <3> HIDE DEF rest, d
      <3>3. rest \in Seq(Tokens) /\ Joined(rest, Crlf, d, 2, n)
        <4>1. d \in Seq(Tokens)
          BY <2>8 DEF d
        <4>2. QED
          BY <3>2, <4>1, CrlfIs, JoinedIs
      <3> HIDE DEF n
      <3>4. 2 + n >= 2 /\ 1 \in 1 .. 2 /\ 2 \in 1 .. 2
        BY <3>1
      <3>5. QED
        BY <3>3, <3>4, CrlfIs DEF Joined
    <2>10. text = (lines \o <<>>) \o rest
      <3>1. lines \in Seq(Tokens)
        BY <2>7, SeqMonotonic DEF Lines, LinesFor
      <3>2. text = (lines \o (Crlf \o c)) \o a
        BY <2>1, <2>6 DEF Written
      <3>3. rest = Crlf \o (c \o a)
        OBVIOUS
      <3> HIDE DEF lines, rest
      <3>4. (lines \o (Crlf \o c)) \o a = (lines \o <<>>) \o (Crlf \o (c \o a))
        <4>1. a \in Seq(Tokens) /\ c \in Seq(Tokens) /\ Crlf \in Seq(Tokens)
          BY <1>3, <2>4, CrlfIs
        <4>2. Regrouped(lines, Crlf, c, a)
          BY <3>1, <4>1, Regroup
        <4>3. QED
          BY <4>2 DEF Regrouped
      <3>5. QED
        BY <3>2, <3>3, <3>4
    <2>11. rest = Crlf \o (l[b].content \o a)
      BY DEF c
    <2>12. lines[MboAt(m) + 1] = BodyToken(l[b])
      BY <2>7 DEF t, LinesFor
    <2> HIDE DEF lines, rest
    <2>13. Layered(lines, <<>>, rest)
      BY <2>7, <2>9 DEF Layered, LinesFor
    <2>14. lines[MboAt(m) + 1].key = "Body"
      BY <2>5, <2>7 DEF LinesFor
    <2>15. Laid(m, l, text, lines, <<>>, rest, b, fs, a, off)
      BY <1>1, <1>5, <2>7, <2>10, <2>11, <2>12, <2>13, <2>14 DEF Laid, LinesFor
    <2>16. QED
      BY <2>15
  <1>6. QED
    BY <1>4, <1>5

-------------------------------------------------------------------------------
(* What wl2mime makes of the headers.                                        *)

(* An address as it arrives.                                                 *)
Full(a) == <<a[1], IF a[2] = "" THEN "winlink.org" ELSE a[2]>>

(* Mailbox gives it.                                                         *)
LEMMA MailboxIs ==
    ASSUME NEW a, NEW k
    PROVE  Mailbox(Token(k, Address(a), 0)) = Full(a)
  <1> DEFINE t == Token(k, Address(a), 0)
  <1>1. t.text = Address(a)
    BY DEF Token
  <1> HIDE DEF t
  <1>2. CASE a[2] = ""
    <2>1. Address(a) = <<"", a[1], "">>
      BY <1>2 DEF Address
    <2>2. t.text[1] = "" /\ t.text[2] = a[1]
      <3> DEFINE e == ""
                 u == a[1]
      <3>1. t.text = <<e, u, e>>
        BY <1>1, <2>1
      <3> HIDE DEF e, u
      <3>2. t.text[1] = e /\ t.text[2] = u
        BY <3>1, Triple
      <3>3. QED
        BY <3>2 DEF e, u
    <2>3. Mailbox(t) = <<a[1], "winlink.org">>
      BY <2>2 DEF Mailbox
    <2>4. QED
      BY <1>2, <2>3 DEF Full, t
  <1>3. CASE a[2] # ""
    <2>1. Address(a) = <<"SMTP:", a[1], a[2]>>
      BY <1>3 DEF Address
    <2>2. t.text[1] = "SMTP:" /\ t.text[2] = a[1] /\ t.text[3] = a[2]
      BY <1>1, <2>1, Triple
    <2>3. Mailbox(t) = <<a[1], a[2]>>
      BY <2>2 DEF Mailbox
    <2>4. QED
      BY <1>3, <2>3 DEF Full, t
  <1>4. QED
    BY <1>2, <1>3

(* How many of n have been read behind the first o lines, k being read.      *)
Past(k, o, n) == IF k < o THEN 0 ELSE IF k - o > n THEN n ELSE k - o

(* These have been copied.                                                   *)
Fulls(list) == {Full(list[i]) : i \in 1 .. Len(list)}
Copied(list, out, k, o) ==
    /\ out \in Seq(Fulls(list)) /\ Len(out) = Past(k, o, Len(list))
    /\ \A i \in 1 .. Len(out) : out[i] = Full(list[i])

(* The next line is one of these.                                            *)
LEMMA CopiedMore ==
    ASSUME NEW S, NEW list \in Seq(S), NEW out, NEW k \in Nat, NEW o \in Nat, Copied(list, out, k, o),
           NEW n, n = Len(list), o =< k, k - o < n, NEW j, j = k - o + 1,
           NEW more, more = Append(out, Full(list[j]))
    PROVE  Copied(list, more, k + 1, o)
  <1>1. n \in Nat
    BY LenProperties
  <1> DEFINE l == Len(out)
             F == Fulls(list)
             e == Full(list[j])
  <1>2. out \in Seq(F) /\ l = Past(k, o, n) /\ \A i \in 1 .. l : out[i] = Full(list[i])
    BY DEF Copied
  <1>3. j = (k - o) + 1
    OBVIOUS
  <1>4. Past(k, o, n) = k - o /\ Past(k + 1, o, n) = (k - o) + 1 /\ k - o \in Nat /\ j \in 1 .. n
    BY <1>1, <1>3 DEF Past
  <1>5. e \in F
    BY <1>4 DEF Fulls
  <1>6. more \in Seq(F) /\ Longer(more, out, e, l)
    <2>1. more = Append(out, e) /\ l = Len(out)
      OBVIOUS
    <2> HIDE DEF l, F, e
    <2>2. QED
      BY <1>2, <1>5, <2>1, LongerIs
  <1> HIDE DEF l, F
  <1>7. j = l + 1 /\ Past(k + 1, o, n) = l + 1 /\ l \in Nat
    BY <1>2, <1>3, <1>4
  <1>8. \A i \in 1 .. l + 1 : i = l + 1 \/ i \in 1 .. l
    BY <1>7
  <1>9. \A i \in 1 .. l + 1 : more[i] = Full(list[i])
    BY <1>2, <1>6, <1>7, <1>8 DEF Longer
  <1>10. QED
    BY <1>6, <1>7, <1>9 DEF Copied, Longer, F

(* The next line is none of these.                                           *)
LEMMA CopiedOn ==
    ASSUME NEW S, NEW list \in Seq(S), NEW out, NEW k \in Nat, NEW o \in Nat, Copied(list, out, k, o),
           NEW n, n = Len(list), k < o \/ n =< k - o
    PROVE  Copied(list, out, k + 1, o)
  <1>1. n \in Nat
    BY LenProperties
  <1>2. Past(k + 1, o, n) = Past(k, o, n)
    BY <1>1 DEF Past
  <1>3. QED
    BY <1>2 DEF Copied

(* All have been read.                                                       *)
LEMMA CopiedAll ==
    ASSUME NEW S, NEW list \in Seq(S), NEW out, NEW k \in Nat, NEW o \in Nat, Copied(list, out, k, o),
           NEW n, n = Len(list), o =< k, n =< k - o
    PROVE  out = [i \in 1 .. Len(list) |-> Full(list[i])]
  <1>1. n \in Nat
    BY LenProperties
  <1>2. Past(k, o, n) = n
    BY <1>1 DEF Past
  <1>3. /\ out \in Seq(Fulls(list)) /\ Len(out) = n
        /\ \A i \in 1 .. n : out[i] = Full(list[i])
    BY <1>2 DEF Copied
  <1>4. out \in [1 .. n -> Fulls(list)]
    BY <1>3, LenProperties
  <1>5. out = [i \in 1 .. n |-> out[i]]
    BY <1>4
  <1>6. QED
    BY <1>3, <1>5

(* What a line makes of a message.                                           *)
Told(g, t) ==
    CASE t.key = "From"     -> [g EXCEPT !.from = Mailbox(t)]
      [] t.key = "To"       -> [g EXCEPT !.to = Append(@, Mailbox(t))]
      [] t.key = "Cc"       -> [g EXCEPT !.cc = Append(@, Mailbox(t))]
      [] t.key = "Bcc"      -> [g EXCEPT !.bcc = Append(@, Mailbox(t))]
      [] t.key = "Reply-To" -> [g EXCEPT !.replyTo = t.text]
      [] t.key = "Subject"  -> [g EXCEPT !.subject = t.text[1]]
      [] OTHER -> g

(* A message, whatever its fields are.                                       *)
Shaped(g) ==
    g = [from |-> g.from, to |-> g.to, cc |-> g.cc, bcc |-> g.bcc, replyTo |-> g.replyTo,
         subject |-> g.subject, parts |-> g.parts]

(* What has been made of the first k lines of a file of m.                   *)
Heard(m, g, k) ==
    /\ Shaped(g)
    /\ k >= 1 => g.from = Full(m.from)
    /\ Copied(m.to, g.to, k, 1)
    /\ Copied(m.cc, g.cc, k, CcFrom(m))
    /\ Copied(m.bcc, g.bcc, k, BccFrom(m))
    /\ k >= SubjectAt(m) => g.subject = m.subject
    /\ g.replyTo = IF k > SubjectAt(m) THEN m.replyTo ELSE <<>>

(* Only one field changes.                                                   *)
Changed(g, f, k) ==
    /\ Shaped(f)
    /\ k # "from" => f.from = g.from
    /\ k # "to" => f.to = g.to
    /\ k # "cc" => f.cc = g.cc
    /\ k # "bcc" => f.bcc = g.bcc
    /\ k # "replyTo" => f.replyTo = g.replyTo
    /\ k # "subject" => f.subject = g.subject
    /\ k # "parts" => f.parts = g.parts

(* One header line more.                                                     *)
LEMMA HeardMore ==
    ASSUME NEW m \in Mail, NEW h, Begins(m, h), NEW g, NEW k \in Nat, k < MboAt(m), Heard(m, g, k),
           NEW t, t = h[k + 1], NEW f, f = Told(g, t)
    PROVE  Heard(m, f, k + 1) /\ f.parts = g.parts /\ t.key \notin {"Body", "File"}
  <1> DEFINE a == Len(m.to)
             b == Len(m.cc)
             c == Len(m.bcc)
             p == CcFrom(m)
             q == BccFrom(m)
             s == SubjectAt(m)
             n == MboAt(m)
  <1>1. /\ a \in Nat /\ b \in Nat /\ c \in Nat /\ p \in Nat /\ q \in Nat /\ s \in Nat /\ n \in Nat
        /\ p = 1 + a /\ q = p + b /\ s = q + c + 1 /\ s < n
        /\ m.to \in Seq(Word \X Word) /\ m.cc \in Seq(Word \X Word) /\ m.bcc \in Seq(Word \X Word)
    BY MailHas
  <1>2. /\ Shaped(g)
        /\ k >= 1 => g.from = Full(m.from)
        /\ Copied(m.to, g.to, k, 1) /\ Copied(m.cc, g.cc, k, p) /\ Copied(m.bcc, g.bcc, k, q)
        /\ k >= s => g.subject = m.subject
        /\ g.replyTo = IF k > s THEN m.replyTo ELSE <<>>
    BY DEF Heard
  <1>0. Shaped(g)
    BY <1>2
  <1>3. n = IF m.replyTo = <<>> THEN s + 1 ELSE s + 2
    BY DEF MboAt
  <1>4. /\ h[1] = Token("From", Address(m.from), 0)
        /\ \A i \in 1 .. a : h[1 + i] = Token("To", Address(m.to[i]), 0)
        /\ \A i \in 1 .. b : h[p + i] = Token("Cc", Address(m.cc[i]), 0)
        /\ \A i \in 1 .. c : h[q + i] = Token("Bcc", Address(m.bcc[i]), 0)
        /\ h[s] = Token("Subject", <<m.subject>>, 0)
        /\ m.replyTo # <<>> => h[s + 1] = Token("Reply-To", m.replyTo, 0)
        /\ h[n] = Token("Mbo", Mbo(m.from), 0)
    BY DEF Begins
  <1>5. f = CASE t.key = "From"     -> [g EXCEPT !.from = Mailbox(t)]
              [] t.key = "To"       -> [g EXCEPT !.to = Append(g.to, Mailbox(t))]
              [] t.key = "Cc"       -> [g EXCEPT !.cc = Append(g.cc, Mailbox(t))]
              [] t.key = "Bcc"      -> [g EXCEPT !.bcc = Append(g.bcc, Mailbox(t))]
              [] t.key = "Reply-To" -> [g EXCEPT !.replyTo = t.text]
              [] t.key = "Subject"  -> [g EXCEPT !.subject = t.text[1]]
              [] OTHER -> g
    BY DEF Told
  <1>6. k < n
    OBVIOUS
  <1>7. ASSUME NEW S, NEW list \in Seq(S), NEW out, NEW o \in Nat, Copied(list, out, k, o),
               NEW l, l = Len(list), k < o \/ l =< k - o
        PROVE  Copied(list, out, k + 1, o)
    BY <1>7, CopiedOn
  <1> HIDE DEF a, b, c, p, q, s, n
  <1>8. ASSUME Shaped(f), f.from = Full(m.from),
               Copied(m.to, f.to, k + 1, 1), Copied(m.cc, f.cc, k + 1, p), Copied(m.bcc, f.bcc, k + 1, q),
               k + 1 >= s => f.subject = m.subject,
               f.replyTo = IF k + 1 > s THEN m.replyTo ELSE <<>>
        PROVE  Heard(m, f, k + 1)
    BY <1>8 DEF Heard, p, q, s
  <1>9. CASE k = 0
    <2>1. /\ k < 1 /\ k < p /\ k < q /\ ~ (k + 1 >= s) /\ ~ (k + 1 > s) /\ k + 1 = 1
          /\ ~ (k > s)
      BY <1>1, <1>9
    <2>2. t.key = "From" /\ Mailbox(t) = Full(m.from)
      BY <1>4, <2>1, MailboxIs DEF Token
    <2>3. f = [g EXCEPT !.from = Full(m.from)]
      BY <1>5, <2>2
    <2>4. Changed(g, f, "from") /\ f.from = Full(m.from)
      BY <1>0, <2>3 DEF Changed, Shaped
    <2>5. /\ Shaped(f) /\ f.to = g.to /\ f.cc = g.cc /\ f.bcc = g.bcc /\ f.replyTo = g.replyTo
          /\ f.parts = g.parts
      BY <2>4 DEF Changed
    <2>6. Copied(m.to, g.to, k + 1, 1)
      BY <1>1, <1>2, <2>1, CopiedOn
    <2>7. Copied(m.cc, g.cc, k + 1, p) /\ Copied(m.bcc, g.bcc, k + 1, q)
      BY <1>1, <1>2, <2>1, CopiedOn
    <2>8. QED
      BY <1>2, <1>8, <2>1, <2>2, <2>4, <2>5, <2>6, <2>7
  <1>10. CASE 1 =< k /\ k < p
    <2>1. /\ k \in 1 .. a /\ k + 1 = 1 + k /\ k - 1 < a /\ k = k - 1 + 1 /\ k < p /\ k < q
          /\ ~ (k + 1 >= s) /\ ~ (k + 1 > s) /\ ~ (k > s) /\ 1 =< k
      BY <1>1, <1>10
    <2>2. t.key = "To" /\ Mailbox(t) = Full(m.to[k])
      <3>1. t = Token("To", Address(m.to[k]), 0)
        BY <1>4, <2>1
      <3>2. t.key = "To"
        BY <3>1 DEF Token
      <3>3. QED
        BY <3>1, <3>2, MailboxIs
    <2> DEFINE x == Append(g.to, Full(m.to[k]))
    <2>3. f = [g EXCEPT !.to = x]
      BY <1>5, <2>2
    <2> HIDE DEF x
    <2>4. Changed(g, f, "to") /\ f.to = x
      BY <1>0, <2>3 DEF Changed, Shaped
    <2>5. /\ Shaped(f) /\ f.from = g.from /\ f.cc = g.cc /\ f.bcc = g.bcc /\ f.replyTo = g.replyTo
          /\ f.parts = g.parts
      BY <2>4 DEF Changed
    <2>6. Copied(m.to, x, k + 1, 1)
      BY <1>1, <1>2, <2>1, CopiedMore DEF x, a
    <2>7. Copied(m.cc, g.cc, k + 1, p) /\ Copied(m.bcc, g.bcc, k + 1, q)
      BY <1>1, <1>2, <2>1, CopiedOn
    <2>8. QED
      BY <1>2, <1>8, <2>1, <2>2, <2>4, <2>5, <2>6, <2>7
  <1>11. CASE p =< k /\ k < q
    <2> DEFINE j == k - p + 1
    <2>1. /\ j \in 1 .. b /\ k + 1 = p + j /\ k - p < b /\ a =< k - 1 /\ p =< k /\ k < q
          /\ ~ (k + 1 >= s) /\ ~ (k + 1 > s) /\ ~ (k > s) /\ 1 =< k
      <3>1. j = (k - p) + 1
        OBVIOUS
      <3> HIDE DEF j
      <3>2. QED
        BY <1>1, <1>11, <3>1
    <2> DEFINE x == Append(g.cc, Full(m.cc[j]))
    <2>6. Copied(m.cc, x, k + 1, p)
      BY <1>1, <1>2, <2>1, CopiedMore DEF b
    <2> HIDE DEF j
    <2>2. t.key = "Cc" /\ Mailbox(t) = Full(m.cc[j])
      <3>1. t = Token("Cc", Address(m.cc[j]), 0)
        BY <1>4, <2>1
      <3>2. t.key = "Cc"
        BY <3>1 DEF Token
      <3>3. QED
        BY <3>1, <3>2, MailboxIs
    <2>3. f = [g EXCEPT !.cc = x]
      BY <1>5, <2>2
    <2> HIDE DEF x
    <2>4. Changed(g, f, "cc") /\ f.cc = x
      BY <1>0, <2>3 DEF Changed, Shaped
    <2>5. /\ Shaped(f) /\ f.from = g.from /\ f.to = g.to /\ f.bcc = g.bcc /\ f.replyTo = g.replyTo
          /\ f.parts = g.parts
      BY <2>4 DEF Changed
    <2>7. Copied(m.to, g.to, k + 1, 1) /\ Copied(m.bcc, g.bcc, k + 1, q)
      BY <1>1, <1>2, <2>1, CopiedOn DEF a
    <2>8. QED
      BY <1>2, <1>8, <2>1, <2>2, <2>4, <2>5, <2>6, <2>7
  <1>12. CASE q =< k /\ k < s - 1
    <2> DEFINE j == k - q + 1
    <2>1. /\ j \in 1 .. c /\ k + 1 = q + j /\ k - q < c /\ a =< k - 1 /\ b =< k - p /\ q =< k
          /\ ~ (k + 1 >= s) /\ ~ (k + 1 > s) /\ ~ (k > s) /\ 1 =< k
      <3>1. j = (k - q) + 1
        OBVIOUS
      <3> HIDE DEF j
      <3>2. QED
        BY <1>1, <1>12, <3>1
    <2> DEFINE x == Append(g.bcc, Full(m.bcc[j]))
    <2>6. Copied(m.bcc, x, k + 1, q)
      BY <1>1, <1>2, <2>1, CopiedMore DEF c
    <2> HIDE DEF j
    <2>2. t.key = "Bcc" /\ Mailbox(t) = Full(m.bcc[j])
      <3>1. t = Token("Bcc", Address(m.bcc[j]), 0)
        BY <1>4, <2>1
      <3>2. t.key = "Bcc"
        BY <3>1 DEF Token
      <3>3. QED
        BY <3>1, <3>2, MailboxIs
    <2>3. f = [g EXCEPT !.bcc = x]
      BY <1>5, <2>2
    <2> HIDE DEF x
    <2>4. Changed(g, f, "bcc") /\ f.bcc = x
      BY <1>0, <2>3 DEF Changed, Shaped
    <2>5. /\ Shaped(f) /\ f.from = g.from /\ f.to = g.to /\ f.cc = g.cc /\ f.replyTo = g.replyTo
          /\ f.parts = g.parts
      BY <2>4 DEF Changed
    <2>7. Copied(m.to, g.to, k + 1, 1) /\ Copied(m.cc, g.cc, k + 1, p)
      BY <1>1, <1>2, <2>1, CopiedOn DEF a, b
    <2>8. QED
      BY <1>2, <1>8, <2>1, <2>2, <2>4, <2>5, <2>6, <2>7
  <1>13. ASSUME k >= s - 1
         PROVE  Copied(m.to, g.to, k + 1, 1) /\ Copied(m.cc, g.cc, k + 1, p) /\ Copied(m.bcc, g.bcc, k + 1, q)
    <2>1. a =< k - 1 /\ b =< k - p /\ c =< k - q
      BY <1>1, <1>13
    <2>2. QED
      BY <1>1, <1>2, <2>1, CopiedOn DEF a, b, c
  <1>14. CASE k = s - 1
    <2>1. k + 1 = s /\ ~ (k + 1 > s) /\ ~ (k > s) /\ k >= s - 1 /\ 1 =< k
      BY <1>1, <1>14
    <2>2. t.key = "Subject" /\ t.text[1] = m.subject
      BY <1>4, <2>1 DEF Token
    <2>3. f = [g EXCEPT !.subject = m.subject]
      BY <1>5, <2>2
    <2>4. Changed(g, f, "subject") /\ f.subject = m.subject
      BY <1>0, <2>3 DEF Changed, Shaped
    <2>5. /\ Shaped(f) /\ f.from = g.from /\ f.to = g.to /\ f.cc = g.cc /\ f.bcc = g.bcc
          /\ f.replyTo = g.replyTo /\ f.parts = g.parts
      BY <2>4 DEF Changed
    <2>6. QED
      BY <1>2, <1>8, <1>13, <2>1, <2>2, <2>4, <2>5
  <1>15. CASE k = s /\ m.replyTo # <<>>
    <2>1. k + 1 = s + 1 /\ k + 1 > s /\ k >= s /\ k >= s - 1 /\ 1 =< k
      BY <1>1, <1>15
    <2>2. t.key = "Reply-To" /\ t.text = m.replyTo
      BY <1>4, <1>15, <2>1 DEF Token
    <2>3. f = [g EXCEPT !.replyTo = m.replyTo]
      BY <1>5, <2>2
    <2>4. Changed(g, f, "replyTo") /\ f.replyTo = m.replyTo
      BY <1>0, <2>3 DEF Changed, Shaped
    <2>5. /\ Shaped(f) /\ f.from = g.from /\ f.to = g.to /\ f.cc = g.cc /\ f.bcc = g.bcc
          /\ f.subject = g.subject /\ f.parts = g.parts
      BY <2>4 DEF Changed
    <2>6. QED
      BY <1>2, <1>8, <1>13, <2>1, <2>2, <2>4, <2>5
  <1>16. CASE (k = s /\ m.replyTo = <<>>) \/ k > s
    <2>1. k + 1 = n
      BY <1>1, <1>3, <1>6, <1>16
    <2>2. k + 1 > s /\ k >= s /\ k >= s - 1 /\ 1 =< k
      BY <1>1, <1>16
    <2>3. t.key = "Mbo"
      BY <1>4, <2>1 DEF Token
    <2>4. f = g
      BY <1>5, <2>3
    <2>5. g.replyTo = m.replyTo
      BY <1>2, <1>16
    <2>6. QED
      BY <1>2, <1>8, <1>13, <2>2, <2>3, <2>4, <2>5
  <1>17. k = 0 \/ (1 =< k /\ k < p) \/ (p =< k /\ k < q) \/ (q =< k /\ k < s - 1) \/ k = s - 1 \/ k = s \/ k > s
    BY <1>1
  <1>18. QED
    BY <1>9, <1>10, <1>11, <1>12, <1>14, <1>15, <1>16, <1>17

(* Nothing has been read yet.                                                *)
LEMMA HeardFirst ==
    ASSUME NEW m \in Mail
    PROVE  Heard(m, Empty, 0)
  <1>1. /\ Shaped(Empty) /\ Empty.to = <<>> /\ Empty.cc = <<>> /\ Empty.bcc = <<>>
        /\ Empty.replyTo = <<>>
    BY DEF Empty, Shaped
  <1>2. ASSUME NEW list, NEW o \in Nat, o >= 1
        PROVE  Copied(list, <<>>, 0, o)
    <2>1. <<>> \in Seq(Fulls(list)) /\ Len(<<>>) = 0 /\ \A i \in 1 .. 0 : FALSE
      BY EmptySeq
    <2>2. Past(0, o, Len(list)) = 0
      BY <1>2 DEF Past
    <2>3. QED
      BY <2>1, <2>2 DEF Copied
  <1>3. /\ CcFrom(m) \in Nat /\ BccFrom(m) \in Nat /\ CcFrom(m) >= 1 /\ BccFrom(m) >= 1
        /\ ~ (0 >= SubjectAt(m)) /\ ~ (0 > SubjectAt(m)) /\ ~ (0 >= 1) /\ 1 \in Nat /\ 1 >= 1
    <2>1. /\ CcFrom(m) \in Nat /\ BccFrom(m) \in Nat /\ SubjectAt(m) \in Nat
          /\ 1 =< CcFrom(m) /\ CcFrom(m) =< BccFrom(m) /\ BccFrom(m) < SubjectAt(m)
      BY MailHas
    <2>2. QED
      BY <2>1
  <1>4. /\ Copied(m.to, <<>>, 0, 1) /\ Copied(m.cc, <<>>, 0, CcFrom(m))
        /\ Copied(m.bcc, <<>>, 0, BccFrom(m))
    BY <1>2, <1>3
  <1>5. QED
    BY <1>1, <1>3, <1>4 DEF Heard

(* Parts are none of the headers.                                            *)
LEMMA HeardParts ==
    ASSUME NEW m, NEW g, NEW f, NEW k, Heard(m, g, k), NEW x, f = [g EXCEPT !.parts = x]
    PROVE  Heard(m, f, k) /\ f.parts = x
  <1>1. Shaped(g)
    BY DEF Heard
  <1>2. Changed(g, f, "parts") /\ f.parts = x
    BY <1>1 DEF Changed, Shaped
  <1>3. QED
    BY <1>2 DEF Heard, Changed

(* What HeadersKept asks for.                                                *)
Arrived(m, g) ==
    /\ g.from = Full(m.from)
    /\ g.to = [i \in 1 .. Len(m.to) |-> Full(m.to[i])]
    /\ g.cc = [i \in 1 .. Len(m.cc) |-> Full(m.cc[i])]
    /\ g.bcc = [i \in 1 .. Len(m.bcc) |-> Full(m.bcc[i])]
    /\ g.replyTo = m.replyTo /\ g.subject = m.subject

(* All header lines have been read.                                          *)
LEMMA HeardAll ==
    ASSUME NEW m \in Mail, NEW g, NEW k, k = MboAt(m), Heard(m, g, k)
    PROVE  Arrived(m, g)
  <1> DEFINE a == Len(m.to)
             b == Len(m.cc)
             c == Len(m.bcc)
             p == CcFrom(m)
             q == BccFrom(m)
             s == SubjectAt(m)
  <1>1. /\ a \in Nat /\ b \in Nat /\ c \in Nat /\ p \in Nat /\ q \in Nat /\ s \in Nat /\ k \in Nat
        /\ p = 1 + a /\ q = p + b /\ s = q + c + 1 /\ s < k
        /\ m.to \in Seq(Word \X Word) /\ m.cc \in Seq(Word \X Word) /\ m.bcc \in Seq(Word \X Word)
    BY MailHas
  <1>2. /\ k >= 1 => g.from = Full(m.from)
        /\ Copied(m.to, g.to, k, 1) /\ Copied(m.cc, g.cc, k, p) /\ Copied(m.bcc, g.bcc, k, q)
        /\ k >= s => g.subject = m.subject
        /\ g.replyTo = IF k > s THEN m.replyTo ELSE <<>>
    BY DEF Heard
  <1> HIDE DEF a, b, c, p, q, s
  <1>3. k >= 1 /\ k >= s /\ k > s /\ 1 =< k /\ p =< k /\ q =< k /\ a =< k - 1 /\ b =< k - p /\ c =< k - q
    BY <1>1
  <1>4. g.to = [i \in 1 .. Len(m.to) |-> Full(m.to[i])]
    BY <1>1, <1>2, <1>3, CopiedAll, ZenonT(60) DEF a
  <1>5. g.cc = [i \in 1 .. Len(m.cc) |-> Full(m.cc[i])]
    BY <1>1, <1>2, <1>3, CopiedAll, ZenonT(60) DEF b
  <1>6. g.bcc = [i \in 1 .. Len(m.bcc) |-> Full(m.bcc[i])]
    BY <1>1, <1>2, <1>3, CopiedAll, ZenonT(60) DEF c
  <1>7. QED
    BY <1>2, <1>3, <1>4, <1>5, <1>6 DEF Arrived

-------------------------------------------------------------------------------
(* wl2mime's way through the lines.                                          *)

(* k lines have been read of the text, and h is left of it.                  *)
Left(lines, tail, h, k) ==
    /\ h \in Seq(Tokens) /\ k \in 0 .. Len(lines)
    /\ \/ RestOf(h, lines \o tail, k, Len(lines \o tail))
       \/ k = Len(lines) /\ h = <<>>

(* A whole line is a token.                                                  *)
LEMMA SecondLine ==
    ASSUME NEW h \in Seq(Tokens), NEW n, n = Len(h), n >= 1, h[1] \in Lines
    PROVE  RestFrom(h, 1) = 2
  <1> DEFINE next == {j \in LineStarts(h) : j > 1}
  <1>1. n \in Nat
    BY LenProperties
  <1>2. RestFrom(h, 1) = IF next = {} THEN n + 1 ELSE CHOOSE j \in next : \A k \in next : j =< k
    BY DEF RestFrom
  <1>3. next \in SUBSET Nat /\ \A j \in next : j \in 1 .. n /\ j > 1
    BY DEF LineStarts
  <1>4. \A j \in next : 2 =< j
    BY <1>1, <1>3
  <1>5. CASE n = 1
    <2>1. next = {}
      BY <1>3, <1>5
    <2>2. QED
      BY <1>2, <1>5, <2>1
  <1>6. CASE n > 1
    <2>1. 2 \in 1 .. n /\ 2 - 1 = 1 /\ 2 > 1 /\ 2 \in Nat
      BY <1>1, <1>6
    <2>2. h[2 - 1].key \notin {"cr", "char", "0xff"}
      BY <2>1 DEF Lines
    <2>3. 2 \in LineStarts(h)
      BY <2>1, <2>2, StartsAt
    <2>4. 2 \in next /\ next # {}
      BY <2>1, <2>3
    <2> HIDE DEF next
    <2>5. 2 = CHOOSE j \in next : \A k \in next : j =< k
      BY <1>3, <1>4, <2>4, FirstIs
    <2>6. QED
      BY <1>2, <2>4, <2>5
  <1>7. QED
    BY <1>1, <1>5, <1>6

(* Nothing has been read yet.                                                *)
LEMMA LeftFirst ==
    ASSUME NEW lines, NEW tail, NEW rest, Layered(lines, tail, rest), NEW h, h = lines \o tail
    PROVE  Left(lines, tail, h, 0)
  <1> DEFINE text == h \o rest
             a == Len(lines)
             b == Len(h)
  <1>1. Layers(lines, rest, h, text, a, b, Len(rest), Len(text))
    BY LayersAre
  <1>2. h \in Seq(Tokens) /\ a \in Nat /\ b \in Nat
    BY <1>1, Zenon DEF Layers
  <1> HIDE DEF a, b
  <1>3. 0 \in 0 .. a /\ b = b - 0 /\ \A i \in 1 .. b - 0 : 0 + i = i
    BY <1>2
  <1>4. RestOf(h, h, 0, b)
    BY <1>3 DEF RestOf, b
  <1>5. QED
    BY <1>2, <1>3, <1>4 DEF Left, a, b

(* Nothing is left when all have been read.                                  *)
LEMMA LeftNone ==
    ASSUME NEW lines, NEW tail, NEW rest, Layered(lines, tail, rest), NEW k,
           Left(lines, tail, <<>>, k)
    PROVE  k = Len(lines)
  <1> DEFINE h == lines \o tail
             text == h \o rest
             a == Len(lines)
             b == Len(h)
  <1>1. Layers(lines, rest, h, text, a, b, Len(rest), Len(text))
    BY LayersAre
  <1>2. a \in Nat /\ b \in Nat /\ a =< b
    BY <1>1, Zenon DEF Layers
  <1>3. k \in 0 .. a /\ (RestOf(<<>>, h, k, b) \/ k = a)
    BY DEF Left
  <1> HIDE DEF a, b
  <1>4. ASSUME RestOf(<<>>, h, k, b)
        PROVE  k = a
    <2>1. b - k = 0
      BY <1>4, EmptySeq DEF RestOf
    <2>2. QED
      BY <1>2, <1>3, <2>1
  <1>5. QED
    BY <1>3, <1>4 DEF a

(* The next line, t, was the k+1-st, or the one that nobody stands for; g is *)
(* left behind it.                                                           *)
Passed(lines, tail, t, g, k) ==
    \/ k < Len(lines) /\ t = lines[k + 1] /\ Left(lines, tail, g, k + 1)
    \/ k = Len(lines) /\ t.key = "char" /\ Left(lines, tail, g, k)

(* So it is when a line is read.                                             *)
LEMMA LeftNext ==
    ASSUME NEW lines, NEW tail, NEW rest, Layered(lines, tail, rest), NEW h, NEW k,
           Left(lines, tail, h, k), h # <<>>, NEW g, g = SubSeq(h, RestFrom(h, 1), Len(h))
    PROVE  Passed(lines, tail, h[1], g, k)
  <1> DEFINE head == lines \o tail
             text == head \o rest
             a == Len(lines)
             b == Len(head)
             n == Len(h)
  <1>1. Layers(lines, rest, head, text, a, b, Len(rest), Len(text))
    BY LayersAre
  <1>2. /\ head \in Seq(Tokens) /\ a \in Nat /\ b \in Nat /\ a =< b
        /\ \A i \in 1 .. a : text[i] = lines[i] /\ text[i] \in Lines
        /\ b = a \/ (b = a + 3 /\ text[a + 1].key = "char" /\ text[a + 2] = CR /\ text[a + 3] = LF)
        /\ \A i \in 1 .. b : text[i] = head[i]
    BY <1>1, Zenon DEF Layers
  <1>3. h \in Seq(Tokens) /\ k \in 0 .. a /\ RestOf(h, head, k, b)
    BY DEF Left
  <1>4. n = b - k /\ \A i \in 1 .. b - k : h[i] = head[k + i]
    BY <1>3 DEF RestOf
  <1>5. n \in Nat /\ n # 0
    BY <1>3, EmptySeq
  <1> HIDE DEF head, text, a, b, n
  <1>6. CASE k < a
    <2>1. 1 \in 1 .. b - k /\ k + 1 \in 1 .. a /\ k + 1 \in 1 .. b /\ n >= 1 /\ k + 1 \in 0 .. a
      BY <1>2, <1>3, <1>4, <1>6
    <2>2. h[1] = lines[k + 1] /\ h[1] \in Lines
      BY <1>2, <1>4, <2>1
    <2>3. RestFrom(h, 1) = 2
      BY <1>3, <2>1, <2>2, SecondLine DEF n
    <2>4. g = SubSeq(h, 1 + 1, n)
      BY <2>3 DEF n
    <2>5. g \in Seq(Tokens) /\ RestOf(g, h, 1, n)
      BY <1>3, <2>1, <2>4, RestIs DEF n
    <2>6. RestOf(g, head, k + 1, b)
      <3>1. n - 1 = b - (k + 1)
        BY <1>2, <1>3, <1>4
      <3>2. \A i \in 1 .. n - 1 : 1 + i \in 1 .. b - k /\ k + (1 + i) = (k + 1) + i
        BY <1>2, <1>3, <1>4
      <3>3. \A i \in 1 .. n - 1 : g[i] = head[(k + 1) + i]
        BY <1>4, <2>5, <3>2 DEF RestOf
      <3>4. QED
        BY <2>5, <3>1, <3>3 DEF RestOf
    <2>7. Left(lines, tail, g, k + 1)
      BY <2>1, <2>5, <2>6 DEF Left, head, a, b
    <2>8. QED
      BY <1>6, <2>2, <2>7 DEF a, Passed
  <1>7. CASE k = a
    <2>1. b = a + 3 /\ n = 3
      BY <1>2, <1>4, <1>5, <1>7
    <2>2. text[a + 1].key = "char" /\ text[a + 2] = CR
      <3>1. b # a
        BY <1>2, <2>1
      <3>2. QED
        BY <1>2, <3>1
    <2>3. 1 \in 1 .. b - k /\ 2 \in 1 .. b - k /\ k + 1 = a + 1 /\ k + 2 = a + 2
          /\ a + 1 \in 1 .. b /\ a + 2 \in 1 .. b
      BY <1>2, <1>7, <2>1
    <2>4. h[1].key = "char" /\ h[2] = CR
      BY <1>2, <1>4, <2>2, <2>3
    <2> DEFINE next == {j \in LineStarts(h) : j > 1}
    <2>5. next = {}
      <3>1. ASSUME NEW j \in LineStarts(h), j > 1
            PROVE  FALSE
        <4>1. j \in 1 .. n /\ h[j - 1].key \notin {"cr", "char", "0xff"}
          BY <3>1, StartsAt DEF n
        <4>2. CASE j = 2
          <5>1. j - 1 = 1
            BY <4>2
          <5>2. QED
            BY <2>4, <4>1, <5>1
        <4>3. CASE j = 3
          <5>1. j - 1 = 2
            BY <4>3
          <5>2. h[2].key = "cr"
            BY <2>4 DEF CR, Token
          <5>3. QED
            BY <4>1, <5>1, <5>2
        <4>4. QED
          BY <2>1, <3>1, <4>1, <4>2, <4>3
      <3>2. QED
        BY <3>1
    <2>6. RestFrom(h, 1) = n + 1
      BY <2>5 DEF RestFrom, n
    <2>7. g = SubSeq(h, 4, 3)
      <3>1. n + 1 = 4
        BY <2>1
      <3>2. g = SubSeq(h, RestFrom(h, 1), n)
        BY DEF n
      <3>3. QED
        BY <2>1, <2>6, <3>1, <3>2
    <2>8. g = <<>>
      BY <2>7, SubSeqEmpty
    <2>9. k \in 0 .. a /\ <<>> \in Seq(Tokens)
      BY <1>3, EmptySeq
    <2>10. Left(lines, tail, g, k)
      BY <1>7, <2>8, <2>9 DEF Left, a
    <2>11. QED
      BY <1>7, <2>4, <2>10 DEF a, Passed
  <1>8. k < a \/ k = a
    BY <1>2, <1>3
  <1>9. QED
    BY <1>6, <1>7, <1>8

(* The parts that are sent: p, the body, and the files fs.                   *)
Sent(p, fs, i) ==
    IF i = 1 THEN Part(NoName, p.content) ELSE Part(NameOf(fs[i - 1]), fs[i - 1].content)
Parts(p, fs) == {Sent(p, fs, i) : i \in 1 .. Len(fs) + 1}

(* The first n of them.                                                      *)
Has(p, fs, parts, n) ==
    parts \in Seq(Parts(p, fs)) /\ Len(parts) = n /\ \A i \in 1 .. n : parts[i] = Sent(p, fs, i)

(* n of them have been read, and bb is left of the text behind the headers.  *)
Read(p, fs, a, off, bb, parts, n) ==
    /\ bb \in Seq(Tokens) /\ n \in 0 .. Len(fs) + 1
    /\ Has(p, fs, parts, n)
    /\ n = 0 => bb = p.content \o a
    /\ n # 0 => RestOf(bb, a, off[n - 1], Len(a))

(* Nothing has been read yet.                                                *)
LEMMA ReadFirst ==
    ASSUME NEW p \in PartType, NEW fs \in Seq(PartType), NEW a \in Seq(Tokens), NEW off,
           NEW bb, bb = p.content \o a
    PROVE  Read(p, fs, a, off, bb, <<>>, 0)
  <1>1. bb \in Seq(Tokens)
    BY PartLines, ConcatProperties
  <1>2. 0 \in 0 .. Len(fs) + 1 /\ \A i \in 1 .. 0 : FALSE
    BY LenProperties
  <1>3. <<>> \in Seq(Parts(p, fs)) /\ Len(<<>>) = 0
    BY EmptySeq
  <1>4. QED
    BY <1>1, <1>2, <1>3 DEF Read, Has

(* What is taken is what lies there.                                         *)
LEMMA TakenIs ==
    ASSUME NEW c \in Seq(Tokens), NEW n, n = Len(c), NEW from \in Nat, NEW l, l = Len(bbuf), l \in Nat,
           from + n =< l, \A i \in 1 .. n : bbuf[from + i] = c[i]
    PROVE  Taken(from, n) = c
  <1>1. n \in Nat /\ c \in [1 .. n -> Tokens]
    BY LenProperties
  <1>2. \A i \in 1 .. n : from + i =< l
    BY <1>1
  <1>3. Taken(from, n) = [i \in 1 .. n |-> IF from + i =< l THEN bbuf[from + i] ELSE EOF]
    BY DEF Taken
  <1>4. [i \in 1 .. n |-> IF from + i =< l THEN bbuf[from + i] ELSE EOF] = [i \in 1 .. n |-> c[i]]
    BY <1>2
  <1>5. c = [i \in 1 .. n |-> c[i]]
    BY <1>1
  <1>6. QED
    BY <1>3, <1>4, <1>5

(* One part more.                                                            *)
LEMMA PartMore ==
    ASSUME NEW p, NEW fs \in Seq(PartType), NEW parts, NEW n, Has(p, fs, parts, n), n =< Len(fs),
           NEW more, more = Append(parts, Sent(p, fs, n + 1))
    PROVE  Has(p, fs, more, n + 1)
  <1> DEFINE P == Parts(p, fs)
             k == Len(fs)
             e == Sent(p, fs, n + 1)
  <1>0. parts \in Seq(P) /\ n = Len(parts) /\ \A i \in 1 .. n : parts[i] = Sent(p, fs, i)
    BY DEF Has
  <1>1. n \in Nat /\ k \in Nat
    BY <1>0, LenProperties
  <1>2. n + 1 \in 1 .. k + 1
    BY <1>1
  <1>3. e \in P
    BY <1>2 DEF Parts
  <1>4. more = Append(parts, e)
    OBVIOUS
  <1> HIDE DEF P, k, e
  <1>5. more \in Seq(P) /\ Longer(more, parts, e, n)
    BY <1>0, <1>3, <1>4, LongerIs
  <1>6. \A i \in 1 .. n + 1 : i = n + 1 \/ i \in 1 .. n
    BY <1>1
  <1>7. \A i \in 1 .. n + 1 : more[i] = Sent(p, fs, i)
    BY <1>0, <1>5, <1>6 DEF Longer, e
  <1>8. QED
    BY <1>5, <1>7 DEF Longer, Has, P

(* The body is read.                                                         *)
LEMMA ReadBody ==
    ASSUME NEW p \in PartType, NEW fs \in Seq(PartType), NEW a, NEW off, Glued(fs, a, off),
           NEW parts, Read(p, fs, a, off, bbuf, parts, 0),
           NEW n, n = Len(p.content), NEW more, more = Append(parts, Part(NoName, Taken(0, n))),
           NEW rest, rest = SubSeq(bbuf, n + 1, Len(bbuf))
    PROVE  Read(p, fs, a, off, rest, more, 1)
  <1> DEFINE l == Len(bbuf)
             k == Len(a)
             c == p.content
  <1>1. bbuf \in Seq(Tokens) /\ Has(p, fs, parts, 0) /\ bbuf = c \o a
    BY DEF Read
  <1>2. c \in Seq(Tokens) /\ n \in Nat /\ a \in Seq(Tokens) /\ off[0] = 0
    BY PartLines DEF Glued
  <1>3. k \in Nat /\ Joined(bbuf, c, a, n, k)
    BY <1>1, <1>2, JoinedIs
  <1> HIDE DEF l, k, c
  <1>4. l = n + k /\ l \in Nat
    BY <1>2, <1>3 DEF Joined, l
  <1>5. Taken(0, n) = c
    <2>1. 0 + n =< l /\ \A i \in 1 .. n : 0 + i = i
      BY <1>2, <1>3, <1>4
    <2>2. \A i \in 1 .. n : bbuf[0 + i] = c[i]
      BY <1>3, <2>1 DEF Joined
    <2>3. n = Len(c) /\ 0 \in Nat
      BY DEF c
    <2>4. QED
      BY <1>2, <1>4, <2>1, <2>2, <2>3, TakenIs DEF l
  <1>6. Part(NoName, Taken(0, n)) = Sent(p, fs, 0 + 1)
    BY <1>5 DEF Sent, c
  <1>7. Has(p, fs, more, 0 + 1)
    <2> DEFINE z == 0
    <2>1. Has(p, fs, parts, z) /\ z =< Len(fs) /\ more = Append(parts, Sent(p, fs, z + 1))
      BY <1>1, <1>6, LenProperties
    <2> HIDE DEF z
    <2>2. Has(p, fs, more, z + 1)
      BY <2>1, PartMore
    <2>3. QED
      BY <2>2 DEF z
  <1>8. rest \in Seq(Tokens) /\ RestOf(rest, bbuf, n, l)
    <2>1. n =< l /\ rest = SubSeq(bbuf, n + 1, l)
      BY <1>2, <1>3, <1>4 DEF l
    <2>2. QED
      BY <1>1, <1>2, <2>1, RestIs DEF l
  <1>9. RestOf(rest, a, 0, k)
    <2>1. l - n = k /\ k - 0 = k /\ \A i \in 1 .. k : 0 + i = i
      BY <1>2, <1>3, <1>4
    <2>2. \A i \in 1 .. k : rest[i] = a[i]
      BY <1>3, <1>8, <2>1 DEF RestOf, Joined
    <2>3. QED
      BY <1>8, <2>1, <2>2 DEF RestOf
  <1>10. 1 \in 0 .. Len(fs) + 1 /\ 1 - 1 = 0 /\ 0 + 1 = 1
    BY LenProperties
  <1>11. QED
    BY <1>2, <1>7, <1>8, <1>9, <1>10 DEF Read, k

(* Of k characters l are left behind the first q; a file of n and its line   *)
(* end fit in, up to the r-th.                                               *)
Fitting(n, q, k, r, l) == l \in Nat /\ 2 + n =< l /\ r = q + (2 + n)

(* So they do if the r-th is one of the k.                                   *)
LEMMA Fits ==
    ASSUME NEW n \in Nat, NEW q \in Nat, NEW k \in Nat, NEW r, NEW l,
           r = q + 2 + n, r =< k, l = k - q
    PROVE  Fitting(n, q, k, r, l)
  BY DEF Fitting

(* A file is read.                                                           *)
LEMMA ReadFile ==
    ASSUME NEW p \in PartType, NEW fs \in Seq(PartType), NEW a, NEW off, Glued(fs, a, off),
           NEW parts, NEW j \in 1 .. Len(fs), Read(p, fs, a, off, bbuf, parts, j),
           NEW n, n = Len(fs[j].content),
           NEW more, more = Append(parts, Part(NameOf(fs[j]), Taken(2, n))),
           NEW rest, rest = SubSeq(bbuf, 2 + n + 1, Len(bbuf))
    PROVE  Read(p, fs, a, off, rest, more, j + 1)
  <1> DEFINE l == Len(bbuf)
             k == Len(a)
             c == fs[j].content
             q == off[j - 1]
             r == off[j]
             N == Len(fs)
  <1>1. fs[j] \in PartType /\ N \in Nat
    BY ElementOfSeq, LenProperties
  <1>2. c \in Seq(Tokens) /\ n \in Nat
    BY <1>1, PartLines
  <1>3. /\ a \in Seq(Tokens) /\ off \in [0 .. N -> Nat]
        /\ r = q + 2 + n /\ r =< k /\ \A i \in 1 .. n : a[q + 2 + i] = c[i]
    BY DEF Glued
  <1>4. j \in Nat /\ j # 0 /\ j - 1 \in 0 .. N /\ j \in 0 .. N /\ j + 1 \in 0 .. N + 1 /\ (j + 1) - 1 = j
        /\ j + 1 # 0 /\ j =< N /\ j + 1 # 1
    BY <1>1
  <1>5. bbuf \in Seq(Tokens) /\ Has(p, fs, parts, j) /\ RestOf(bbuf, a, q, k)
    BY <1>4 DEF Read
  <1>6. q \in Nat /\ r \in Nat /\ k \in Nat
    BY <1>3, <1>4, LenProperties
  <1>7. l = k - q /\ \A i \in 1 .. k - q : bbuf[i] = a[q + i]
    BY <1>5 DEF RestOf
  <1> HIDE DEF l, k, c, q, r, N
  <1>8. l \in Nat /\ 2 + n =< l /\ r = q + (2 + n)
    <2>1. n \in Nat /\ q \in Nat /\ k \in Nat /\ r = q + 2 + n /\ r =< k /\ l = k - q
      BY <1>2, <1>3, <1>6, <1>7
    <2>2. Fitting(n, q, k, r, l)
      BY <2>1, Fits, Zenon
    <2>3. QED
      BY <2>2, Zenon DEF Fitting
  <1>9. Taken(2, n) = c
    <2>1. \A i \in 1 .. n : 2 + i \in 1 .. k - q /\ q + 2 + i = q + (2 + i)
      BY <1>2, <1>6, <1>7, <1>8
    <2>2. \A i \in 1 .. n : bbuf[2 + i] = c[i]
      BY <1>3, <1>7, <2>1
    <2>3. n = Len(c) /\ 2 \in Nat
      BY DEF c
    <2>4. QED
      BY <1>2, <1>8, <2>2, <2>3, TakenIs DEF l
  <1>10. Part(NameOf(fs[j]), Taken(2, n)) = Sent(p, fs, j + 1)
    BY <1>4, <1>9 DEF Sent, c
  <1>11. Has(p, fs, more, j + 1)
    <2>1. j =< Len(fs) /\ more = Append(parts, Sent(p, fs, j + 1))
      BY <1>4, <1>10 DEF N
    <2>2. QED
      BY <1>5, <2>1, PartMore
  <1> DEFINE s == 2 + n
  <1>12. rest \in Seq(Tokens) /\ RestOf(rest, bbuf, s, l)
    <2>1. s =< l /\ s \in Nat /\ rest = SubSeq(bbuf, s + 1, l)
      BY <1>2, <1>8 DEF l
    <2> HIDE DEF s
    <2>2. QED
      BY <1>5, <2>1, RestIs DEF l
  <1>13. RestOf(rest, a, r, k)
    <2>1. s \in Nat /\ r = q + s
      BY <1>2, <1>8
    <2> HIDE DEF s
    <2>2. l - s = k - r /\ \A i \in 1 .. k - r : s + i \in 1 .. k - q /\ q + (s + i) = r + i
      BY <1>6, <1>7, <2>1
    <2>3. \A i \in 1 .. k - r : rest[i] = a[r + i]
      BY <1>7, <1>12, <2>2 DEF RestOf
    <2>4. QED
      BY <1>12, <2>2, <2>3 DEF RestOf
  <1>14. QED
    BY <1>4, <1>11, <1>12, <1>13 DEF Read, k, r, N

-------------------------------------------------------------------------------
(* wl2mime's work on a file.                                                 *)

(* A file that was made of m begins with its headers.                        *)
LEMMA LaidHeads ==
    ASSUME NEW m \in Mail, NEW l, NEW text, NEW lines, NEW tail, NEW rest, NEW b, NEW fs, NEW a, NEW off,
           Laid(m, l, text, lines, tail, rest, b, fs, a, off)
    PROVE  Heads(m, text)
  <1> DEFINE head == lines \o tail
             p == Len(lines)
             q == Len(head)
             r == Len(rest)
             n == Len(text)
             k == MboAt(m)
  <1>1. Layered(lines, tail, rest) /\ text = head \o rest /\ Begins(m, lines)
    BY DEF Laid
  <1>2. Layers(lines, rest, head, text, p, q, r, n)
    BY <1>1, LayersAre
  <1>3. /\ p \in Nat /\ q \in Nat /\ r \in Nat /\ n \in Nat /\ p =< q /\ n = q + r /\ k \in Nat /\ k =< p
        /\ \A i \in 1 .. p : text[i] = lines[i] /\ text[i] \in Lines
    BY <1>1, <1>2, MailHas, Zenon DEF Layers, Begins
  <1> HIDE DEF p, q, r, n, k
  <1>4. p =< n /\ \A i \in 1 .. k : i \in 1 .. p
    BY <1>3
  <1>5. Begins(m, text)
    <2>1. \A i \in 1 .. p : text[i] = lines[i]
      BY <1>3
    <2>2. QED
      BY <1>1, <1>3, <1>4, <2>1, BeginsOn DEF p, n
  <1>6. \A i \in 1 .. k : text[i] \in Lines
    BY <1>3, <1>4
  <1>7. QED
    BY <1>3, <1>5, <1>6 DEF Heads, n, k

(* How many header lines and how many parts there are among k lines.         *)
HeadersIn(m, k) == IF k < MboAt(m) THEN k ELSE MboAt(m)
PartsIn(m, k)   == IF k < MboAt(m) THEN 0 ELSE k - MboAt(m)

(* k lines of the file have been read, h and bb are left of its headers and  *)
(* of what follows them, and g has been made of it.                          *)
Reads(m, l, lines, tail, b, fs, a, off, k, h, bb, g) ==
    /\ Left(lines, tail, h, k) /\ Heard(m, g, HeadersIn(m, k))
    /\ b # 0 => Read(l[b], fs, a, off, bb, g.parts, PartsIn(m, k))

(* What follows a line end.                                                  *)
LEMMA Behind ==
    ASSUME NEW d \in Seq(Tokens), NEW t, t = Crlf \o d
    PROVE  SubSeq(t, 3, Len(t)) = d
  <1> DEFINE n == Len(t)
             k == Len(d)
             r == SubSeq(t, 3, n)
  <1>1. t \in Seq(Tokens) /\ k \in Nat /\ Joined(t, Crlf, d, 2, k)
    BY CrlfIs, JoinedIs
  <1> HIDE DEF k
  <1>2. n = 2 + k
    BY <1>1 DEF Joined
  <1> HIDE DEF n
  <1>3. 2 =< n /\ n - 2 = k /\ 2 \in Nat
    BY <1>1, <1>2
  <1>4. r \in Seq(Tokens) /\ RestOf(r, t, 2, n)
    <2>1. r = SubSeq(t, 2 + 1, n)
      OBVIOUS
    <2> HIDE DEF r
    <2>2. QED
      BY <1>1, <1>3, <2>1, RestIs DEF n
  <1> HIDE DEF r
  <1>5. Len(r) = k /\ \A i \in 1 .. k : r[i] = t[2 + i]
    BY <1>3, <1>4 DEF RestOf
  <1>6. Len(r) = Len(d) /\ \A i \in 1 .. Len(r) : r[i] = d[i]
    BY <1>1, <1>5 DEF Joined, k
  <1>7. r = d
    BY <1>4, <1>6, SeqEqual
  <1>8. QED
    BY <1>7 DEF r, n

(* Receive splits the file.                                                  *)
LEMMA ReadsFirst ==
    ASSUME NEW m \in Mail, NEW l, NEW text, NEW lines, NEW tail, NEW rest, NEW b, NEW fs, NEW a, NEW off,
           Laid(m, l, text, lines, tail, rest, b, fs, a, off),
           NEW h, h = SubSeq(text, 1, HeadEnd(text) - 1),
           NEW bb, bb = SubSeq(text, RestFrom(text, HeadEnd(text)), Len(text))
    PROVE  Reads(m, l, lines, tail, b, fs, a, off, 0, h, bb, Empty)
  <1>1. /\ Layered(lines, tail, rest) /\ text = (lines \o tail) \o rest
        /\ Others(l, b, fs) /\ Glued(fs, a, off)
        /\ b # 0 => rest = Crlf \o (l[b].content \o a)
    BY DEF Laid
  <1>2. h = lines \o tail /\ bb = SubSeq(rest, 3, Len(rest))
    <2> DEFINE head == lines \o tail
    <2>1. head = lines \o tail /\ text = head \o rest
      BY <1>1
    <2> HIDE DEF head
    <2>2. Split(text, head, rest)
      BY <1>1, <2>1, SplitsAt
    <2>3. QED
      BY <2>1, <2>2 DEF Split
  <1>3. Left(lines, tail, h, 0)
    BY <1>1, <1>2, LeftFirst
  <1>4. HeadersIn(m, 0) = 0 /\ PartsIn(m, 0) = 0
    <2>1. MboAt(m) \in Nat /\ SubjectAt(m) \in Nat /\ SubjectAt(m) < MboAt(m)
      BY MailHas
    <2>2. QED
      BY <2>1 DEF HeadersIn, PartsIn
  <1>5. ASSUME b # 0
        PROVE  Read(l[b], fs, a, off, bb, <<>>, 0)
    <2> DEFINE c == l[b].content
    <2>1. l \in Seq(PartType) /\ fs \in Seq(PartType) /\ b \in 0 .. Len(l)
      BY <1>1 DEF Others
    <2>2. b \in 1 .. Len(l)
      BY <1>5, <2>1
    <2>3. l[b] \in PartType
      BY <2>1, <2>2, ElementOfSeq
    <2>4. c \in Seq(Tokens) /\ a \in Seq(Tokens)
      BY <1>1, <2>3, PartLines DEF Glued
    <2>5. c \o a \in Seq(Tokens)
      BY <2>4, ConcatProperties
    <2>6. rest = Crlf \o (c \o a)
      BY <1>1, <1>5
    <2>7. bb = c \o a
      <3> DEFINE d == c \o a
      <3>1. d \in Seq(Tokens) /\ rest = Crlf \o d
        BY <2>5, <2>6
      <3> HIDE DEF d
      <3>2. SubSeq(rest, 3, Len(rest)) = d
        BY <3>1, Behind
      <3>3. QED
        BY <1>2, <3>2 DEF d
    <2>8. QED
      BY <2>1, <2>3, <2>4, <2>7, ReadFirst
  <1>6. Empty.parts = <<>>
    BY DEF Empty
  <1>7. QED
    BY <1>3, <1>4, <1>5, <1>6, HeardFirst DEF Reads

(* What the next line of such a file is, h being left behind it: a header,   *)
(* the body's, a file's, or the one that nobody stands for.                  *)
IsHeader(m, lines, tail, k, t, h, g) ==
    /\ k < MboAt(m) /\ t.key \notin {"Body", "File"} /\ Left(lines, tail, h, k + 1)
    /\ Heard(m, Told(g, t), k + 1) /\ Told(g, t).parts = g.parts
IsBodyLine(m, l, lines, tail, b, k, t, h) ==
    /\ k = MboAt(m) /\ t.key = "Body" /\ Left(lines, tail, h, k + 1)
    /\ b # 0 => t = BodyToken(l[b])
IsFileLine(m, lines, tail, fs, k, t, h) ==
    /\ \E i \in 1 .. Len(fs) : k = MboAt(m) + i /\ t = FileToken(fs[i])
    /\ t.key = "File" /\ Left(lines, tail, h, k + 1)
IsNobody(lines, tail, k, t, h) == t.key = "char" /\ Left(lines, tail, h, k)

(* It is one of these.                                                       *)
LEMMA NextLine ==
    ASSUME NEW m \in Mail, NEW l, NEW text, NEW lines, NEW tail, NEW rest, NEW b, NEW fs, NEW a, NEW off,
           Laid(m, l, text, lines, tail, rest, b, fs, a, off), NEW k,
           Reads(m, l, lines, tail, b, fs, a, off, k, hbuf, bbuf, got), NEW keys, ReadLine(keys)
    PROVE  /\ k \in Nat
           /\ \/ IsHeader(m, lines, tail, k, hbuf[1], hbuf', got)
              \/ IsBodyLine(m, l, lines, tail, b, k, hbuf[1], hbuf')
              \/ IsFileLine(m, lines, tail, fs, k, hbuf[1], hbuf')
              \/ IsNobody(lines, tail, k, hbuf[1], hbuf')
  <1> DEFINE t == hbuf[1]
             n == Len(lines)
             q == MboAt(m)
             N == Len(fs)
  <1>1. /\ Layered(lines, tail, rest) /\ Begins(m, lines) /\ n = q + 1 + N
        /\ lines[q + 1].key = "Body"
        /\ \A i \in 1 .. N : lines[q + 1 + i] = FileToken(fs[i])
        /\ b # 0 => lines[q + 1] = BodyToken(l[b])
        /\ fs \in Seq(PartType)
    BY DEF Laid, Others
  <1>2. n \in Nat /\ q \in Nat /\ N \in Nat
    BY <1>1, MailHas, LenProperties DEF Layered
  <1>3. Left(lines, tail, hbuf, k) /\ Heard(m, got, HeadersIn(m, k))
    BY DEF Reads
  <1>4. k \in 0 .. n
    BY <1>3 DEF Left
  <1>5. hbuf # <<>> /\ hbuf' = SubSeq(hbuf, RestFrom(hbuf, 1), Len(hbuf))
    BY DEF ReadLine
  <1>6. \/ k < n /\ t = lines[k + 1] /\ Left(lines, tail, hbuf', k + 1)
        \/ k = n /\ t.key = "char" /\ Left(lines, tail, hbuf', k)
    <2> DEFINE h == hbuf
               g == hbuf'
    <2>1. /\ Layered(lines, tail, rest) /\ Left(lines, tail, h, k) /\ h # <<>>
          /\ g = SubSeq(h, RestFrom(h, 1), Len(h))
      BY <1>1, <1>3, <1>5
    <2> HIDE DEF h, g, t, n
    <2>2. Passed(lines, tail, h[1], g, k)
      BY <2>1, LeftNext
    <2>3. QED
      BY <2>2 DEF h, g, t, n, Passed
  <1> HIDE DEF t, n, q, N
  <1>7. k \in Nat
    BY <1>2, <1>4
  <1>8. CASE k = n /\ t.key = "char" /\ Left(lines, tail, hbuf', k)
    BY <1>7, <1>8 DEF IsNobody, t
  <1>9. CASE k < n /\ t = lines[k + 1] /\ Left(lines, tail, hbuf', k + 1)
    <2>1. CASE k < q
      <3>1. Heard(m, got, k)
        BY <1>3, <2>1 DEF HeadersIn, q
      <3>2. Heard(m, Told(got, t), k + 1) /\ Told(got, t).parts = got.parts /\ t.key \notin {"Body", "File"}
        <4> DEFINE f == Told(got, t)
        <4>1. k < MboAt(m) /\ t = lines[k + 1] /\ f = Told(got, t)
          BY <1>9, <2>1 DEF q
        <4> HIDE DEF f
        <4>2. Heard(m, f, k + 1) /\ f.parts = got.parts /\ t.key \notin {"Body", "File"}
          BY <1>1, <1>7, <3>1, <4>1, HeardMore
        <4>3. QED
          BY <4>2 DEF f
      <3>3. QED
        BY <1>7, <1>9, <2>1, <3>2 DEF IsHeader, t, q
    <2>2. CASE k = q
      BY <1>1, <1>7, <1>9, <2>2 DEF IsBodyLine, t, q
    <2>3. CASE k > q
      <3> DEFINE i == k - q
      <3>1. i \in 1 .. N /\ k + 1 = q + 1 + i /\ k = q + i
        <4>1. k < n /\ n = q + 1 + N
          BY <1>1, <1>9
        <4>2. QED
          BY <1>2, <1>4, <2>3, <4>1
      <3> HIDE DEF i
      <3>2. t = FileToken(fs[i])
        BY <1>1, <1>9, <3>1
      <3>3. t.key = "File"
        BY <3>2 DEF FileToken, Token
      <3>4. QED
        BY <1>7, <1>9, <3>1, <3>2, <3>3 DEF IsFileLine, t, q, N
    <2>4. QED
      BY <1>2, <1>7, <2>1, <2>2, <2>3
  <1>10. QED
    BY <1>6, <1>8, <1>9

(* What the header lines leave.                                              *)
LEMMA HeaderReads ==
    ASSUME NEW m \in Mail, NEW l, NEW text, NEW lines, NEW tail, NEW rest, NEW b, NEW fs, NEW a, NEW off,
           Laid(m, l, text, lines, tail, rest, b, fs, a, off), NEW k,
           Reads(m, l, lines, tail, b, fs, a, off, k, hbuf, bbuf, got), HeaderLine \/ OtherLine
    PROVE  \E j : Reads(m, l, lines, tail, b, fs, a, off, j, hbuf', bbuf', got')
  <1> DEFINE t == hbuf[1]
             keys == IF HeaderLine THEN {"From", "To", "Cc", "Bcc", "Reply-To", "Subject"}
                     ELSE {"Mbo", "char", "0xff", "cr", "lf"}
  <1>1. ReadLine(keys) /\ bbuf' = bbuf
    BY DEF HeaderLine, OtherLine
  <1>2. hbuf # <<>> /\ Head(hbuf) \in {Head(hbuf)} /\ Head(hbuf).key \in keys /\ hbuf \in Seq(Tokens)
    BY <1>1 DEF ReadLine, Reads, Left
  <1>3. Head(hbuf) = t
    BY <1>2
  <1>4. t.key \in keys
    BY <1>2, <1>3
  <1>5. got' = Told(got, t)
    <2>1. CASE HeaderLine
      <3>1. t.key \in {"From", "To", "Cc", "Bcc", "Reply-To", "Subject"}
        BY <1>4, <2>1
      <3>2. got' = CASE t.key = "From"     -> [got EXCEPT !.from = Mailbox(t)]
                     [] t.key = "To"       -> [got EXCEPT !.to = Append(@, Mailbox(t))]
                     [] t.key = "Cc"       -> [got EXCEPT !.cc = Append(@, Mailbox(t))]
                     [] t.key = "Bcc"      -> [got EXCEPT !.bcc = Append(@, Mailbox(t))]
                     [] t.key = "Reply-To" -> [got EXCEPT !.replyTo = t.text]
                     [] t.key = "Subject"  -> [got EXCEPT !.subject = t.text[1]]
        BY <1>3, <2>1 DEF HeaderLine
      <3> HIDE DEF t
      <3>3. QED
        BY <3>1, <3>2 DEF Told
    <2>2. CASE ~ HeaderLine
      <3>1. t.key \in {"Mbo", "char", "0xff", "cr", "lf"} /\ got' = got
        BY <1>4, <2>2 DEF OtherLine
      <3> HIDE DEF t
      <3>2. QED
        BY <3>1 DEF Told
    <2>3. QED
      BY <2>1, <2>2
  <1>6. t.key \notin {"Body", "File"}
    BY <1>4
  <1> HIDE DEF keys, t
  <1>7. k \in Nat /\ (IsHeader(m, lines, tail, k, t, hbuf', got) \/ IsNobody(lines, tail, k, t, hbuf'))
    BY <1>1, <1>6, NextLine DEF IsBodyLine, IsFileLine, t
  <1>8. CASE IsHeader(m, lines, tail, k, t, hbuf', got)
    <2>1. /\ k < MboAt(m) /\ Left(lines, tail, hbuf', k + 1) /\ Heard(m, got', k + 1)
          /\ got'.parts = got.parts
      BY <1>5, <1>8 DEF IsHeader
    <2>2. MboAt(m) \in Nat
      BY MailHas
    <2>3. HeadersIn(m, k + 1) = k + 1 /\ PartsIn(m, k + 1) = 0 /\ PartsIn(m, k) = 0
      BY <1>7, <2>1, <2>2 DEF HeadersIn, PartsIn
    <2>4. Reads(m, l, lines, tail, b, fs, a, off, k + 1, hbuf', bbuf', got')
      BY <1>1, <2>1, <2>3 DEF Reads
    <2>5. QED
      BY <2>4
  <1>9. CASE IsNobody(lines, tail, k, t, hbuf')
    <2>1. Left(lines, tail, hbuf', k) /\ t.key = "char"
      BY <1>9 DEF IsNobody
    <2>2. got' = got
      BY <1>5, <2>1 DEF Told
    <2>3. Reads(m, l, lines, tail, b, fs, a, off, k, hbuf', bbuf', got')
      BY <1>1, <2>1, <2>2 DEF Reads
    <2>4. QED
      BY <2>3
  <1>10. QED
    BY <1>7, <1>8, <1>9

(* What the line for the body leaves.                                        *)
LEMMA BodyReads ==
    ASSUME NEW m \in Mail, NEW l, NEW text, NEW lines, NEW tail, NEW rest, NEW b, NEW fs, NEW a, NEW off,
           Laid(m, l, text, lines, tail, rest, b, fs, a, off), NEW k,
           Reads(m, l, lines, tail, b, fs, a, off, k, hbuf, bbuf, got), BodyLine
    PROVE  \E j : Reads(m, l, lines, tail, b, fs, a, off, j, hbuf', bbuf', got')
  <1> DEFINE t == hbuf[1]
             n == t.len
             more == Append(got.parts, Part(NoName, Taken(0, n)))
  <1>1. ReadLine({"Body"}) /\ hbuf # <<>> /\ hbuf \in Seq(Tokens) /\ Head(hbuf).key = "Body"
    BY DEF BodyLine, ReadLine, Reads, Left
  <1>2. Head(hbuf) = t
    BY <1>1
  <1>3. t.key = "Body"
    BY <1>1, <1>2
  <1>4. got' = [got EXCEPT !.parts = more]
    BY <1>2 DEF BodyLine
  <1>5. bbuf' = SubSeq(bbuf, n + 1, Len(bbuf))
    BY <1>2 DEF BodyLine
  <1> HIDE DEF t, more
  <1>6. k \in Nat /\ IsBodyLine(m, l, lines, tail, b, k, t, hbuf')
    BY <1>1, <1>3, NextLine DEF IsHeader, IsFileLine, IsNobody, t
  <1>7. k = MboAt(m) /\ Left(lines, tail, hbuf', k + 1) /\ (b # 0 => t = BodyToken(l[b]))
    BY <1>6 DEF IsBodyLine
  <1>8. /\ HeadersIn(m, k) = k /\ HeadersIn(m, k + 1) = k
        /\ PartsIn(m, k) = 0 /\ PartsIn(m, k + 1) = 1
    BY <1>6, <1>7 DEF HeadersIn, PartsIn
  <1>9. Heard(m, got', k) /\ got'.parts = more
    BY <1>4, <1>8, HeardParts DEF Reads
  <1>10. ASSUME b # 0
         PROVE  Read(l[b], fs, a, off, bbuf', more, 1)
    <2> DEFINE p == l[b]
    <2>1. Others(l, b, fs) /\ Glued(fs, a, off)
      BY DEF Laid
    <2>2. l \in Seq(PartType) /\ fs \in Seq(PartType) /\ b \in 1 .. Len(l)
      BY <1>10, <2>1 DEF Others
    <2>3. p \in PartType
      BY <2>2, ElementOfSeq
    <2>4. Read(p, fs, a, off, bbuf, got.parts, 0)
      BY <1>8, <1>10 DEF Reads
    <2>5. n = Len(p.content)
      BY <1>7, <1>10 DEF BodyToken, Token
    <2> HIDE DEF p, n
    <2>6. Read(p, fs, a, off, bbuf', more, 1)
      BY <1>5, <2>1, <2>2, <2>3, <2>4, <2>5, ReadBody DEF more
    <2>7. QED
      BY <2>6 DEF p
  <1>11. Reads(m, l, lines, tail, b, fs, a, off, k + 1, hbuf', bbuf', got')
    BY <1>7, <1>8, <1>9, <1>10 DEF Reads
  <1>12. QED
    BY <1>11

(* What the line for a file leaves.                                          *)
LEMMA FileReads ==
    ASSUME NEW m \in Mail, NEW l, NEW text, NEW lines, NEW tail, NEW rest, NEW b, NEW fs, NEW a, NEW off,
           Laid(m, l, text, lines, tail, rest, b, fs, a, off), NEW k,
           Reads(m, l, lines, tail, b, fs, a, off, k, hbuf, bbuf, got), FileLine
    PROVE  \E j : Reads(m, l, lines, tail, b, fs, a, off, j, hbuf', bbuf', got')
  <1> DEFINE t == hbuf[1]
             n == t.len
             more == Append(got.parts, Part(t.text[1], Taken(2, n)))
  <1>1. ReadLine({"File"}) /\ hbuf # <<>> /\ hbuf \in Seq(Tokens) /\ Head(hbuf).key = "File"
    BY DEF FileLine, ReadLine, Reads, Left
  <1>2. Head(hbuf) = t
    BY <1>1
  <1>3. t.key = "File"
    BY <1>1, <1>2
  <1>4. got' = [got EXCEPT !.parts = more]
    BY <1>2 DEF FileLine
  <1>5. bbuf' = SubSeq(bbuf, 2 + n + 1, Len(bbuf))
    BY <1>2 DEF FileLine
  <1> HIDE DEF t, more
  <1>6. k \in Nat /\ IsFileLine(m, lines, tail, fs, k, t, hbuf')
    BY <1>1, <1>3, NextLine DEF IsHeader, IsBodyLine, IsNobody, t
  <1>7. PICK i \in 1 .. Len(fs) : k = MboAt(m) + i /\ t = FileToken(fs[i])
    BY <1>6 DEF IsFileLine
  <1>8. Left(lines, tail, hbuf', k + 1)
    BY <1>6 DEF IsFileLine
  <1>9. /\ HeadersIn(m, k) = MboAt(m) /\ HeadersIn(m, k + 1) = MboAt(m)
        /\ PartsIn(m, k) = i /\ PartsIn(m, k + 1) = i + 1
    <2>1. MboAt(m) \in Nat /\ i \in Nat /\ k = MboAt(m) + i
      BY <1>7, MailHas
    <2>2. QED
      BY <2>1 DEF HeadersIn, PartsIn
  <1>10. Heard(m, got', MboAt(m)) /\ got'.parts = more
    BY <1>4, <1>9, HeardParts DEF Reads
  <1>11. ASSUME b # 0
         PROVE  Read(l[b], fs, a, off, bbuf', more, i + 1)
    <2> DEFINE p == l[b]
    <2>1. Others(l, b, fs) /\ Glued(fs, a, off)
      BY DEF Laid
    <2>2. l \in Seq(PartType) /\ fs \in Seq(PartType) /\ b \in 1 .. Len(l)
      BY <1>11, <2>1 DEF Others
    <2>3. p \in PartType
      BY <2>2, ElementOfSeq
    <2>4. Read(p, fs, a, off, bbuf, got.parts, i)
      BY <1>9, <1>11 DEF Reads
    <2>5. n = Len(fs[i].content) /\ t.text = <<NameOf(fs[i])>>
      BY <1>7 DEF FileToken, Token
    <2>6. t.text[1] = NameOf(fs[i])
      BY <2>5
    <2> HIDE DEF p, n
    <2>7. more = Append(got.parts, Part(NameOf(fs[i]), Taken(2, n)))
      BY <2>6 DEF more
    <2>8. Read(p, fs, a, off, bbuf', more, i + 1)
      BY <1>5, <1>7, <2>1, <2>2, <2>3, <2>4, <2>5, <2>7, ReadFile
    <2>9. QED
      BY <2>8 DEF p
  <1>12. Reads(m, l, lines, tail, b, fs, a, off, k + 1, hbuf', bbuf', got')
    BY <1>8, <1>9, <1>10, <1>11 DEF Reads
  <1>13. QED
    BY <1>12

(* All has been read.                                                        *)
LEMMA ReadsAll ==
    ASSUME NEW m \in Mail, NEW l, NEW text, NEW lines, NEW tail, NEW rest, NEW b, NEW fs, NEW a, NEW off,
           Laid(m, l, text, lines, tail, rest, b, fs, a, off), NEW k, NEW bb, NEW g,
           Reads(m, l, lines, tail, b, fs, a, off, k, <<>>, bb, g)
    PROVE  Arrived(m, g) /\ (b # 0 => Has(l[b], fs, g.parts, Len(fs) + 1))
  <1> DEFINE q == MboAt(m)
             N == Len(fs)
  <1>1. Layered(lines, tail, rest) /\ Len(lines) = q + 1 + N /\ fs \in Seq(PartType)
    BY DEF Laid, Others
  <1>2. Left(lines, tail, <<>>, k)
    BY DEF Reads
  <1>3. k = q + 1 + N
    BY <1>1, <1>2, LeftNone
  <1>4. q \in Nat /\ N \in Nat
    BY <1>1, MailHas, LenProperties
  <1> HIDE DEF q, N
  <1>5. HeadersIn(m, k) = q /\ PartsIn(m, k) = N + 1
    BY <1>3, <1>4 DEF HeadersIn, PartsIn, q
  <1>6. Heard(m, g, q) /\ (b # 0 => Read(l[b], fs, a, off, bb, g.parts, N + 1))
    BY <1>5 DEF Reads
  <1>7. Arrived(m, g)
    BY <1>6, HeardAll DEF q
  <1>8. QED
    BY <1>6, <1>7 DEF Read, N

(* What PartsKept asks for is what is sent.                                  *)
LEMMA ExpectedIs ==
    ASSUME NEW b, NEW fs, Others(Leaves, b, fs), Bodies # {},
           NEW parts, b # 0 => Has(Leaves[b], fs, parts, Len(fs) + 1)
    PROVE  parts = Expected
  <1> DEFINE l == Leaves
             N == Len(fs)
             p == l[b]
             P == Parts(p, fs)
             F == [i \in 1 .. N |-> Sent(p, fs, i + 1)]
             one == <<Sent(p, fs, 1)>>
             two == one \o F
  <1>1. /\ l \in Seq(PartType) /\ fs \in Seq(PartType) /\ b \in 0 .. Len(l)
        /\ b = 0 => \A i \in 1 .. Len(l) : ~ IsText(l[i])
        /\ b # 0 => /\ IsText(l[b]) /\ \A i \in 1 .. b - 1 : ~ IsText(l[i])
                    /\ Len(l) = N + 1
                    /\ \A i \in 1 .. N : fs[i] = l[IF i < b THEN i ELSE i + 1]
    BY DEF Others
  <1>2. Bodies = {i \in 1 .. Len(l) : IsText(l[i])}
    BY DEF Bodies, IsText
  <1> HIDE DEF l
  <1>3. b # 0
    BY <1>1, <1>2
  <1>4. Len(l) \in Nat /\ N \in Nat
    BY <1>1, LenProperties
  <1>5. b = CHOOSE i \in Bodies : \A j \in Bodies : i =< j
    <2>1. b \in 1 .. Len(l)
      BY <1>1, <1>3, <1>4
    <2>2. b \in Bodies /\ Bodies \in SUBSET Nat
      BY <1>1, <1>2, <1>3, <2>1
    <2>3. ASSUME NEW j \in Bodies PROVE b =< j
      <3>1. j \in 1 .. Len(l) /\ IsText(l[j])
        BY <1>2
      <3>2. j \notin 1 .. b - 1
        BY <1>1, <1>3, <3>1
      <3>3. QED
        BY <1>4, <2>1, <3>1, <3>2
    <2>4. QED
      BY <2>2, <2>3, FirstIs
  <1>6. Len(l) - 1 = N
    BY <1>1, <1>3, <1>4
  <1>7. Expected = two
    <2>1. Expected = <<Part(NoName, l[b].content)>>
                     \o [i \in 1 .. Len(l) - 1 |->
                            Part(NameOf(l[IF i < b THEN i ELSE i + 1]), l[IF i < b THEN i ELSE i + 1].content)]
      BY <1>5 DEF Expected, l
    <2>2. one = <<Part(NoName, l[b].content)>>
      BY DEF Sent
    <2>3. \A i \in 1 .. N : Sent(p, fs, i + 1) =
              Part(NameOf(l[IF i < b THEN i ELSE i + 1]), l[IF i < b THEN i ELSE i + 1].content)
      <3>1. ASSUME NEW i \in 1 .. N PROVE i + 1 # 1 /\ (i + 1) - 1 = i
        BY <1>4
      <3>2. ASSUME NEW i \in 1 .. N PROVE Sent(p, fs, i + 1) = Part(NameOf(fs[i]), fs[i].content)
        BY <3>1 DEF Sent
      <3>3. QED
        BY <1>1, <1>3, <3>2
    <2>4. F = [i \in 1 .. N |->
                  Part(NameOf(l[IF i < b THEN i ELSE i + 1]), l[IF i < b THEN i ELSE i + 1].content)]
      BY <2>3
    <2> HIDE DEF F, one
    <2>5. QED
      BY <1>6, <2>1, <2>2, <2>4
  <1>8. \A i \in 1 .. N + 1 : Sent(p, fs, i) \in P
    BY DEF Parts
  <1>9. one \in Seq(P) /\ Len(one) = 1 /\ one[1] = Sent(p, fs, 1)
    <2>1. 1 \in 1 .. N + 1
      BY <1>4
    <2>2. Sent(p, fs, 1) \in P
      BY <1>8, <2>1
    <2> HIDE DEF P
    <2>3. QED
      BY <2>2
  <1>10. F \in Seq(P) /\ Len(F) = N /\ \A i \in 1 .. N : F[i] = Sent(p, fs, i + 1)
    <2>1. \A i \in 1 .. N : i + 1 \in 1 .. N + 1
      BY <1>4
    <2>2. F \in [1 .. N -> P]
      BY <1>8, <2>1
    <2> HIDE DEF P
    <2>3. F \in Seq(P)
      BY <1>4, <2>2, SeqDef
    <2>4. Len(F) = N
      BY <1>4, <2>2, <2>3, LenProperties
    <2>5. QED
      BY <2>3, <2>4
  <1> HIDE DEF F, one
  <1>11. two \in Seq(P) /\ Joined(two, one, F, 1, N)
    <2> HIDE DEF P
    <2>1. 1 = Len(one) /\ N = Len(F) /\ two = one \o F /\ one \in Seq(P) /\ F \in Seq(P)
      BY <1>9, <1>10
    <2> HIDE DEF two, N
    <2>2. QED
      BY <2>1, JoinedIs
  <1> HIDE DEF two
  <1>12. Len(two) = N + 1 /\ \A i \in 1 .. N + 1 : two[i] = Sent(p, fs, i)
    <2>1. Len(two) = 1 + N /\ 1 + N = N + 1 /\ 1 \in 1 .. 1
      BY <1>4, <1>11 DEF Joined
    <2>2. ASSUME NEW i \in 1 .. N + 1
          PROVE  two[i] = Sent(p, fs, i)
      <3>1. CASE i = 1
        BY <1>9, <1>11, <2>1, <3>1 DEF Joined
      <3>2. CASE i # 1
        <4> DEFINE j == i - 1
        <4>1. j \in 1 .. N /\ 1 + j = i /\ j + 1 = i
          BY <1>4, <3>2
        <4> HIDE DEF j
        <4>2. QED
          BY <1>10, <1>11, <4>1 DEF Joined
      <3>3. QED
        BY <3>1, <3>2
    <2>3. QED
      BY <2>1, <2>2
  <1>13. parts \in Seq(P) /\ Len(parts) = N + 1 /\ \A i \in 1 .. N + 1 : parts[i] = Sent(p, fs, i)
    <2>1. Has(p, fs, parts, N + 1)
      BY <1>3 DEF l
    <2>2. QED
      BY <2>1 DEF Has
  <1> HIDE DEF P, N, p
  <1>14. parts = two
    <2>1. Len(parts) = Len(two) /\ \A i \in 1 .. Len(parts) : parts[i] = two[i]
      BY <1>12, <1>13
    <2>2. QED
      BY <1>11, <1>13, <2>1, SeqEqual
  <1>15. QED
    BY <1>7, <1>14

-------------------------------------------------------------------------------
(* mime2wl's work on a message.                                              *)

(* n parts of m have been visited, t is to be.                               *)
Visited(n, t, m) == n \in 0 .. Len(m.parts) /\ t = SubSeq(m.parts, n + 1, Len(m.parts))

(* The next one.                                                             *)
LEMMA VisitNext ==
    ASSUME NEW m \in Mail, NEW n, NEW t, Visited(n, t, m), t # <<>>
    PROVE  /\ Head(t) \in PartType /\ Visited(n + 1, Tail(t), m)
           /\ Pick(m)[n + 1] = Pick(m)[n] \o (IF Head(t).kind \in Leaf THEN <<Head(t)>> ELSE <<>>)
           /\ Pick(m)[n] \in Seq(PartType)
  <1> DEFINE s == m.parts
             N == Len(s)
             j == n + 1
  <1>1. s \in Seq(PartType) /\ N \in Nat
    BY MailHas, LenProperties DEF PartType
  <1>2. n \in 0 .. N /\ t = SubSeq(s, j, N)
    BY DEF Visited
  <1> HIDE DEF s, N
  <1>3. n # N
    <2>1. ASSUME n = N PROVE t = <<>>
      <3>1. N < j /\ N \in Int /\ j \in Int
        BY <1>1, <2>1
      <3> HIDE DEF j
      <3>2. QED
        BY <1>2, <3>1, SubSeqEmpty
    <2>2. QED
      BY <2>1
  <1>4. j \in 1 .. N /\ N \in j .. N /\ n \in Nat /\ j \in 0 .. N /\ n \in 0 .. N /\ j - 1 = n
    BY <1>1, <1>2, <1>3
  <1>5. Head(t) = s[j] /\ Tail(t) = SubSeq(s, j + 1, N)
    <2> HIDE DEF j
    <2>1. QED
      BY <1>1, <1>2, <1>4, HeadTailOfSubSeq DEF N
  <1>6. s[j] \in PartType
    BY <1>1, <1>4, ElementOfSeq DEF N
  <1>7. Visited(j, Tail(t), m)
    BY <1>4, <1>5 DEF Visited, s, N
  <1>8. Pick(m)[j] = Pick(m)[j - 1] \o Adds(m, j) /\ Pick(m)[n] \in Seq(PartType)
    BY <1>4, PickIs DEF N, s
  <1>9. Adds(m, j) = IF Head(t).kind \in Leaf THEN <<Head(t)>> ELSE <<>>
    BY <1>5 DEF Adds, s
  <1>10. QED
    BY <1>4, <1>5, <1>6, <1>7, <1>8, <1>9

(* None is left.                                                             *)
LEMMA VisitedAll ==
    ASSUME NEW m \in Mail, NEW n, Visited(n, <<>>, m)
    PROVE  n = Len(m.parts)
  <1> DEFINE s == m.parts
             N == Len(s)
             j == n + 1
  <1>1. s \in Seq(PartType) /\ N \in Nat
    BY MailHas, LenProperties DEF PartType
  <1>2. n \in 0 .. N /\ <<>> = SubSeq(s, j, N)
    BY DEF Visited
  <1> HIDE DEF s, N
  <1>3. SUFFICES ASSUME n # N PROVE FALSE
    BY DEF N, s
  <1>4. n \in Nat /\ n =< N /\ <<>> = SubSeq(s, n + 1, N)
    BY <1>1, <1>2
  <1> DEFINE e == SubSeq(s, n + 1, N)
  <1>5. e = <<>>
    BY <1>4
  <1> HIDE DEF e
  <1>6. RestOf(e, s, n, N)
    BY <1>1, <1>4, RestIs DEF e, N
  <1>7. N - n = 0
    BY <1>5, <1>6, EmptySeq DEF RestOf
  <1>8. QED
    BY <1>1, <1>3, <1>4, <1>7

(* Of no leaves nothing is gathered but the headers.                         *)
LEMMA GatheredFirst ==
    ASSUME NEW m \in Mail
    PROVE  \E b, fs, off : Gathered(m, <<>>, b, fs, off, HeaderOf(m), <<>>, <<>>, <<>>)
  <1> DEFINE off == [i \in 0 .. 0 |-> 0]
  <1>1. /\ <<>> \in Seq(PartType) /\ <<>> \in Seq(Tokens) /\ <<>> \in Seq(Lines) /\ Len(<<>>) = 0
        /\ 0 \in 0 .. 0 /\ \A i \in 1 .. 0 : FALSE
    BY EmptySeq
  <1>2. Others(<<>>, 0, <<>>)
    BY <1>1 DEF Others
  <1>3. Filed(<<>>, <<>>)
    BY <1>1 DEF Filed
  <1>4. Glued(<<>>, <<>>, off)
    <2>1. off \in [0 .. 0 -> Nat] /\ off[0] = 0
      OBVIOUS
    <2> HIDE DEF off
    <2>2. QED
      BY <1>1, <2>1 DEF Glued
  <1>5. Gathered(m, <<>>, 0, <<>>, off, HeaderOf(m), <<>>, <<>>, <<>>)
    BY <1>2, <1>3, <1>4 DEF Gathered
  <1>6. QED
    BY <1>5

(* A body, too, begins with a line end.                                      *)
LEMMA NoBody ==
    ASSUME NEW m, NEW l, NEW b, NEW fs, NEW off, NEW h, NEW f, NEW a,
           Gathered(m, l, b, fs, off, h, f, <<>>, a)
    PROVE  b = 0
  <1>1. Others(l, b, fs) /\ <<>> = IF b = 0 THEN <<>> ELSE Crlf \o l[b].content
    BY DEF Gathered
  <1>2. SUFFICES ASSUME b # 0 PROVE FALSE
    OBVIOUS
  <1> DEFINE c == l[b].content
             t == Crlf \o c
             k == Len(c)
  <1>3. l \in Seq(PartType) /\ b \in 1 .. Len(l)
    BY <1>1, <1>2 DEF Others
  <1>4. l[b] \in PartType
    BY <1>3, ElementOfSeq
  <1>5. c \in Seq(Tokens)
    BY <1>4, PartLines
  <1>6. <<>> = t
    BY <1>1, <1>2
  <1> HIDE DEF c
  <1>7. k \in Nat /\ Joined(t, Crlf, c, 2, k)
    BY <1>5, CrlfIs, JoinedIs
  <1> HIDE DEF t
  <1>8. 0 = 2 + k
    BY <1>6, <1>7, EmptySeq DEF Joined
  <1> HIDE DEF k
  <1>9. QED
    BY <1>7, <1>8

(* A body is gathered.                                                       *)
LEMMA GatherBody ==
    ASSUME NEW m, NEW l, NEW b, NEW fs, NEW off, NEW h, NEW f, NEW a,
           Gathered(m, l, b, fs, off, h, f, <<>>, a), NEW p \in PartType, IsText(p),
           NEW k, k = l \o <<p>>
    PROVE  \E j, gs, of : Gathered(m, k, j, gs, of, Append(h, BodyToken(p)), f, Crlf \o p.content, a)
  <1>1. b = 0
    BY NoBody
  <1>2. Others(l, 0, fs) /\ Filed(fs, f) /\ Glued(fs, a, off) /\ h = HeaderOf(m)
    BY <1>1 DEF Gathered
  <1> DEFINE j == Len(l) + 1
  <1>3. Others(k, j, fs) /\ k[j] = p
    BY <1>2, BodyMore
  <1>4. j # 0
    BY <1>2, LenProperties DEF Others
  <1> HIDE DEF j
  <1>5. Gathered(m, k, j, fs, off, Append(h, BodyToken(p)), f, Crlf \o p.content, a)
    BY <1>2, <1>3, <1>4 DEF Gathered
  <1>6. QED
    BY <1>5

(* A file is gathered.                                                       *)
LEMMA GatherFile ==
    ASSUME NEW m, NEW l, NEW b, NEW fs, NEW off, NEW h, NEW f, NEW bb, NEW a,
           Gathered(m, l, b, fs, off, h, f, bb, a), NEW p \in PartType, ~ (IsText(p) /\ bb = <<>>),
           NEW k, k = l \o <<p>>
    PROVE  \E j, gs, of :
              Gathered(m, k, j, gs, of, h, Append(f, FileToken(p)), bb, a \o Crlf \o p.content)
  <1>1. /\ Others(l, b, fs) /\ Filed(fs, f) /\ Glued(fs, a, off)
        /\ h = IF b = 0 THEN HeaderOf(m) ELSE Append(HeaderOf(m), BodyToken(l[b]))
        /\ bb = IF b = 0 THEN <<>> ELSE Crlf \o l[b].content
    BY Zenon DEF Gathered
  <1>2. b = 0 => ~ IsText(p)
    BY <1>1
  <1>3. fs \in Seq(PartType)
    BY <1>1 DEF Others
  <1> DEFINE gs == Append(fs, p)
             c == a \o Crlf \o p.content
             u == Append(f, FileToken(p))
  <1>4. Others(k, b, gs) /\ (b # 0 => k[b] = l[b])
    BY <1>1, <1>2, FileMore, ZenonT(60)
  <1>5. Filed(gs, u)
    BY <1>1, <1>3, FiledMore
  <1>6. PICK of : Glued(gs, c, of)
    BY <1>1, <1>3, GluedMore
  <1> HIDE DEF gs, c, u
  <1>7. Gathered(m, k, b, gs, of, h, u, bb, c)
    BY <1>1, <1>4, <1>5, <1>6 DEF Gathered
  <1>8. QED
    BY <1>7 DEF u, c

-------------------------------------------------------------------------------
(* The life of a mail.                                                       *)

AllLeaves(m) == Pick(m)[Len(m.parts)]

(* Parts have been visited, and the leaves among them gathered.              *)
Visiting ==
    \E n : /\ Visited(n, todo, mail) /\ (pc = "headers" => n = 0)
           /\ pc = "parts" =>
                \E b, fs, off : Gathered(mail, Pick(mail)[n], b, fs, off, hbuf, fbuf, bbuf, abuf)

(* The file was made of the mail; at the other end so is the message that is *)
(* made of it, as far as the file has been read.                             *)
Making ==
    pc \in {"stored", "sent", "lines", "done"} =>
      \E lines, tail, rest, b, fs, a, off :
         /\ Laid(mail, AllLeaves(mail), file, lines, tail, rest, b, fs, a, off)
         /\ pc \in {"lines", "done"} =>
              \E k : Reads(mail, AllLeaves(mail), lines, tail, b, fs, a, off, k, hbuf, bbuf, got)

(* The buffers that are not in use are empty.                                *)
Clean ==
    /\ pc # "parts" => fbuf = <<>> /\ abuf = <<>>
    /\ pc \notin {"parts", "lines"} => hbuf = <<>>
    /\ pc = "headers" => bbuf = <<>>
    /\ pc \notin {"lines", "done"} => got = Empty

Steps == {"headers", "parts", "stored", "kept", "sent", "lines", "done", "crash"}
Known == pc \in Steps /\ mail \in Mails /\ peer \in Calls \cup {""}

(* What is handed over peer to peer has qualified.                           *)
Qualified == pc \in {"sent", "lines", "done"} /\ peer # "" => Qualifies(file, peer)

IInv == Known /\ Clean /\ Visiting /\ Making /\ Qualified

(* At the start nothing has been visited.                                    *)
LEMMA InitInv == Init => IInv
  <1> SUFFICES ASSUME Init PROVE IInv
    OBVIOUS
  <1>1. mail \in Mail
    BY MailsAssumption DEF Init
  <1>2. Known /\ Clean /\ Making /\ Qualified
    BY DEF Init, Known, Clean, Making, Qualified, Steps
  <1>3. Visited(0, todo, mail)
    <2> DEFINE s == mail.parts
               N == Len(s)
    <2>1. s \in Seq(PartType) /\ N \in Nat
      BY <1>1, MailHas, LenProperties DEF PartType
    <2>2. SubSeq(s, 1, N) = s
      BY <2>1, SubSeqFull
    <2>3. 0 \in 0 .. N /\ 0 + 1 = 1
      BY <2>1
    <2>4. QED
      BY <2>2, <2>3 DEF Visited, Init
  <1>4. Visiting
    BY <1>3 DEF Visiting, Init
  <1>5. QED
    BY <1>2, <1>4 DEF IInv

(* What the invariant says of the mail.                                      *)
LEMMA IsMail == Known => mail \in Mail
  BY MailsAssumption DEF Known

(* Writing the headers.                                                      *)
LEMMA HeadersInv == IInv /\ Headers => IInv'
  <1> SUFFICES ASSUME IInv, Headers PROVE IInv'
    OBVIOUS
  <1>1. mail \in Mail /\ pc = "headers" /\ Known /\ Clean /\ Visiting
    BY IsMail DEF IInv, Headers
  <1>2. /\ pc' \in {"parts", "crash"} /\ UNCHANGED <<mail, todo, fbuf, bbuf, abuf, file, title, peer, got>>
        /\ pc' = "parts" => hbuf' = HeaderOf(mail)
        /\ pc' = "crash" => hbuf' = <<>>
    BY DEF Headers, HeaderOf
  <1>3. fbuf = <<>> /\ abuf = <<>> /\ bbuf = <<>> /\ got = Empty
    BY <1>1 DEF Clean
  <1>4. Known' /\ Clean' /\ Making' /\ Qualified'
    BY <1>1, <1>2, <1>3 DEF Known, Clean, Making, Qualified, Steps
  <1>5. Visited(0, todo, mail)
    BY <1>1 DEF Visiting
  <1>6. \E b, fs, off : Gathered(mail, Pick(mail)[0], b, fs, off, HeaderOf(mail), <<>>, <<>>, <<>>)
    BY <1>1, PickIs, GatheredFirst
  <1>7. Visiting'
    BY <1>2, <1>3, <1>5, <1>6 DEF Visiting
  <1>8. QED
    BY <1>4, <1>7 DEF IInv

(* Visiting a part.                                                          *)
LEMMA PartInv == IInv /\ (SkipPart \/ BodyPart \/ AttachmentPart) => IInv'
  <1> SUFFICES ASSUME IInv, SkipPart \/ BodyPart \/ AttachmentPart PROVE IInv'
    OBVIOUS
  <1>1. mail \in Mail /\ Known /\ Clean /\ Visiting
    BY IsMail DEF IInv
  <1> DEFINE p == Head(todo)
  <1>2. /\ pc = "parts" /\ todo # <<>> /\ todo' = Tail(todo)
        /\ UNCHANGED <<pc, mail, file, title, peer, got>>
    BY DEF SkipPart, BodyPart, AttachmentPart, Visit, NextPart
  <1>3. \/ p.kind \notin Leaf /\ UNCHANGED <<hbuf, fbuf, bbuf, abuf>>
        \/ /\ p.kind \in Leaf /\ IsText(p) /\ bbuf = <<>>
           /\ hbuf' = Append(hbuf, BodyToken(p)) /\ bbuf' = Crlf \o p.content /\ UNCHANGED <<fbuf, abuf>>
        \/ /\ p.kind \in Leaf /\ ~ (IsText(p) /\ bbuf = <<>>)
           /\ fbuf' = Append(fbuf, FileToken(p)) /\ abuf' = abuf \o Crlf \o p.content
           /\ UNCHANGED <<hbuf, bbuf>>
    <2>1. CASE SkipPart
      BY <2>1 DEF SkipPart, NextPart
    <2>2. CASE BodyPart
      BY <2>2 DEF BodyPart, NextPart, IsBody, IsText, BodyToken
    <2>3. CASE AttachmentPart
      BY <2>3 DEF AttachmentPart, NextPart, IsBody, IsText, FileToken
    <2>4. QED
      BY <2>1, <2>2, <2>3
  <1>4. Known' /\ Clean' /\ Making' /\ Qualified'
    BY <1>1, <1>2 DEF Known, Clean, Making, Qualified, Steps
  <1>5. PICK n : /\ Visited(n, todo, mail)
                 /\ \E b, fs, off : Gathered(mail, Pick(mail)[n], b, fs, off, hbuf, fbuf, bbuf, abuf)
    BY <1>1, <1>2 DEF Visiting
  <1>6. PICK b, fs, off : Gathered(mail, Pick(mail)[n], b, fs, off, hbuf, fbuf, bbuf, abuf)
    BY <1>5
  <1> DEFINE l == Pick(mail)[n]
             k == Pick(mail)[n + 1]
  <1>7. /\ p \in PartType /\ Visited(n + 1, todo', mail) /\ l \in Seq(PartType)
        /\ k = l \o (IF p.kind \in Leaf THEN <<p>> ELSE <<>>)
    BY <1>1, <1>2, <1>5, VisitNext
  <1>8. Gathered(mail, l, b, fs, off, hbuf, fbuf, bbuf, abuf)
    BY <1>6
  <1> HIDE DEF p, l, k
  <1>9. \E j, gs, of : Gathered(mail, k, j, gs, of, hbuf', fbuf', bbuf', abuf')
    <2>1. CASE p.kind \notin Leaf
      <3>1. k = l
        BY <1>7, <2>1, ConcatEmptySeq
      <3>2. QED
        BY <1>3, <1>8, <2>1, <3>1
    <2>2. CASE p.kind \in Leaf /\ IsText(p) /\ bbuf = <<>>
      <3>1. k = l \o <<p>>
        BY <1>7, <2>2
      <3>2. Gathered(mail, l, b, fs, off, hbuf, fbuf, <<>>, abuf)
        BY <1>8, <2>2
      <3>3. \E j, gs, of :
               Gathered(mail, k, j, gs, of, Append(hbuf, BodyToken(p)), fbuf, Crlf \o p.content, abuf)
        BY <1>7, <2>2, <3>1, <3>2, GatherBody
      <3>4. QED
        BY <1>3, <2>2, <3>3
    <2>3. CASE p.kind \in Leaf /\ ~ (IsText(p) /\ bbuf = <<>>)
      <3>1. k = l \o <<p>>
        BY <1>7, <2>3
      <3>2. \E j, gs, of :
               Gathered(mail, k, j, gs, of, hbuf, Append(fbuf, FileToken(p)), bbuf,
                        abuf \o Crlf \o p.content)
        BY <1>7, <1>8, <2>3, <3>1, GatherFile
      <3>3. QED
        BY <1>3, <2>3, <3>2
    <2>4. QED
      BY <2>1, <2>2, <2>3
  <1>10. Visiting'
    BY <1>2, <1>7, <1>9 DEF Visiting, k
  <1>11. QED
    BY <1>4, <1>10 DEF IInv

(* The text is put together.                                                 *)
LEMMA LayoutInv == IInv /\ Layout => IInv'
  <1> SUFFICES ASSUME IInv, Layout PROVE IInv'
    OBVIOUS
  <1>1. mail \in Mail /\ Known /\ Clean /\ Visiting
    BY IsMail DEF IInv
  <1>2. /\ pc = "parts" /\ todo = <<>> /\ pc' = "stored"
        /\ file' = Written(hbuf, fbuf, bbuf, abuf)
        /\ hbuf' = <<>> /\ fbuf' = <<>> /\ bbuf' = <<>> /\ abuf' = <<>>
        /\ UNCHANGED <<mail, todo, title, peer, got>>
    BY DEF Layout, Written
  <1>3. Known' /\ Clean' /\ Qualified'
    BY <1>1, <1>2 DEF Known, Clean, Qualified, Steps
  <1>4. PICK n : /\ Visited(n, todo, mail)
                 /\ \E b, fs, off : Gathered(mail, Pick(mail)[n], b, fs, off, hbuf, fbuf, bbuf, abuf)
    BY <1>1, <1>2 DEF Visiting
  <1>5. Visited(n, todo', mail') /\ Visited(n, <<>>, mail)
    BY <1>2, <1>4
  <1>6. Visiting'
    BY <1>2, <1>5 DEF Visiting
  <1>7. n = Len(mail.parts)
    BY <1>1, <1>5, VisitedAll
  <1>8. PICK b, fs, off : Gathered(mail, AllLeaves(mail), b, fs, off, hbuf, fbuf, bbuf, abuf)
    BY <1>4, <1>7 DEF AllLeaves
  <1>9. \E lines, tail, rest :
           Laid(mail, AllLeaves(mail), file', lines, tail, rest, b, fs, abuf, off)
    BY <1>1, <1>2, <1>8, LaysOut
  <1>10. Making'
    BY <1>2, <1>9 DEF Making
  <1>11. QED
    BY <1>3, <1>6, <1>10 DEF IInv

(* Proposing the file.                                                       *)
LEMMA ProposeInv == ASSUME NEW call \in Calls \cup {""}, IInv, Propose(call) PROVE IInv'
  <1>1. Known /\ Clean /\ Visiting /\ Making
    BY DEF IInv
  <1>2. /\ pc = "stored" /\ peer' = call /\ pc' \in {"sent", "kept", "crash"}
        /\ pc' = "sent" => call = "" \/ Qualifies(file, call)
        /\ UNCHANGED <<mail, todo, hbuf, fbuf, bbuf, abuf, file, got>>
    BY DEF Propose
  <1>3. Known' /\ Clean' /\ Visiting'
    BY <1>1, <1>2 DEF Known, Clean, Visiting, Steps
  <1>4. Making'
    BY <1>1, <1>2 DEF Making
  <1>5. Qualified'
    BY <1>2 DEF Qualified, Qualifies, LinesOf, LineStarts
  <1>6. QED
    BY <1>3, <1>4, <1>5 DEF IInv

(* Taking the headers off.                                                   *)
LEMMA ReceiveInv == IInv /\ Receive => IInv'
  <1> SUFFICES ASSUME IInv, Receive PROVE IInv'
    OBVIOUS
  <1>1. mail \in Mail /\ Known /\ Clean /\ Visiting /\ Making /\ Qualified
    BY IsMail DEF IInv
  <1>2. /\ pc = "sent" /\ pc' = "lines"
        /\ hbuf' = SubSeq(file, 1, HeadEnd(file) - 1)
        /\ bbuf' = SubSeq(file, RestFrom(file, HeadEnd(file)), Len(file))
        /\ UNCHANGED <<mail, todo, fbuf, abuf, file, title, peer, got>>
    BY DEF Receive
  <1>3. got' = Empty
    BY <1>1, <1>2 DEF Clean
  <1>4. Known' /\ Clean' /\ Visiting'
    BY <1>1, <1>2 DEF Known, Clean, Visiting, Steps
  <1>5. Qualified'
    BY <1>1, <1>2 DEF Qualified, Qualifies, LinesOf, LineStarts
  <1>6. PICK lines, tail, rest, b, fs, a, off :
           Laid(mail, AllLeaves(mail), file, lines, tail, rest, b, fs, a, off)
    BY <1>1, <1>2 DEF Making
  <1>7. Reads(mail, AllLeaves(mail), lines, tail, b, fs, a, off, 0, hbuf', bbuf', got')
    BY <1>1, <1>2, <1>3, <1>6, ReadsFirst
  <1>8. Making'
    BY <1>2, <1>6, <1>7 DEF Making
  <1>9. QED
    BY <1>4, <1>5, <1>8 DEF IInv

(* Reading a line of them.                                                   *)
LEMMA LinesInv == IInv /\ (HeaderLine \/ OtherLine \/ BodyLine \/ FileLine) => IInv'
  <1> SUFFICES ASSUME IInv, HeaderLine \/ OtherLine \/ BodyLine \/ FileLine PROVE IInv'
    OBVIOUS
  <1>1. mail \in Mail /\ Known /\ Clean /\ Visiting /\ Making /\ Qualified
    BY IsMail DEF IInv
  <1>2. pc = "lines" /\ UNCHANGED <<pc, mail, todo, fbuf, abuf, file, title, peer>>
    BY DEF HeaderLine, OtherLine, BodyLine, FileLine, ReadLine
  <1>3. Known' /\ Clean' /\ Visiting'
    BY <1>1, <1>2 DEF Known, Clean, Visiting, Steps
  <1>4. Qualified'
    BY <1>1, <1>2 DEF Qualified, Qualifies, LinesOf, LineStarts
  <1>5. PICK lines, tail, rest, b, fs, a, off :
           /\ Laid(mail, AllLeaves(mail), file, lines, tail, rest, b, fs, a, off)
           /\ \E k : Reads(mail, AllLeaves(mail), lines, tail, b, fs, a, off, k, hbuf, bbuf, got)
    BY <1>1, <1>2 DEF Making
  <1>6. PICK k : Reads(mail, AllLeaves(mail), lines, tail, b, fs, a, off, k, hbuf, bbuf, got)
    BY <1>5
  <1>7. Laid(mail, AllLeaves(mail), file, lines, tail, rest, b, fs, a, off)
    BY <1>5
  <1>8. \E j : Reads(mail, AllLeaves(mail), lines, tail, b, fs, a, off, j, hbuf', bbuf', got')
    <2>1. CASE HeaderLine \/ OtherLine
      BY <1>1, <1>6, <1>7, <2>1, HeaderReads
    <2>2. CASE BodyLine
      BY <1>1, <1>6, <1>7, <2>2, BodyReads
    <2>3. CASE FileLine
      BY <1>1, <1>6, <1>7, <2>3, FileReads
    <2>4. QED
      BY <2>1, <2>2, <2>3
  <1>9. Making'
    BY <1>2, <1>7, <1>8 DEF Making
  <1>10. QED
    BY <1>3, <1>4, <1>9 DEF IInv

(* The last one is read; or nothing happens.                                 *)
LEMMA DeliverInv == IInv /\ (Deliver \/ UNCHANGED vars) => IInv'
  <1> SUFFICES ASSUME IInv, Deliver \/ UNCHANGED vars PROVE IInv'
    OBVIOUS
  <1>1. Known /\ Clean /\ Visiting /\ Making /\ Qualified
    BY DEF IInv
  <1>2. /\ pc' = pc \/ (pc = "lines" /\ pc' = "done" /\ hbuf = <<>>)
        /\ UNCHANGED <<mail, todo, hbuf, fbuf, bbuf, abuf, file, title, peer, got>>
    BY DEF Deliver, vars
  <1>3. Known' /\ Clean' /\ Visiting'
    BY <1>1, <1>2 DEF Known, Clean, Visiting, Steps
  <1>4. Making'
    BY <1>1, <1>2 DEF Making
  <1>5. Qualified'
    BY <1>1, <1>2 DEF Qualified, Qualifies, LinesOf, LineStarts
  <1>6. QED
    BY <1>3, <1>4, <1>5 DEF IInv

(* The inductive invariant holds throughout.                                 *)
THEOREM Invariance == Spec => []IInv
  <1>1. Init => IInv
    BY InitInv
  <1>2. IInv /\ [Next]_vars => IInv'
    <2> SUFFICES ASSUME IInv, [Next]_vars PROVE IInv'
      OBVIOUS
    <2>1. CASE Headers
      BY <2>1, HeadersInv
    <2>2. CASE SkipPart \/ BodyPart \/ AttachmentPart
      BY <2>2, PartInv
    <2>3. CASE Layout
      BY <2>3, LayoutInv
    <2>4. ASSUME NEW call \in Calls \cup {""}, Propose(call) PROVE IInv'
      BY <2>4, ProposeInv
    <2>5. CASE Receive
      BY <2>5, ReceiveInv
    <2>6. CASE HeaderLine \/ OtherLine \/ BodyLine \/ FileLine
      BY <2>6, LinesInv
    <2>7. CASE Deliver \/ UNCHANGED vars
      BY <2>7, DeliverInv
    <2>8. QED
      BY <2>1, <2>2, <2>3, <2>4, <2>5, <2>6, <2>7 DEF Next
  <1>3. QED
    BY <1>1, <1>2, PTL DEF Spec

-------------------------------------------------------------------------------
(* What follows from it.                                                     *)

(* Type correctness.                                                         *)
THEOREM TypeCorrect == Spec => []TypeOK
  <1>1. ASSUME IInv PROVE TypeOK
    <2>1. mail \in Mail /\ Known /\ Clean /\ Visiting
      BY <1>1, IsMail DEF IInv
    <2>2. PICK n : Visited(n, todo, mail)
      BY <2>1 DEF Visiting
    <2>3. todo = SubSeq(mail.parts, Len(mail.parts) - Len(todo) + 1, Len(mail.parts))
      <3> DEFINE s == mail.parts
                 N == Len(s)
                 k == Len(todo)
      <3>1. s \in Seq(PartType) /\ N \in Nat
        BY <2>1, MailHas, LenProperties DEF PartType
      <3>2. n \in 0 .. N /\ todo = SubSeq(s, n + 1, N)
        BY <2>2 DEF Visited
      <3> HIDE DEF s
      <3>3. N = Len(s)
        OBVIOUS
      <3> HIDE DEF N
      <3>4. n \in Nat /\ n =< N
        BY <3>1, <3>2
      <3>5. RestOf(todo, s, n, N)
        BY <3>1, <3>2, <3>3, <3>4, RestIs
      <3>6. k = N - n
        BY <3>5 DEF RestOf
      <3> HIDE DEF k
      <3>7. N - k + 1 = n + 1
        BY <3>1, <3>4, <3>6
      <3>8. todo = SubSeq(s, N - k + 1, N)
        BY <3>2, <3>7
      <3>9. QED
        BY <3>8 DEF s, N, k
    <2>4. QED
      BY <2>1, <2>3 DEF TypeOK, Known, Clean, Steps
  <1>2. QED
    BY <1>1, Invariance, PTL

(* What a station gets peer to peer has no Cc: and is to it alone, but for   *)
(* the addresses whose '@' is not seen (p2p_qualify).                        *)
THEOREM PeerToPeerAlone == Spec => []PeerAlone
  <1>1. ASSUME IInv, pc \in {"sent", "lines", "done"}, peer # ""
        PROVE  Alone(mail, peer)
    <2>1. mail \in Mail /\ Making /\ Qualifies(file, peer)
      BY <1>1, IsMail DEF IInv, Qualified
    <2>2. PICK lines, tail, rest, b, fs, a, off :
             Laid(mail, AllLeaves(mail), file, lines, tail, rest, b, fs, a, off)
      BY <1>1, <2>1 DEF Making
    <2>3. Heads(mail, file)
      BY <2>1, <2>2, LaidHeads
    <2>4. QED
      BY <2>1, <2>3, QualifiesFor
  <1>2. IInv => PeerAlone
    BY <1>1 DEF PeerAlone, Alone
  <1>3. QED
    BY <1>2, Invariance, PTL

(* All lines of the headers have been read.                                  *)
LEMMA AllRead ==
    ASSUME IInv, pc = "done"
    PROVE  \E b, fs : /\ Others(Leaves, b, fs) /\ Arrived(mail, got)
                      /\ b # 0 => Has(Leaves[b], fs, got.parts, Len(fs) + 1)
  <1>1. mail \in Mail /\ Making /\ hbuf = <<>>
    BY IsMail DEF IInv, Clean
  <1>2. PICK lines, tail, rest, b, fs, a, off :
           /\ Laid(mail, AllLeaves(mail), file, lines, tail, rest, b, fs, a, off)
           /\ \E k : Reads(mail, AllLeaves(mail), lines, tail, b, fs, a, off, k, hbuf, bbuf, got)
    BY <1>1 DEF Making
  <1>3. PICK k : Reads(mail, AllLeaves(mail), lines, tail, b, fs, a, off, k, <<>>, bbuf, got)
    BY <1>1, <1>2
  <1>4. AllLeaves(mail) = Leaves
    BY LeavesAre DEF AllLeaves
  <1>5. Laid(mail, Leaves, file, lines, tail, rest, b, fs, a, off)
    BY <1>2, <1>4
  <1>6. Reads(mail, Leaves, lines, tail, b, fs, a, off, k, <<>>, bbuf, got)
    BY <1>3, <1>4
  <1>7. Others(Leaves, b, fs)
    BY <1>5 DEF Laid
  <1>8. Arrived(mail, got) /\ (b # 0 => Has(Leaves[b], fs, got.parts, Len(fs) + 1))
    BY <1>1, <1>5, <1>6, ReadsAll
  <1>9. QED
    BY <1>7, <1>8

(* Who sent it, to whom, and what about, arrives; no line of a body is taken *)
(* for a header.                                                             *)
THEOREM HeadersHeard == Spec => []HeadersKept
  <1>1. ASSUME IInv, pc = "done" PROVE Arrived(mail, got)
    BY <1>1, AllRead
  <1>2. IInv => HeadersKept
    BY <1>1 DEF HeadersKept, Arrived, Full
  <1>3. QED
    BY <1>2, Invariance, PTL

(* The body and every other part arrive as they were, whatever they hold.    *)
THEOREM PartsHeard == Spec => []PartsKept
  <1>1. ASSUME IInv, pc = "done", Bodies # {} PROVE got.parts = Expected
    <2>1. PICK b, fs : /\ Others(Leaves, b, fs)
                       /\ b # 0 => Has(Leaves[b], fs, got.parts, Len(fs) + 1)
      BY <1>1, AllRead
    <2>2. QED
      BY <1>1, <2>1, ExpectedIs
  <1>2. IInv => PartsKept
    BY <1>1 DEF PartsKept
  <1>3. QED
    BY <1>2, Invariance, PTL
===============================================================================
