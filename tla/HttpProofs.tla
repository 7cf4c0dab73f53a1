------------------------------- MODULE HttpProofs -------------------------------
(***************************************************************************)
(* One connection of the web server, for any number of requests, header    *)
(* lines and tokens and bodies of any length: while segments end where the  *)
(* parser can take it, every answer is to the request in its place, with    *)
(* the headers and the body it was sent with.  First what a request looks   *)
(* like on the wire and what the header scanner makes of it, then the pieces *)
(* a call reads, then the inductive invariant: where in a request the        *)
(* connection is.                                                           *)
(***************************************************************************)
EXTENDS HttpRequest, WellFoundedInduction, SequenceTheorems, TLAPS

-----------------------------------------------------------------------------
(* Induction, for sets of numbers.                                          *)

\* A set of numbers that is not empty has a least one.
LEMMA Least ==
    ASSUME NEW T, T \subseteq Nat, T # {}
    PROVE  \E n \in T : \A m \in T : n <= m
  <1>1. PICK n \in T : \A m \in T : ~(<<m, n>> \in OpToRel(<, Nat))
    BY WFMin, NatLessThanWellFounded
  <1>2. \A m \in T : ~(m < n)
    BY <1>1 DEF OpToRel
  <1> QED
    BY <1>2

\* A set of numbers that has 0 and every successor has them all.
LEMMA Induction ==
    ASSUME NEW T, 0 \in T, \A n \in Nat : n \in T => n + 1 \in T
    PROVE  Nat \subseteq T
  <1> SUFFICES ASSUME Nat \ T # {} PROVE FALSE
    OBVIOUS
  <1>1. PICK n \in Nat \ T : \A m \in Nat \ T : n <= m
    BY Least
  <1>2. n # 0 /\ n - 1 \in Nat /\ n - 1 \in T
    BY <1>1
  <1> QED
    BY <1>1, <1>2

-----------------------------------------------------------------------------
(* The scanner, one character at a time.                                    *)

Resumed ==
    [h |-> h_state, headers |-> headers, begin |-> 1, error |-> FALSE,
     stop |-> FALSE, key |-> 0, keyEnd |-> 0, value |-> 0, valueEnd |-> 0]
Turn(buf, i, s) == IF s.error \/ s.stop THEN s ELSE Step(buf, i, s)

\* g is what the scanner makes of the first k characters of buf.
Runs(g, buf, k) ==
    g = [i \in 0..k |-> IF i = 0 THEN Resumed ELSE Turn(buf, i, g[i - 1])]

LEMMA RunExists ==
    ASSUME NEW buf
    PROVE  \A k \in Nat : \E g : Runs(g, buf, k)
  <1> DEFINE T == {k \in Nat : \E g : Runs(g, buf, k)}
  <1>1. 0 \in T
    <2>1. Runs([i \in 0..0 |-> Resumed], buf, 0)
      BY DEF Runs
    <2> QED
      BY <2>1
  <1>2. ASSUME NEW k \in Nat, k \in T PROVE k + 1 \in T
    <2>1. PICK g : Runs(g, buf, k)
      BY <1>2
    <2> DEFINE h == [i \in 0..(k + 1) |->
                        IF i = k + 1 THEN Turn(buf, k + 1, g[k]) ELSE g[i]]
    <2>2. Runs(h, buf, k + 1)
      BY <2>1 DEF Runs
    <2> QED
      BY <2>2
  <1> HIDE DEF T
  <1>3. Nat \subseteq T
    BY <1>1, <1>2, Induction
  <1> QED
    BY <1>3 DEF T

LEMMA RunsAgree ==
    ASSUME NEW buf, NEW k \in Nat, NEW m \in Nat, k <= m,
           NEW g, Runs(g, buf, k), NEW h, Runs(h, buf, m)
    PROVE  \A i \in 0..k : g[i] = h[i]
  <1> DEFINE T == {i \in Nat : i <= k => g[i] = h[i]}
  <1>1. 0 \in T
    BY DEF Runs
  <1>2. ASSUME NEW i \in Nat, i \in T PROVE i + 1 \in T
    <2> SUFFICES ASSUME i + 1 <= k PROVE g[i + 1] = h[i + 1]
      OBVIOUS
    <2>1. g[i] = h[i]
      BY <1>2
    <2>2. i + 1 \in 0..k /\ i + 1 \in 0..m /\ i + 1 # 0 /\ (i + 1) - 1 = i
      OBVIOUS
    <2>3. g[i + 1] = Turn(buf, i + 1, g[i])
      BY <2>2 DEF Runs
    <2>4. h[i + 1] = Turn(buf, i + 1, h[i])
      BY <2>2 DEF Runs
    <2> QED
      BY <2>1, <2>3, <2>4
  <1> HIDE DEF T
  <1>3. Nat \subseteq T
    BY <1>1, <1>2, Induction
  <1> QED
    BY <1>3 DEF T

\* So the recursive definition is what it says.
LEMMA ScannedIs ==
    ASSUME NEW buf \in Seq(Token)
    PROVE  /\ Scanned[buf][0] = Resumed
           /\ \A i \in Nat : Scanned[buf][i + 1] = Turn(buf, i + 1, Scanned[buf][i])
  <1> DEFINE H(b, i) == CHOOSE g : Runs(g, b, i)
             F == [b \in Seq(Token) |-> [i \in Nat |-> H(b, i)[i]]]
  <1>1. \A b, i : i \in Nat => Runs(H(b, i), b, i)
    BY RunExists
  <1> HIDE DEF H
  <1>2. ASSUME NEW b \in Seq(Token), NEW i \in Nat
        PROVE  F[b][i] = IF i = 0 THEN Resumed ELSE Turn(b, i, F[b][i - 1])
    <2>1. CASE i = 0
      <3>1. F[b][0] = H(b, 0)[0]
        OBVIOUS
      <3>2. H(b, 0)[0] = Resumed
        BY <1>1 DEF Runs
      <3> QED
        BY <2>1, <3>1, <3>2
    <2>2. CASE i # 0
      <3>1. i - 1 \in Nat /\ i - 1 <= i /\ i - 1 \in 0..(i - 1)
        BY <2>2
      <3>2. Runs(H(b, i), b, i) /\ Runs(H(b, i - 1), b, i - 1)
        BY <1>1, <3>1
      <3>3. H(b, i)[i] = Turn(b, i, H(b, i)[i - 1])
        BY <3>2, <2>2 DEF Runs
      <3>4. H(b, i - 1)[i - 1] = H(b, i)[i - 1]
        BY <3>1, <3>2, RunsAgree
      <3>5. F[b][i] = H(b, i)[i] /\ F[b][i - 1] = H(b, i - 1)[i - 1]
        BY <3>1
      <3> QED
        BY <2>2, <3>3, <3>4, <3>5
    <2> QED
      BY <2>1, <2>2
  <1> HIDE DEF F
  <1>3. F = [b \in Seq(Token) |-> [i \in Nat |->
                IF i = 0 THEN Resumed ELSE Turn(b, i, F[b][i - 1])]]
    <2>1. F = [b \in Seq(Token) |-> [i \in Nat |-> F[b][i]]]
      BY DEF F
    <2> QED
      BY <2>1, <1>2
  <1>4. Scanned = [b \in Seq(Token) |-> [i \in Nat |->
                IF i = 0 THEN Resumed ELSE Turn(b, i, Scanned[b][i - 1])]]
    BY <1>3 DEF Scanned, Resumed, Turn
  <1>5. ASSUME NEW i \in Nat PROVE (i + 1) \in Nat /\ i + 1 # 0 /\ (i + 1) - 1 = i
    OBVIOUS
  <1> QED
    BY <1>4, <1>5

-----------------------------------------------------------------------------
(* What a request looks like on the wire.                                   *)

\* What is put together keeps its places.
Join(s, t, u) ==
    /\ u \in Seq(Token) /\ Len(u) = Len(s) + Len(t)
    /\ \A i \in 1..Len(s) : u[i] = s[i]
    /\ \A i \in 1..Len(t) : u[Len(s) + i] = t[i]

LEMMA Joined ==
    ASSUME NEW s \in Seq(Token), NEW t \in Seq(Token)
    PROVE  Join(s, t, s \o t)
  <1> DEFINE m == Len(s)
             n == Len(t)
             u == s \o t
  <1>1. /\ u \in Seq(Token) /\ Len(u) = m + n /\ m \in Nat /\ n \in Nat
        /\ \A i \in 1..(m + n) : u[i] = IF i <= m THEN s[i] ELSE t[i - m]
    BY ConcatProperties
  <1> HIDE DEF m, n, u
  <1>2. \A i \in 1..n : m + i \in 1..(m + n) /\ ~(m + i <= m) /\ (m + i) - m = i
    BY <1>1
  <1>3. \A i \in 1..m : i \in 1..(m + n) /\ i <= m
    BY <1>1
  <1>4. /\ \A i \in 1..m : u[i] = s[i]
        /\ \A i \in 1..n : u[m + i] = t[i]
    BY <1>1, <1>2, <1>3
  <1> QED
    BY <1>1, <1>4 DEF m, n, u, Join

Fields(r) == Len(r.fields)
LineLen(r) == 6 * Fields(r)

LEMMA FieldIs ==
    ASSUME NEW f \in Token \X Token, {"CR", "LF", ":", "SP"} \subseteq Token
    PROVE  /\ Field(f) \in Seq(Token) /\ Len(Field(f)) = 6
           /\ Field(f)[1] = f[1] /\ Field(f)[2] = ":" /\ Field(f)[3] = "SP"
           /\ Field(f)[4] = f[2] /\ Field(f)[5] = "CR" /\ Field(f)[6] = "LF"
  <1>1. f[1] \in Token /\ f[2] \in Token
    OBVIOUS
  <1> DEFINE a == f[1]
             b == f[2]
  <1>2. Field(f) = <<a, ":", "SP", b, "CR", "LF">>
    BY DEF Field
  <1>3. a \in Token /\ b \in Token
    BY <1>1
  <1> HIDE DEF a, b
  <1>4. <<a, ":", "SP", b, "CR", "LF">> \in Seq(Token)
    BY <1>3
  <1>5. Field(f)[1] = a /\ Field(f)[4] = b
    BY <1>2
  <1> QED
    BY <1>2, <1>4, <1>5 DEF a, b

LEMMA FieldLinesAre ==
    ASSUME NEW r, Wellformed(r)
    PROVE  /\ FieldLines(r) \in Seq(Token) /\ Len(FieldLines(r)) = LineLen(r)
           /\ Fields(r) \in Nat /\ Fields(r) > 0
           /\ \A j \in 1..Fields(r) : \A o \in 1..6 :
                 FieldLines(r)[6 * (j - 1) + o] = Field(r.fields[j])[o]
  <1>1. Fields(r) \in Nat /\ Fields(r) > 0 /\ \A j \in 1..Fields(r) : r.fields[j] \in Token \X Token
    <2>1. r.fields \in Seq(Token \X Token) /\ r.fields # <<>>
      BY DEF Wellformed
    <2> QED
      BY <2>1 DEF Fields
  <1>2. \A j \in 1..Fields(r) : \A o \in 1..6 : Field(r.fields[j])[o] \in Token
    <2> SUFFICES ASSUME NEW j \in 1..Fields(r), NEW o \in 1..6
                 PROVE  Field(r.fields[j])[o] \in Token
      OBVIOUS
    <2> DEFINE F == Field(r.fields[j])
    <2>1. F \in Seq(Token) /\ Len(F) = 6
      BY <1>1, FieldIs, HttpAssumption DEF Separators
    <2> HIDE DEF F
    <2>2. F[o] \in Token
      BY <2>1, ElementOfSeq
    <2> QED
      BY <2>2 DEF F
  <1>3. ASSUME NEW p \in 1..LineLen(r)
        PROVE  ((p - 1) \div 6) + 1 \in 1..Fields(r) /\ ((p - 1) % 6) + 1 \in 1..6
    BY <1>1 DEF LineLen
  <1>4. FieldLines(r) = [p \in 1..LineLen(r) |->
            Field(r.fields[((p - 1) \div 6) + 1])[((p - 1) % 6) + 1]]
    BY DEF FieldLines, LineLen, Fields
  <1>5. FieldLines(r) \in [1..LineLen(r) -> Token]
    BY <1>2, <1>3, <1>4
  <1>6. ASSUME NEW j \in 1..Fields(r), NEW o \in 1..6
        PROVE  FieldLines(r)[6 * (j - 1) + o] = Field(r.fields[j])[o]
    <2> DEFINE p == 6 * (j - 1) + o
    <2>1. p \in 1..LineLen(r) /\ (p - 1) \div 6 = j - 1 /\ (p - 1) % 6 = o - 1
      BY <1>1 DEF LineLen
    <2> HIDE DEF p
    <2>2. ((p - 1) \div 6) + 1 = j /\ ((p - 1) % 6) + 1 = o
      BY <2>1
    <2>3. FieldLines(r)[p] = Field(r.fields[j])[o]
      BY <1>4, <2>1, <2>2
    <2> QED
      BY <2>3 DEF p
  <1>7. LineLen(r) \in Nat
    BY <1>1 DEF LineLen
  <1> QED
    BY <1>1, <1>5, <1>6, <1>7

HeadLen(r) == LineLen(r) + 5

\* The request, token by token
Spelt(r, w) ==
    /\ w \in Seq(Token) /\ Len(w) = HeadLen(r) + Len(r.body)
    /\ w[1] = r.line /\ w[2] = "CR" /\ w[3] = "LF"
    /\ \A j \in 1..Fields(r) :
          /\ w[6 * j - 2] = r.fields[j][1] /\ w[6 * j - 1] = ":" /\ w[6 * j] = "SP"
          /\ w[6 * j + 1] = r.fields[j][2] /\ w[6 * j + 2] = "CR" /\ w[6 * j + 3] = "LF"
    /\ w[HeadLen(r) - 1] = "CR" /\ w[HeadLen(r)] = "LF"
    /\ \A m \in 1..Len(r.body) : w[HeadLen(r) + m] = r.body[m]

LEMMA WireSpelt ==
    ASSUME NEW r, Wellformed(r)
    PROVE  /\ Spelt(r, Wire(r))
           /\ Len(LineText(r)) = 3 /\ Len(HeadText(r)) = HeadLen(r)
           /\ HeadLen(r) \in Nat /\ HeadLen(r) > 10
  <1>1. /\ r.line \in Token /\ r.body \in Seq(Token)
        /\ {"CR", "LF", ":", "SP"} \subseteq Token
    BY HttpAssumption DEF Wellformed, Separators
  <1>2. LineText(r) \in Seq(Token) /\ Len(LineText(r)) = 3
        /\ LineText(r)[1] = r.line /\ LineText(r)[2] = "CR" /\ LineText(r)[3] = "LF"
    BY <1>1 DEF LineText
  <1> DEFINE fs == FieldLines(r)
             ends == <<"CR", "LF">>
             h1 == LineText(r) \o fs
  <1>3. ends \in Seq(Token) /\ Len(ends) = 2 /\ ends[1] = "CR" /\ ends[2] = "LF"
    BY <1>1
  <1>4. /\ fs \in Seq(Token) /\ Len(fs) = LineLen(r)
        /\ Fields(r) \in Nat /\ Fields(r) > 0
        /\ \A j \in 1..Fields(r) : \A o \in 1..6 : fs[6 * (j - 1) + o] = Field(r.fields[j])[o]
    BY FieldLinesAre
  <1>5. LineLen(r) \in Nat /\ LineLen(r) > 5 /\ HeadLen(r) = LineLen(r) + 5
    BY <1>4 DEF LineLen, HeadLen
  <1>6. Wire(r) = (h1 \o ends) \o r.body /\ HeadText(r) = h1 \o ends
    BY DEF Wire, HeadText
  <1> HIDE DEF fs, ends
  <1>7. h1 \in Seq(Token) /\ Len(h1) = 3 + LineLen(r)
        /\ (\A i \in 1..3 : h1[i] = LineText(r)[i])
        /\ (\A i \in 1..LineLen(r) : h1[3 + i] = fs[i])
    <2> DEFINE l == LineText(r)
    <2>1. /\ l \in Seq(Token) /\ fs \in Seq(Token) /\ 3 \in Nat /\ LineLen(r) \in Nat
          /\ Len(l) = 3 /\ Len(fs) = LineLen(r)
      BY <1>2, <1>4, <1>5
    <2>2. h1 = l \o fs
      OBVIOUS
    <2> HIDE DEF l, h1
    <2>3. Join(l, fs, h1)
      BY <2>1, <2>2, Joined
    <2> QED
      BY <2>1, <2>3 DEF Join, l
  <1> HIDE DEF h1
  <1> DEFINE h2 == h1 \o ends
  <1>8. h2 \in Seq(Token) /\ Len(h2) = HeadLen(r)
        /\ (\A i \in 1..(3 + LineLen(r)) : h2[i] = h1[i])
        /\ h2[3 + LineLen(r) + 1] = "CR" /\ h2[3 + LineLen(r) + 2] = "LF"
    <2> DEFINE m == 3 + LineLen(r)
    <2>1. /\ m \in Nat /\ 2 \in Nat /\ m + 2 = HeadLen(r)
          /\ h1 \in Seq(Token) /\ ends \in Seq(Token) /\ Len(h1) = m /\ Len(ends) = 2
      BY <1>3, <1>5, <1>7
    <2>a. h2 = h1 \o ends
      OBVIOUS
    <2> HIDE DEF m, h2
    <2>2. /\ h2 \in Seq(Token) /\ Len(h2) = m + 2
          /\ \A i \in 1..m : h2[i] = h1[i]
          /\ \A i \in 1..2 : h2[m + i] = ends[i]
      <3>1. Join(h1, ends, h2)
        BY <2>1, <2>a, Joined
      <3> QED
        BY <2>1, <3>1 DEF Join
    <2>3. h2[m + 1] = "CR" /\ h2[m + 2] = "LF"
      <3>1. 1 \in 1..2 /\ 2 \in 1..2
        OBVIOUS
      <3> QED
        BY <1>3, <2>2, <3>1, Zenon
    <2> QED
      BY <2>1, <2>2, <2>3 DEF m
  <1> HIDE DEF h2
  <1>9. Wire(r) \in Seq(Token) /\ Len(Wire(r)) = HeadLen(r) + Len(r.body)
        /\ (\A i \in 1..HeadLen(r) : Wire(r)[i] = h2[i])
        /\ (\A m \in 1..Len(r.body) : Wire(r)[HeadLen(r) + m] = r.body[m])
    <2>1. HeadLen(r) \in Nat /\ Len(r.body) \in Nat
      BY <1>1, <1>5
    <2>2. Wire(r) = h2 \o r.body
      BY <1>6 DEF h2
    <2>3. Join(h2, r.body, Wire(r))
      BY <1>1, <1>8, <2>2, Joined
    <2> QED
      BY <1>8, <2>1, <2>3 DEF Join
  <1>10. Wire(r)[1] = r.line /\ Wire(r)[2] = "CR" /\ Wire(r)[3] = "LF"
    <2>1. /\ 1 \in 1..3 /\ 2 \in 1..3 /\ 3 \in 1..3
          /\ 1 \in 1..(3 + LineLen(r)) /\ 2 \in 1..(3 + LineLen(r)) /\ 3 \in 1..(3 + LineLen(r))
          /\ 1 \in 1..HeadLen(r) /\ 2 \in 1..HeadLen(r) /\ 3 \in 1..HeadLen(r)
      BY ONLY <1>5
    <2>2. /\ Wire(r)[1] = h2[1] /\ Wire(r)[2] = h2[2] /\ Wire(r)[3] = h2[3]
      BY ONLY <1>9, <2>1, Zenon
    <2>3. h2[1] = h1[1] /\ h2[2] = h1[2] /\ h2[3] = h1[3]
      BY ONLY <1>8, <2>1, Zenon
    <2>4. h1[1] = r.line /\ h1[2] = "CR" /\ h1[3] = "LF"
      BY ONLY <1>2, <1>7, <2>1, Zenon
    <2> QED
      BY <2>2, <2>3, <2>4
  <1>11. Wire(r)[HeadLen(r) - 1] = "CR" /\ Wire(r)[HeadLen(r)] = "LF"
    BY <1>5, <1>8, <1>9, SMTT(40)
  <1>12. ASSUME NEW j \in 1..Fields(r), NEW o \in 1..6
         PROVE  Wire(r)[6 * j - 3 + o] = Field(r.fields[j])[o]
    <2>1. /\ 6 * (j - 1) + o \in 1..LineLen(r)
          /\ 3 + (6 * (j - 1) + o) = 6 * j - 3 + o
          /\ 6 * j - 3 + o \in 1..(3 + LineLen(r)) /\ 6 * j - 3 + o \in 1..HeadLen(r)
      BY <1>4, <1>5, SMTT(40) DEF LineLen
    <2>2. h1[6 * j - 3 + o] = fs[6 * (j - 1) + o]
      BY <1>7, <2>1
    <2> QED
      BY <1>4, <1>8, <1>9, <2>1, <2>2
  <1>13. ASSUME NEW j \in 1..Fields(r)
         PROVE  /\ Wire(r)[6 * j - 2] = r.fields[j][1] /\ Wire(r)[6 * j - 1] = ":"
                /\ Wire(r)[6 * j] = "SP" /\ Wire(r)[6 * j + 1] = r.fields[j][2]
                /\ Wire(r)[6 * j + 2] = "CR" /\ Wire(r)[6 * j + 3] = "LF"
    <2>1. r.fields[j] \in Token \X Token
      <3>1. r.fields \in Seq(Token \X Token) /\ j \in 1..Len(r.fields)
        BY DEF Wellformed, Fields
      <3> QED
        BY <3>1, ElementOfSeq
    <2>2. /\ 1 \in 1..6 /\ 2 \in 1..6 /\ 3 \in 1..6 /\ 4 \in 1..6 /\ 5 \in 1..6 /\ 6 \in 1..6
          /\ 6 * j - 3 + 1 = 6 * j - 2 /\ 6 * j - 3 + 2 = 6 * j - 1 /\ 6 * j - 3 + 3 = 6 * j
          /\ 6 * j - 3 + 4 = 6 * j + 1 /\ 6 * j - 3 + 5 = 6 * j + 2 /\ 6 * j - 3 + 6 = 6 * j + 3
      OBVIOUS
    <2> DEFINE F == Field(r.fields[j])
               w == Wire(r)
    <2>3. F[1] = r.fields[j][1] /\ F[2] = ":" /\ F[3] = "SP"
          /\ F[4] = r.fields[j][2] /\ F[5] = "CR" /\ F[6] = "LF"
      BY <1>1, <2>1, FieldIs
    <2>4. \A o \in 1..6 : w[6 * j - 3 + o] = F[o]
      BY <1>12
    <2> HIDE DEF F, w
    <2>5. /\ w[6 * j - 2] = r.fields[j][1] /\ w[6 * j - 1] = ":"
          /\ w[6 * j] = "SP" /\ w[6 * j + 1] = r.fields[j][2]
          /\ w[6 * j + 2] = "CR" /\ w[6 * j + 3] = "LF"
      BY <2>2, <2>3, <2>4
    <2> QED
      BY <2>5 DEF w
  <1>14. Spelt(r, Wire(r))
    BY <1>9, <1>10, <1>11, <1>13 DEF Spelt
  <1>15. Len(HeadText(r)) = HeadLen(r) /\ HeadLen(r) \in Nat /\ HeadLen(r) > 10
    BY <1>5, <1>6, <1>8 DEF h2
  <1> QED
    BY <1>2, <1>14, <1>15

-----------------------------------------------------------------------------
(* The scanner on well-formed header lines.                                 *)

ScanFields == {"h", "headers", "begin", "error", "stop", "key", "keyEnd", "value", "valueEnd"}

\* The scanner goes on, in state h with the map made so far
Goes(s, h, map) ==
    /\ DOMAIN s = ScanFields /\ s.h = h /\ s.headers = map
    /\ s.error = FALSE /\ s.stop = FALSE

LEMMA OneField ==
    ASSUME NEW buf, NEW p \in Nat, NEW nm, NEW v, nm \notin {"CR", "LF"},
           buf[p + 1] = nm, buf[p + 2] = ":", buf[p + 3] = "SP",
           buf[p + 4] = v, buf[p + 5] = "CR", buf[p + 6] = "LF",
           NEW s0, NEW s1, NEW s2, NEW s3, NEW s4, NEW s5, NEW s6, NEW map,
           Goes(s0, "start", map) \/ Goes(s0, "lf", map),
           s1 = Turn(buf, p + 1, s0), s2 = Turn(buf, p + 2, s1), s3 = Turn(buf, p + 3, s2),
           s4 = Turn(buf, p + 4, s3), s5 = Turn(buf, p + 5, s4), s6 = Turn(buf, p + 6, s5)
    PROVE  /\ Goes(s6, "lf", Put(map, Text(buf, p + 1, p + 2), Text(buf, p + 4, p + 5)))
           /\ s6.begin = p + 6
  <1>1. Goes(s1, "key", map) /\ s1.key = p + 1
    <2>1. s1 = Step(buf, p + 1, s0)
      BY DEF Goes, Turn
    <2>2. \/ s1 = [[s0 EXCEPT !.h = "key"] EXCEPT !.key = p + 1, !.begin = p + 1]
          \/ s1 = [[s0 EXCEPT !.h = "key"] EXCEPT !.key = p + 1]
      BY <2>1 DEF Goes, Step
    <2> QED
      BY <2>2 DEF Goes, ScanFields
  <1>2. Goes(s2, "colon", map) /\ s2.key = p + 1 /\ s2.keyEnd = p + 2
    <2>1. s2 = Step(buf, p + 2, s1)
      BY <1>1 DEF Goes, Turn
    <2>2. Step(buf, p + 2, s1) = [[s1 EXCEPT !.h = "colon"] EXCEPT !.keyEnd = p + 2]
      BY <1>1 DEF Goes, Step
    <2> QED
      BY ONLY <1>1, <2>1, <2>2 DEF Goes, ScanFields
  <1>3. Goes(s3, "spaces", map) /\ s3.key = p + 1 /\ s3.keyEnd = p + 2
    <2>1. s3 = Step(buf, p + 3, s2)
      BY <1>2 DEF Goes, Turn
    <2>2. Step(buf, p + 3, s2) = [s2 EXCEPT !.h = "spaces"]
      BY <1>2 DEF Goes, Step
    <2> QED
      BY <1>2, <2>1, <2>2 DEF Goes, ScanFields
  <1>4. Goes(s4, "value", map) /\ s4.key = p + 1 /\ s4.keyEnd = p + 2 /\ s4.value = p + 4
    <2>1. s4 = Step(buf, p + 4, s3)
      BY <1>3 DEF Goes, Turn
    <2>2. Step(buf, p + 4, s3) = [[s3 EXCEPT !.h = "value"] EXCEPT !.value = p + 4]
      BY <1>3 DEF Goes, Step
    <2> QED
      BY ONLY <1>3, <2>1, <2>2 DEF Goes, ScanFields
  <1>5. Goes(s5, "cr", map) /\ s5.key = p + 1 /\ s5.keyEnd = p + 2 /\ s5.value = p + 4
        /\ s5.valueEnd = p + 5
    <2>1. s5 = Step(buf, p + 5, s4)
      BY <1>4 DEF Goes, Turn
    <2>2. Step(buf, p + 5, s4) = [[s4 EXCEPT !.h = "cr"] EXCEPT !.valueEnd = p + 5]
      BY <1>4 DEF Goes, Step
    <2> QED
      BY ONLY <1>4, <2>1, <2>2 DEF Goes, ScanFields
  <1>6. Goes(s6, "lf", Put(map, Text(buf, p + 1, p + 2), Text(buf, p + 4, p + 5)))
        /\ s6.begin = p + 6
    <2> DEFINE a == Text(buf, p + 1, p + 2)
               b == Text(buf, p + 4, p + 5)
    <2>1. s6 = Step(buf, p + 6, s5)
      BY <1>5 DEF Goes, Turn
    <2>2. Step(buf, p + 6, s5) = [[s5 EXCEPT !.h = "lf"] EXCEPT !.begin = p + 6, !.headers = Put(@, a, b)]
      BY <1>5 DEF Goes, Step
    <2> HIDE DEF a, b
    <2>3. s5.headers = map
      BY <1>5 DEF Goes
    <2> DEFINE t == [s5 EXCEPT !.h = "lf"]
               more == Put(map, a, b)
    <2>4. t.headers = map
      BY ONLY <1>5 DEF Goes, ScanFields
    <2>5. s6 = [t EXCEPT !.begin = p + 6, !.headers = more]
      BY <2>1, <2>2, <2>4
    <2>6. /\ DOMAIN t = ScanFields /\ t.h = "lf" /\ t.error = FALSE /\ t.stop = FALSE
      BY ONLY <1>5 DEF Goes, ScanFields
    <2> HIDE DEF t, more
    <2>7. Goes(s6, "lf", more) /\ s6.begin = p + 6
      BY ONLY <2>5, <2>6 DEF Goes, ScanFields
    <2> QED
      BY <2>7 DEF a, b, more
  <1> QED
    BY <1>6

LEMMA MapGrows ==
    ASSUME NEW r, NEW j \in Nat
    PROVE  MapOf(r, j + 1) = Put(MapOf(r, j), <<r.fields[j + 1][1]>>, <<r.fields[j + 1][2]>>)
  <1> DEFINE name(i) == <<r.fields[i][1]>>
             last(n, k, i) == name(i) = k /\ \A m \in (i + 1)..n : name(m) # k
             at(n, k) == CHOOSE i \in 1..n : last(n, k, i)
             names(n) == {name(i) : i \in 1..n}
             k1 == name(j + 1)
  <1>1. names(j + 1) = names(j) \cup {k1}
    <2>1. \A i : i \in 1..(j + 1) <=> i \in 1..j \/ i = j + 1
      OBVIOUS
    <2> HIDE DEF name
    <2> QED
      BY <2>1
  <1>2. at(j + 1, k1) = j + 1
    <2>1. j + 1 \in 1..(j + 1) /\ last(j + 1, k1, j + 1)
      OBVIOUS
    <2>2. ASSUME NEW i \in 1..(j + 1), last(j + 1, k1, i) PROVE i = j + 1
      <3>1. i < j + 1 => j + 1 \in (i + 1)..(j + 1)
        OBVIOUS
      <3> HIDE DEF name
      <3> QED
        BY <2>2, <3>1
    <2> HIDE DEF last, k1
    <2> QED
      BY <2>1, <2>2
  <1>3. ASSUME NEW k, k # k1 PROVE at(j + 1, k) = at(j, k)
    <2>1. \A i : (i \in 1..(j + 1) /\ last(j + 1, k, i)) <=> (i \in 1..j /\ last(j, k, i))
      <3> SUFFICES ASSUME NEW i
                   PROVE  (i \in 1..(j + 1) /\ last(j + 1, k, i)) <=> (i \in 1..j /\ last(j, k, i))
        OBVIOUS
      <3>1. i \in 1..(j + 1) <=> i \in 1..j \/ i = j + 1
        OBVIOUS
      <3>2. i \in 1..j => \A m : m \in (i + 1)..(j + 1) <=> m \in (i + 1)..j \/ m = j + 1
        OBVIOUS
      <3>3. name(j + 1) # k
        BY <1>3
      <3>4. i \in 1..j => (last(j + 1, k, i) <=> last(j, k, i))
        <4> HIDE DEF name
        <4> QED
          BY <3>2, <3>3
      <3>5. ~last(j + 1, k, j + 1)
        BY <3>3
      <3> HIDE DEF last
      <3> QED
        BY <3>1, <3>4, <3>5
    <2> HIDE DEF last
    <2> QED
      BY <2>1
  <1> DEFINE value(n, k) == <<r.fields[at(n, k)][2]>>
  <1>4. value(j + 1, k1) = <<r.fields[j + 1][2]>>
    BY <1>2
  <1>5. \A k : k # k1 => value(j + 1, k) = value(j, k)
    BY <1>3
  <1>6. /\ MapOf(r, j + 1) = [k \in names(j + 1) |-> value(j + 1, k)]
        /\ MapOf(r, j) = [k \in names(j) |-> value(j, k)]
    BY DEF MapOf
  <1>7. k1 = <<r.fields[j + 1][1]>>
    OBVIOUS
  <1> HIDE DEF names, value, k1
  <1>8. DOMAIN MapOf(r, j) = names(j) /\ \A k \in names(j) : MapOf(r, j)[k] = value(j, k)
    BY <1>6
  <1>9. Put(MapOf(r, j), k1, value(j + 1, k1)) =
            [k \in names(j + 1) |-> IF k = k1 THEN value(j + 1, k1) ELSE MapOf(r, j)[k]]
    BY <1>1, <1>8 DEF Put
  <1>10. \A k \in names(j + 1) :
            value(j + 1, k) = IF k = k1 THEN value(j + 1, k1) ELSE MapOf(r, j)[k]
    BY <1>1, <1>5, <1>8
  <1> QED
    BY <1>4, <1>6, <1>7, <1>9, <1>10

LEMMA NoLines == \A r : MapOf(r, 0) = NoHeaders
  <1> SUFFICES ASSUME NEW r PROVE MapOf(r, 0) = NoHeaders
    OBVIOUS
  <1>1. {<<r.fields[i][1]>> : i \in 1..0} = {}
    OBVIOUS
  <1> QED
    BY <1>1 DEF MapOf, NoHeaders

\* buf begins with the end of r's request line and its header lines.
HoldsLines(buf, r) ==
    /\ buf \in Seq(Token) /\ Len(buf) >= 6 * Fields(r) + 1 /\ buf[1] = "LF"
    /\ \A j \in 1..Fields(r) :
          /\ buf[6 * j - 4] = r.fields[j][1] /\ buf[6 * j - 3] = ":" /\ buf[6 * j - 2] = "SP"
          /\ buf[6 * j - 1] = r.fields[j][2] /\ buf[6 * j] = "CR" /\ buf[6 * j + 1] = "LF"

LEMMA Alone ==
    ASSUME NEW buf \in Seq(Token), NEW i \in Nat, i > 0, i <= Len(buf)
    PROVE  SubSeq(buf, i, i) = <<buf[i]>>
  <1>1. Len(SubSeq(buf, i, i)) = 1 /\ SubSeq(buf, i, i)[1] = buf[i] /\ SubSeq(buf, i, i) \in Seq(Token)
    BY SubSeqProperties
  <1> DEFINE t == SubSeq(buf, i, i)
  <1> HIDE DEF t
  <1>2. t = <<t[1]>>
    <2>1. t \in Seq(Token) /\ Len(t) = 1
      BY <1>1 DEF t
    <2>2. t[1] \in Token
      BY <2>1, ElementOfSeq
    <2> DEFINE x == t[1]
               u == <<x>>
    <2>3. u \in Seq(Token) /\ Len(u) = 1 /\ u[1] = x
      BY <2>2
    <2>4. \A k \in 1..1 : t[k] = u[k]
      BY <2>3
    <2> HIDE DEF u
    <2>5. t = u
      BY <2>1, <2>3, <2>4, SeqEqual
    <2> QED
      BY <2>5 DEF u
  <1> QED
    BY <1>1, <1>2 DEF t

Fresh == h_state = "start" /\ headers = NoHeaders

LEMMA LinesScanned ==
    ASSUME NEW r, Wellformed(r), NEW buf, HoldsLines(buf, r), Fresh
    PROVE  \A j \in 0..Fields(r) :
              /\ \/ Goes(Scanned[buf][6 * j + 1], "start", MapOf(r, j)) /\ j = 0
                 \/ Goes(Scanned[buf][6 * j + 1], "lf", MapOf(r, j)) /\ j # 0
              /\ j # 0 => Scanned[buf][6 * j + 1].begin = 6 * j + 1
  <1> DEFINE z(i) == Scanned[buf][i]
             Done(j) == /\ \/ Goes(z(6 * j + 1), "start", MapOf(r, j)) /\ j = 0
                           \/ Goes(z(6 * j + 1), "lf", MapOf(r, j)) /\ j # 0
                        /\ j # 0 => z(6 * j + 1).begin = 6 * j + 1
             T == {j \in Nat : j <= Fields(r) => Done(j)}
  <1>0. /\ z(0) = Resumed
        /\ \A i \in Nat : z(i + 1) = Turn(buf, i + 1, z(i))
    BY ScannedIs DEF HoldsLines
  <1>a. Fields(r) \in Nat
    BY FieldLinesAre
  <1> HIDE DEF z
  <1>1. 0 \in T
    <2>1. Goes(z(0), "start", NoHeaders)
      BY <1>0 DEF Goes, Resumed, ScanFields, Fresh
    <2>2. z(1) = Turn(buf, 1, z(0))
      <3>1. 0 \in Nat /\ 0 + 1 = 1
        OBVIOUS
      <3> QED
        BY <1>0, <3>1
    <2>3. z(1) = z(0)
      BY <2>1, <2>2 DEF Goes, Turn, Step, HoldsLines
    <2>4. 6 * 0 + 1 = 1
      OBVIOUS
    <2>5. Done(0)
      BY <2>1, <2>3, <2>4, NoLines
    <2> QED
      BY <2>5
  <1>2. ASSUME NEW j \in Nat, j \in T PROVE j + 1 \in T
    <2> SUFFICES ASSUME j + 1 <= Fields(r) PROVE Done(j + 1)
      OBVIOUS
    <2>1. Done(j)
      BY <1>2, <1>a
    <2> DEFINE p == 6 * j + 1
               f == r.fields[j + 1]
    <2>2. /\ p \in Nat /\ p + 1 \in Nat /\ p + 2 \in Nat /\ p + 3 \in Nat /\ p + 4 \in Nat
          /\ p + 5 \in Nat /\ p + 6 = 6 * (j + 1) + 1 /\ j + 1 # 0
          /\ (p + 1) + 1 = p + 2 /\ (p + 2) + 1 = p + 3 /\ (p + 3) + 1 = p + 4
          /\ (p + 4) + 1 = p + 5 /\ (p + 5) + 1 = p + 6
      OBVIOUS
    <2>3. /\ buf[p + 1] = f[1] /\ buf[p + 2] = ":" /\ buf[p + 3] = "SP"
          /\ buf[p + 4] = f[2] /\ buf[p + 5] = "CR" /\ buf[p + 6] = "LF"
      <3>1. j + 1 \in 1..Fields(r)
        BY <1>a
      <3>2. /\ 6 * (j + 1) - 4 = p + 1 /\ 6 * (j + 1) - 3 = p + 2 /\ 6 * (j + 1) - 2 = p + 3
            /\ 6 * (j + 1) - 1 = p + 4 /\ 6 * (j + 1) = p + 5 /\ 6 * (j + 1) + 1 = p + 6
        OBVIOUS
      <3> HIDE DEF p
      <3> QED
        BY <3>1, <3>2, SMTT(40) DEF HoldsLines
    <2>4. f[1] \notin {"CR", "LF"}
      <3>1. j + 1 \in 1..Len(r.fields)
        BY <1>a DEF Fields
      <3> QED
        BY <3>1 DEF Wellformed, Separators
    <2>5. Goes(z(p), "start", MapOf(r, j)) \/ Goes(z(p), "lf", MapOf(r, j))
      BY <2>1
    <2> HIDE DEF p, f
    <2>6. /\ z(p + 1) = Turn(buf, p + 1, z(p)) /\ z(p + 2) = Turn(buf, p + 2, z(p + 1))
          /\ z(p + 3) = Turn(buf, p + 3, z(p + 2)) /\ z(p + 4) = Turn(buf, p + 4, z(p + 3))
          /\ z(p + 5) = Turn(buf, p + 5, z(p + 4)) /\ z(p + 6) = Turn(buf, p + 6, z(p + 5))
      BY <1>0, <2>2
    <2> DEFINE more == Put(MapOf(r, j), Text(buf, p + 1, p + 2), Text(buf, p + 4, p + 5))
    <2>7. Goes(z(p + 6), "lf", more) /\ z(p + 6).begin = p + 6
      BY <2>2, <2>3, <2>4, <2>5, <2>6, OneField
    <2>8. Text(buf, p + 1, p + 2) = <<f[1]>> /\ Text(buf, p + 4, p + 5) = <<f[2]>>
      <3>1. /\ p + 1 > 0 /\ p + 1 <= Len(buf) /\ (p + 2) - 1 = p + 1
            /\ p + 4 > 0 /\ p + 4 <= Len(buf) /\ (p + 5) - 1 = p + 4
        <4>1. Len(buf) >= 6 * Fields(r) + 1 /\ Len(buf) \in Nat
          BY DEF HoldsLines
        <4>2. j + 1 <= Fields(r) /\ p = 6 * j + 1
          BY DEF p
        <4> QED
          BY <1>a, <4>1, <4>2
      <3>2. SubSeq(buf, p + 1, p + 1) = <<f[1]>> /\ SubSeq(buf, p + 4, p + 4) = <<f[2]>>
        BY <2>2, <2>3, <3>1, Alone DEF HoldsLines
      <3> QED
        BY <3>1, <3>2 DEF Text
    <2>9. more = MapOf(r, j + 1)
      BY <2>8, MapGrows DEF f
    <2> HIDE DEF more
    <2> QED
      BY <2>2, <2>7, <2>9
  <1> HIDE DEF T
  <1>3. Nat \subseteq T
    BY <1>1, <1>2, Induction
  <1>4. \A j \in 0..Fields(r) : Done(j)
    BY <1>3, <1>a DEF T
  <1> QED
    BY <1>4 DEF z

\* ... and with the blank line behind them.
HoldsHead(buf, r) ==
    /\ HoldsLines(buf, r) /\ Len(buf) >= 6 * Fields(r) + 3
    /\ buf[6 * Fields(r) + 2] = "CR" /\ buf[6 * Fields(r) + 3] = "LF"

\* The scanner has taken the map of r and stands at the text from b.
Ended(s, r, b) ==
    /\ s.error = FALSE /\ s.h = "end_lf" /\ s.headers = FieldMap(r) /\ s.begin = b

LEMMA HeadScanned ==
    ASSUME NEW r, Wellformed(r), NEW buf, HoldsHead(buf, r), Fresh
    PROVE  /\ Ended(Scanned[buf][6 * Fields(r) + 3], r, 6 * Fields(r) + 1)
           /\ \A n \in Nat : n > 6 * Fields(r) + 3
                                => Ended(Scanned[buf][n], r, 6 * Fields(r) + 4)
  <1> DEFINE z(i) == Scanned[buf][i]
             l == 6 * Fields(r) + 1
  <1>0. \A i \in Nat : z(i + 1) = Turn(buf, i + 1, z(i))
    BY ScannedIs DEF HoldsHead, HoldsLines
  <1>1. Fields(r) \in Nat /\ Fields(r) > 0
    BY FieldLinesAre
  <1>2. Goes(z(l), "lf", FieldMap(r)) /\ z(l).begin = l
    <2>1. Fields(r) \in 0..Fields(r) /\ Fields(r) # 0
      BY <1>1
    <2> QED
      BY <2>1, LinesScanned DEF HoldsHead, FieldMap, Fields
  <1>3. /\ buf[l + 1] = "CR" /\ buf[l + 2] = "LF" /\ l \in Nat /\ l + 1 \in Nat
        /\ l + 2 \in Nat /\ (l + 1) + 1 = l + 2 /\ (l + 2) + 1 = l + 3
    <2>1. l + 1 = 6 * Fields(r) + 2 /\ l + 2 = 6 * Fields(r) + 3
      BY <1>1
    <2> QED
      BY <1>1, <2>1 DEF HoldsHead
  <1>l. l = 6 * Fields(r) + 1 /\ l + 2 = 6 * Fields(r) + 3 /\ l + 3 = 6 * Fields(r) + 4
    BY <1>1
  <1> HIDE DEF z, l
  <1> DEFINE map == FieldMap(r)
  <1> HIDE DEF map
  <1>4. Goes(z(l + 1), "end_cr", map) /\ z(l + 1).begin = l
    <2>0. Goes(z(l), "lf", map) /\ z(l).begin = l
      BY <1>2 DEF map
    <2>1. z(l + 1) = Step(buf, l + 1, z(l))
      BY <1>0, <1>3, <2>0 DEF Goes, Turn
    <2>2. Step(buf, l + 1, z(l)) = [z(l) EXCEPT !.h = "end_cr"]
      BY <1>3, <2>0 DEF Goes, Step
    <2> QED
      BY ONLY <2>0, <2>1, <2>2 DEF Goes, ScanFields
  <1>5. Goes(z(l + 2), "end_lf", map) /\ z(l + 2).begin = l
    <2>1. z(l + 2) = Step(buf, l + 2, z(l + 1))
      BY <1>0, <1>3, <1>4 DEF Goes, Turn
    <2>2. Step(buf, l + 2, z(l + 1)) = [z(l + 1) EXCEPT !.h = "end_lf"]
      BY <1>3, <1>4 DEF Goes, Step
    <2> QED
      BY ONLY <1>4, <2>1, <2>2 DEF Goes, ScanFields
  <1> DEFINE b == l + 3
             Stopped(s) == /\ s.stop = TRUE /\ s.error = FALSE /\ s.h = "end_lf"
                           /\ s.headers = map /\ s.begin = b
  <1>6. Stopped(z(l + 3))
    <2>1. z(l + 3) = Step(buf, l + 3, z(l + 2))
      BY <1>0, <1>3, <1>5 DEF Goes, Turn
    <2>2. Step(buf, l + 3, z(l + 2)) = [z(l + 2) EXCEPT !.stop = TRUE, !.begin = l + 3]
      BY <1>5 DEF Goes, Step
    <2> HIDE DEF b
    <2>3. b = l + 3
      BY DEF b
    <2>4. z(l + 3) = [z(l + 2) EXCEPT !.stop = TRUE, !.begin = b]
      BY <2>1, <2>2, <2>3
    <2> DEFINE s == z(l + 2)
               t == z(l + 3)
    <2>5. /\ DOMAIN s = ScanFields /\ s.h = "end_lf" /\ s.headers = map /\ s.error = FALSE
          /\ t = [s EXCEPT !.stop = TRUE, !.begin = b]
      BY <1>5, <2>4 DEF Goes
    <2> HIDE DEF s, t
    <2>6. Stopped(t)
      BY ONLY <2>5 DEF ScanFields
    <2> QED
      BY <2>6 DEF t
  <1>7. \A i \in Nat : Stopped(z((l + 3) + i))
    <2> HIDE DEF b
    <2> DEFINE T == {i \in Nat : Stopped(z((l + 3) + i))}
    <2>1. 0 \in T
      <3>1. (l + 3) + 0 = l + 3
        BY <1>3
      <3> QED
        BY <1>6, <3>1
    <2>2. ASSUME NEW i \in Nat, i \in T PROVE i + 1 \in T
      <3>1. (l + 3) + i \in Nat /\ (l + 3) + (i + 1) = ((l + 3) + i) + 1
        BY <1>3
      <3>2. Stopped(z((l + 3) + i))
        BY <2>2
      <3>3. z((l + 3) + (i + 1)) = z((l + 3) + i)
        BY <1>0, <3>1, <3>2 DEF Turn
      <3> QED
        BY <3>2, <3>3
    <2> HIDE DEF T
    <2>3. Nat \subseteq T
      BY <2>1, <2>2, Induction
    <2> QED
      BY <2>3 DEF T
  <1>8. ASSUME NEW n \in Nat, n > l + 2 PROVE Stopped(z(n))
    <2>1. n - (l + 3) \in Nat /\ (l + 3) + (n - (l + 3)) = n
      BY <1>3, <1>8
    <2> QED
      BY <1>7, <2>1
  <1>9. Ended(z(l + 2), r, l)
    BY <1>5 DEF Goes, Ended, map
  <1>10. ASSUME NEW n \in Nat, n > l + 2 PROVE Ended(z(n), r, l + 3)
    BY <1>8, <1>10 DEF Ended, map
  <1> QED
    BY <1>9, <1>10, <1>l DEF z

-----------------------------------------------------------------------------
(* What has been read is a piece of the request.                            *)

\* w from place a to place k
Piece(w, a, k) ==
    w \in Seq(Token) /\ a \in Nat /\ a > 0 /\ k \in Nat /\ a <= k + 1 /\ k <= Len(w)

LEMMA PieceIs ==
    ASSUME NEW w, NEW a, NEW k, Piece(w, a, k)
    PROVE  /\ SubSeq(w, a, k) \in Seq(Token) /\ Len(SubSeq(w, a, k)) = k - a + 1
           /\ \A i \in 1..(k - a + 1) : SubSeq(w, a, k)[i] = w[a + i - 1]
  <1>1. \A i \in a..k : w[i] \in Token
    <2> SUFFICES ASSUME NEW i \in a..k PROVE w[i] \in Token
      OBVIOUS
    <2>1. w \in Seq(Token) /\ i \in 1..Len(w)
      BY DEF Piece
    <2> QED
      BY <2>1, ElementOfSeq
  <1>2. a \in Int /\ k \in Int /\ (IF a <= k THEN k - a + 1 ELSE 0) = k - a + 1
    BY DEF Piece
  <1>3. /\ SubSeq(w, a, k) \in Seq(Token)
        /\ Len(SubSeq(w, a, k)) = IF a <= k THEN k - a + 1 ELSE 0
        /\ \A i \in 1..(k - a + 1) : SubSeq(w, a, k)[i] = w[a + i - 1]
    BY <1>1, <1>2, SubSeqProperties
  <1> QED
    BY <1>2, <1>3

\* The rest of a piece is a piece.
LEMMA PieceOfPiece ==
    ASSUME NEW w, NEW a, NEW k, Piece(w, a, k), NEW c \in Nat, c > 0, a + c <= k + 2
    PROVE  SubSeq(SubSeq(w, a, k), c, Len(SubSeq(w, a, k))) = SubSeq(w, a + c - 1, k)
  <1> DEFINE t == SubSeq(w, a, k)
             n == k - a + 1
             d == a + c - 1
             x == SubSeq(t, c, n)
             y == SubSeq(w, d, k)
  <1>1. t \in Seq(Token) /\ Len(t) = n /\ \A i \in 1..n : t[i] = w[a + i - 1]
    BY PieceIs
  <1>2. w \in Seq(Token) /\ a \in Nat /\ a > 0 /\ k \in Nat /\ k <= Len(w) /\ n \in Nat
        /\ d \in Nat /\ d > 0 /\ d <= k + 1 /\ n - c + 1 = k - d + 1 /\ c <= n + 1
        /\ d = a + c - 1 /\ n = k - a + 1 /\ k - d + 1 \in Nat
    BY DEF Piece
  <1> HIDE DEF t, n, d
  <1>3. Piece(t, c, n) /\ Piece(w, d, k)
    BY <1>1, <1>2 DEF Piece
  <1>4. x \in Seq(Token) /\ Len(x) = n - c + 1 /\ \A i \in 1..(n - c + 1) : x[i] = t[c + i - 1]
    BY <1>3, PieceIs
  <1>5. y \in Seq(Token) /\ Len(y) = k - d + 1 /\ \A i \in 1..(k - d + 1) : y[i] = w[d + i - 1]
    BY <1>3, PieceIs
  <1> HIDE DEF x, y
  <1> DEFINE m == k - d + 1
  <1>6. ASSUME NEW i \in 1..m PROVE x[i] = y[i]
    <2>1. i \in 1..(n - c + 1) /\ c + i - 1 \in 1..n /\ a + (c + i - 1) - 1 = d + i - 1
      BY <1>2
    <2> QED
      BY <1>1, <1>4, <1>5, <2>1
  <1>7. Len(x) = m /\ Len(y) = m
    BY <1>2, <1>4, <1>5
  <1> HIDE DEF m
  <1>8. x = y
    BY <1>4, <1>5, <1>6, <1>7, SeqEqual
  <1> QED
    BY <1>1, <1>8 DEF x, y, t, d

\* Two pieces that meet make one.
LEMMA PiecesMeet ==
    ASSUME NEW w, NEW a, NEW i, NEW k, Piece(w, a, i), Piece(w, i + 1, k)
    PROVE  SubSeq(w, a, i) \o SubSeq(w, i + 1, k) = SubSeq(w, a, k)
  <1> DEFINE s == SubSeq(w, a, i)
             o == i + 1
             t == SubSeq(w, o, k)
             u == SubSeq(w, a, k)
             x == s \o t
             m == i - a + 1
             n == k - o + 1
             l == k - a + 1
  <1>1. /\ a \in Nat /\ a > 0 /\ i \in Nat /\ k \in Nat /\ k <= Len(w) /\ w \in Seq(Token)
        /\ m \in Nat /\ n \in Nat /\ l \in Nat /\ m + n = l /\ a <= k + 1 /\ i <= k
        /\ m = i - a + 1 /\ n = k - o + 1 /\ l = k - a + 1 /\ o = i + 1
    BY DEF Piece
  <1>2. Piece(w, a, i) /\ Piece(w, o, k) /\ Piece(w, a, k)
    BY <1>1 DEF Piece
  <1> HIDE DEF o, m, n, l
  <1>3. s \in Seq(Token) /\ Len(s) = m /\ \A j \in 1..m : s[j] = w[a + j - 1]
    BY <1>2, PieceIs DEF m
  <1>4. t \in Seq(Token) /\ Len(t) = n /\ \A j \in 1..n : t[j] = w[o + j - 1]
    BY <1>2, PieceIs DEF n
  <1>5. u \in Seq(Token) /\ Len(u) = l /\ \A j \in 1..l : u[j] = w[a + j - 1]
    BY <1>1, <1>2, PieceIs, ZenonT(100) DEF l
  <1> HIDE DEF s, t, u
  <1>6. Join(s, t, x)
    BY <1>3, <1>4, Joined
  <1> HIDE DEF x
  <1>7. x \in Seq(Token) /\ Len(x) = l /\ (\A j \in 1..m : x[j] = s[j])
        /\ (\A j \in 1..n : x[m + j] = t[j])
    BY <1>1, <1>3, <1>4, <1>6 DEF Join
  <1>8. ASSUME NEW j \in 1..l PROVE x[j] = u[j]
    <2>1. CASE j <= m
      <3>1. j \in 1..m
        BY <1>1, <2>1
      <3> QED
        BY <1>3, <1>5, <1>7, <3>1
    <2>2. CASE j > m
      <3>1. j - m \in 1..n /\ m + (j - m) = j /\ o + (j - m) - 1 = a + j - 1
        BY <1>1, <2>2
      <3> QED
        BY <1>4, <1>5, <1>7, <3>1, SMTT(40)
    <2> QED
      BY <1>1, <2>1, <2>2
  <1>9. x = u
    BY <1>5, <1>7, <1>8, SeqEqual
  <1> QED
    BY <1>9 DEF x, s, t, u, o

LEMMA HeadIn ==
    ASSUME NEW r, Wellformed(r), NEW k \in Nat, k >= HeadLen(r), k <= Len(Wire(r))
    PROVE  /\ Piece(Wire(r), 3, k) /\ Len(SubSeq(Wire(r), 3, k)) = k - 2
           /\ HoldsHead(SubSeq(Wire(r), 3, k), r)
  <1> DEFINE w == Wire(r)
             buf == SubSeq(w, 3, k)
             h == HeadLen(r)
             l == 6 * Fields(r)
  <1>1. Spelt(r, w) /\ h \in Nat /\ h > 10 /\ h = l + 5 /\ l \in Nat /\ Fields(r) \in Nat
    BY WireSpelt, FieldLinesAre DEF HeadLen, LineLen
  <1>2. Piece(w, 3, k)
    BY <1>1 DEF Piece, Spelt
  <1>3. /\ buf \in Seq(Token) /\ Len(buf) = k - 2
        /\ \A i \in 1..(k - 2) : buf[i] = w[3 + i - 1]
    <2>1. k - 3 + 1 = k - 2
      OBVIOUS
    <2>2. /\ buf \in Seq(Token) /\ Len(buf) = k - 3 + 1
          /\ \A i \in 1..(k - 3 + 1) : buf[i] = w[3 + i - 1]
      BY ONLY <1>2, PieceIs
    <2> HIDE DEF buf, w
    <2> QED
      BY <2>1, <2>2
  <1>a. k >= l + 5
    BY <1>1
  <1> HIDE DEF w, buf, h, l
  <1>4. \A i \in Nat : i > 0 /\ i <= k - 2 => buf[i] = w[i + 2]
    <2> SUFFICES ASSUME NEW i \in Nat, i > 0, i <= k - 2 PROVE buf[i] = w[i + 2]
      OBVIOUS
    <2>1. i \in 1..(k - 2) /\ 3 + i - 1 = i + 2
      OBVIOUS
    <2> QED
      BY <1>3, <2>1
  <1>5. buf[1] = "LF"
    <2>1. 1 <= k - 2 /\ 1 + 2 = 3 /\ 1 \in Nat
      BY <1>1, <1>a
    <2> QED
      BY <1>1, <1>4, <2>1, SMTT(40) DEF Spelt
  <1>6. ASSUME NEW j \in 1..Fields(r)
        PROVE  /\ buf[6 * j - 4] = r.fields[j][1] /\ buf[6 * j - 3] = ":"
               /\ buf[6 * j - 2] = "SP" /\ buf[6 * j - 1] = r.fields[j][2]
               /\ buf[6 * j] = "CR" /\ buf[6 * j + 1] = "LF"
    <2>1. /\ 6 * j - 4 \in Nat /\ 6 * j - 4 > 0 /\ 6 * j + 1 <= k - 2
          /\ (6 * j - 4) + 2 = 6 * j - 2 /\ (6 * j - 3) + 2 = 6 * j - 1 /\ (6 * j - 2) + 2 = 6 * j
          /\ (6 * j - 1) + 2 = 6 * j + 1 /\ 6 * j + 2 = 6 * j + 2 /\ (6 * j + 1) + 2 = 6 * j + 3
      BY <1>1, <1>a DEF l
    <2> DEFINE a == 6 * j - 4
               c(i) == buf[i]
               d(i) == w[i]
    <2>2. /\ a \in Nat /\ a > 0 /\ a + 5 <= k - 2
          /\ a + 1 = 6 * j - 3 /\ a + 2 = 6 * j - 2 /\ a + 3 = 6 * j - 1 /\ a + 4 = 6 * j
          /\ a + 5 = 6 * j + 1 /\ a + 6 = 6 * j + 2 /\ a + 7 = 6 * j + 3
      BY <2>1
    <2> HIDE DEF a
    <2>3. /\ c(a) = d(a + 2) /\ c(a + 1) = d(a + 3) /\ c(a + 2) = d(a + 4)
          /\ c(a + 3) = d(a + 5) /\ c(a + 4) = d(a + 6) /\ c(a + 5) = d(a + 7)
      BY <1>4, <2>2
    <2>4. /\ d(6 * j - 2) = r.fields[j][1] /\ d(6 * j - 1) = ":"
          /\ d(6 * j) = "SP" /\ d(6 * j + 1) = r.fields[j][2]
          /\ d(6 * j + 2) = "CR" /\ d(6 * j + 3) = "LF"
      BY <1>1 DEF Spelt
    <2>5. 6 * j - 4 = a
      BY DEF a
    <2> QED
      BY <2>2, <2>3, <2>4, <2>5, ZenonT(100)
  <1>7. buf[l + 2] = "CR" /\ buf[l + 3] = "LF"
    <2>1. /\ l + 2 \in Nat /\ l + 2 > 0 /\ l + 3 \in Nat /\ l + 3 <= k - 2 /\ l + 2 <= k - 2
          /\ (l + 2) + 2 = h - 1 /\ (l + 3) + 2 = h /\ l + 3 > 0
      BY <1>1, <1>a
    <2>2. w[h - 1] = "CR" /\ w[h] = "LF"
      BY <1>1 DEF Spelt, h
    <2> QED
      BY <1>4, <2>1, <2>2
  <1>8. Len(buf) >= l + 3 /\ Len(buf) >= l + 1
    BY <1>1, <1>3, <1>a
  <1>9. HoldsHead(buf, r)
    BY <1>3, <1>5, <1>6, <1>7, <1>8 DEF HoldsHead, HoldsLines, l
  <1> QED
    BY <1>2, <1>3, <1>9 DEF w, buf

\* The scanner takes the header lines, when they come in one piece with what follows
\* them; what it leaves is the part of the body that was read.
LEMMA WholeHead ==
    ASSUME NEW r, Wellformed(r), NEW k \in Nat, k <= Len(Wire(r)), Fresh,
           k > HeadLen(r) \/ k = Len(Wire(r)),
           NEW buf, buf = SubSeq(Wire(r), 3, k), NEW s, s = Scanned[buf][Len(buf)],
           NEW left, left = SubSeq(buf, s.begin, Len(buf))
    PROVE  /\ Ended(s, r, s.begin) /\ left \in Seq(Token)
           /\ k > HeadLen(r) => left = SubSeq(Wire(r), HeadLen(r) + 1, k)
  <1> DEFINE w == Wire(r)
             l == 6 * Fields(r)
             b == s.begin
  <1>1. /\ Fields(r) \in Nat /\ l \in Nat /\ HeadLen(r) = l + 5 /\ HeadLen(r) \in Nat
        /\ w \in Seq(Token) /\ Len(w) >= HeadLen(r)
    <2>1. Len(w) = HeadLen(r) + Len(r.body) /\ w \in Seq(Token) /\ HeadLen(r) \in Nat
      BY WireSpelt DEF Spelt
    <2>2. Len(r.body) \in Nat
      <3>1. r.body \in Seq(Token)
        BY DEF Wellformed
      <3> QED
        BY <3>1
    <2> QED
      BY <2>1, <2>2, FieldLinesAre, SMTT(40) DEF HeadLen, LineLen
  <1>2. k >= HeadLen(r)
    BY <1>1
  <1>3. Piece(w, 3, k) /\ Len(buf) = k - 2 /\ HoldsHead(buf, r)
    BY <1>2, HeadIn
  <1>4. /\ Ended(Scanned[buf][l + 3], r, l + 1)
        /\ \A n \in Nat : n > l + 3 => Ended(Scanned[buf][n], r, l + 4)
    BY <1>3, HeadScanned
  <1> HIDE DEF w, l, b
  <1>5. CASE k > HeadLen(r)
    <2>1. k - 2 \in Nat /\ k - 2 > l + 3 /\ l + 4 \in Nat /\ l + 4 > 0 /\ 3 + (l + 4) <= k + 2
          /\ 3 + (l + 4) - 1 = HeadLen(r) + 1
      BY <1>1, <1>5
    <2>2. Ended(s, r, l + 4)
      BY <1>3, <1>4, <2>1
    <2>3. left = SubSeq(buf, l + 4, Len(buf))
      BY <2>2 DEF Ended
    <2>4. left = SubSeq(w, 3 + (l + 4) - 1, k)
      <3> DEFINE c == l + 4
      <3>1. c \in Nat /\ c > 0 /\ 3 + c <= k + 2 /\ left = SubSeq(buf, c, Len(buf))
        BY <2>1, <2>3
      <3>2. buf = SubSeq(w, 3, k)
        BY DEF w
      <3> HIDE DEF c
      <3>3. left = SubSeq(w, 3 + c - 1, k)
        BY ONLY <1>3, <3>1, <3>2, PieceOfPiece
      <3> QED
        BY <3>3 DEF c
    <2>5. left = SubSeq(w, HeadLen(r) + 1, k)
      BY <2>1, <2>4
    <2>6. Piece(w, HeadLen(r) + 1, k)
      BY <1>1, <1>5 DEF Piece, w
    <2>7. left \in Seq(Token)
      <3> DEFINE c == HeadLen(r) + 1
      <3>1. Piece(w, c, k) /\ left = SubSeq(w, c, k)
        BY <2>5, <2>6
      <3> HIDE DEF c
      <3> QED
        BY ONLY <3>1, PieceIs
    <2> QED
      BY <2>2, <2>5, <2>7 DEF Ended, w
  <1>6. CASE ~(k > HeadLen(r))
    <2>1. k - 2 = l + 3 /\ l + 1 \in Nat /\ l + 1 > 0
      BY <1>1, <1>2, <1>6
    <2>2. Ended(s, r, l + 1)
      BY <1>3, <1>4, <2>1
    <2>3. Piece(buf, l + 1, Len(buf))
      BY <1>1, <1>3, <2>1 DEF Piece, HoldsHead, HoldsLines
    <2>4. left \in Seq(Token)
      BY <2>2, <2>3, PieceIs DEF Ended
    <2> QED
      BY <1>6, <2>2, <2>4 DEF Ended
  <1> QED
    BY <1>5, <1>6

\* A call that has nothing, or the end of the request line only, waits for more.
LEMMA NoHead ==
    ASSUME NEW buf, buf \in {<<>>, <<"LF">>}, Fresh, NEW s, s = Scanned[buf][Len(buf)]
    PROVE  /\ s.error = FALSE /\ s.h = "start" /\ s.headers = NoHeaders
           /\ SubSeq(buf, s.begin, Len(buf)) = buf
  <1>0. buf \in Seq(Token) /\ "LF" \in Token
    <2>1. "LF" \in Token
      BY HttpAssumption DEF Separators
    <2>2. <<>> \in Seq(Token) /\ <<"LF">> \in Seq(Token)
      BY <2>1
    <2> QED
      BY <2>1, <2>2
  <1>1. Scanned[buf][0] = Resumed
    BY <1>0, ScannedIs
  <1>2. Scanned[buf][1] = Turn(buf, 1, Resumed)
    <2>1. 0 \in Nat /\ 0 + 1 = 1
      OBVIOUS
    <2> QED
      BY <1>0, <1>1, <2>1, ScannedIs
  <1>3. Goes(Resumed, "start", NoHeaders) /\ Resumed.begin = 1
    BY DEF Goes, Resumed, ScanFields, Fresh
  <1>4. s = Resumed
    <2>1. CASE buf = <<>>
      BY <1>1, <2>1
    <2>2. CASE buf = <<"LF">>
      <3>1. Turn(buf, 1, Resumed) = Resumed
        BY <1>3, <2>2 DEF Turn, Step, Goes
      <3> QED
        BY <1>2, <2>2, <3>1
    <2> QED
      BY <2>1, <2>2
  <1>5. SubSeq(buf, 1, Len(buf)) = buf
    BY <1>0
  <1> QED
    BY <1>3, <1>4, <1>5 DEF Goes

-----------------------------------------------------------------------------
(* parseURI.                                                                *)

LEMMA LineAlone ==
    ASSUME NEW x
    PROVE  LineIn(<<x>>) = IF MethodOf(x) = "none" THEN <<>> ELSE <<x>>
  <1> DEFINE found == {i \in 1..Len(<<x>>) : MethodOf(<<x>>[i]) # "none"}
             at == CHOOSE i \in found : \A j \in found : i <= j
  <1>1. found = IF MethodOf(x) = "none" THEN {} ELSE {1}
    BY DEF found
  <1>2. found = {1} => at = 1
    <2> HIDE DEF found
    <2> SUFFICES ASSUME found = {1} PROVE at = 1
      OBVIOUS
    <2>1. 1 \in found /\ \A j \in found : 1 <= j
      OBVIOUS
    <2> QED
      BY <2>1
  <1>3. LineIn(<<x>>) = IF found = {} THEN <<>> ELSE <<(<<x>>)[at]>>
    BY DEF LineIn
  <1> HIDE DEF found, at
  <1> QED
    BY <1>1, <1>2, <1>3

LEMMA NoLine ==
    ASSUME NEW r, Wellformed(r), NEW k \in {0, 1}, NEW buf, buf = SubSeq(Wire(r), 1, k)
    PROVE  CRs(buf) = {}
  <1> DEFINE w == Wire(r)
             o == 1
  <1>1. /\ Spelt(r, w) /\ HeadLen(r) \in Nat /\ HeadLen(r) > 10 /\ Len(r.body) \in Nat
        /\ r.line # "CR"
    <2>1. r.body \in Seq(Token) /\ r.line # "CR"
      BY DEF Wellformed, Separators
    <2> QED
      BY <2>1, WireSpelt
  <1> HIDE DEF w
  <1>2. Piece(w, o, k)
    <2>1. w \in Seq(Token) /\ Len(w) = HeadLen(r) + Len(r.body)
      BY <1>1 DEF Spelt
    <2>2. k \in Nat /\ o \in Nat /\ o > 0 /\ o <= k + 1 /\ k <= Len(w)
      BY <1>1, <2>1
    <2> QED
      BY <2>1, <2>2 DEF Piece
  <1>3. k - o + 1 = k /\ \A i \in 1..k : i = 1 /\ o + i - 1 = 1
    OBVIOUS
  <1> HIDE DEF o
  <1>4. /\ Len(SubSeq(w, o, k)) = k - o + 1
        /\ \A i \in 1..(k - o + 1) : SubSeq(w, o, k)[i] = w[o + i - 1]
    BY ONLY <1>2, PieceIs
  <1>5. buf = SubSeq(w, o, k)
    BY DEF w, o
  <1>6. Len(buf) = k /\ \A i \in 1..k : buf[i] # "CR"
    <2>1. w[1] = r.line
      BY <1>1 DEF Spelt
    <2>2. Len(buf) = k /\ \A i \in 1..k : buf[i] = w[1]
      BY ONLY <1>3, <1>4, <1>5
    <2> QED
      BY ONLY <1>1, <2>1, <2>2
  <1> QED
    BY ONLY <1>6 DEF CRs

FirstCR(buf) == CHOOSE i \in CRs(buf) : \A j \in CRs(buf) : i <= j

\* The request line is found before the first CR, and what follows is left.
LEMMA LineFound ==
    ASSUME NEW r, Wellformed(r), NEW k \in Nat, k >= 2, k <= Len(Wire(r)),
           NEW buf, buf = SubSeq(Wire(r), 1, k)
    PROVE  /\ CRs(buf) # {} /\ FirstCR(buf) = 2
           /\ LineIn(SubSeq(buf, 1, FirstCR(buf) - 1))
                = IF MethodOf(r.line) = "none" THEN <<>> ELSE <<r.line>>
           /\ SubSeq(buf, FirstCR(buf) + 1, Len(buf)) = SubSeq(Wire(r), 3, k)
  <1> DEFINE w == Wire(r)
             o == 1
             cr == FirstCR(buf)
  <1>1. Spelt(r, w) /\ r.line # "CR"
    BY WireSpelt DEF Wellformed, Separators
  <1> HIDE DEF w
  <1>2. Piece(w, o, k)
    BY <1>1 DEF Piece, Spelt, w
  <1>3. o = 1 /\ o \in Nat /\ k - o + 1 = k /\ \A i \in 1..k : o + i - 1 = i
    OBVIOUS
  <1>5. buf = SubSeq(w, o, k)
    BY DEF w
  <1> HIDE DEF o
  <1>4. /\ SubSeq(w, o, k) \in Seq(Token) /\ Len(SubSeq(w, o, k)) = k - o + 1
        /\ \A i \in 1..(k - o + 1) : SubSeq(w, o, k)[i] = w[o + i - 1]
    BY ONLY <1>2, PieceIs
  <1>6. buf \in Seq(Token) /\ Len(buf) = k /\ \A i \in 1..k : buf[i] = w[i]
    BY ONLY <1>3, <1>4, <1>5
  <1>7. buf[1] = r.line /\ buf[2] = "CR"
    <2>1. 1 \in 1..k /\ 2 \in 1..k
      OBVIOUS
    <2> QED
      BY ONLY <2>1, <1>1, <1>6 DEF Spelt
  <1>8. 2 \in CRs(buf) /\ \A j \in CRs(buf) : 2 <= j
    <2>1. 2 \in CRs(buf) /\ 1 \notin CRs(buf)
      BY <1>1, <1>6, <1>7 DEF CRs
    <2>2. \A j \in CRs(buf) : j \in Nat /\ j > 0
      BY <1>6 DEF CRs
    <2> QED
      BY ONLY <2>1, <2>2
  <1>9. CRs(buf) # {} /\ cr = 2
    <2>1. \A i \in CRs(buf) : (\A j \in CRs(buf) : i <= j) => i = 2
      <3>1. \A j \in CRs(buf) : j \in Nat
        BY <1>6 DEF CRs
      <3> QED
        BY ONLY <1>8, <3>1
    <2> QED
      BY <1>8, <2>1 DEF FirstCR
  <1> HIDE DEF cr
  <1>10. SubSeq(buf, 1, cr - 1) = <<r.line>>
    <2>1. SubSeq(buf, o, o) = <<buf[o]>>
      <3>1. o > 0 /\ o <= Len(buf) /\ k >= 2
        BY <1>3, <1>6
      <3> QED
        BY ONLY <1>3, <1>6, <3>1, Alone
    <2>2. cr - 1 = o
      BY <1>3, <1>9
    <2> QED
      BY <1>3, <1>7, <2>1, <2>2
  <1>11. SubSeq(buf, cr + 1, Len(buf)) = SubSeq(w, 3, k)
    <2> DEFINE c == cr + 1
    <2>1. c \in Nat /\ c > 0 /\ o + c <= k + 2 /\ o + c - 1 = 3
      <3>1. c = cr + 1 /\ k \in Nat /\ k >= 2
        OBVIOUS
      <3> QED
        BY ONLY <1>3, <1>9, <3>1
    <2> HIDE DEF c
    <2>2. SubSeq(buf, c, Len(buf)) = SubSeq(w, o + c - 1, k)
      <3>1. SubSeq(SubSeq(w, o, k), c, Len(SubSeq(w, o, k))) = SubSeq(w, o + c - 1, k)
        <4>1. o \in Nat /\ k \in Nat
          BY <1>3
        <4> QED
          BY ONLY <1>2, <2>1, <4>1, PieceOfPiece
      <3> QED
        BY ONLY <1>5, <3>1
    <2> QED
      BY <2>1, <2>2 DEF c
  <1> QED
    BY <1>9, <1>10, <1>11, LineAlone DEF w, cr

-----------------------------------------------------------------------------
(* Where a connection is.                                                   *)

Last == sent[Len(sent)]

\* k tokens of the last request were read.
Taken(k) ==
    /\ k \in Nat /\ k <= Len(Wire(Last))
    /\ rest = SubSeq(Wire(Last), k + 1, Len(Wire(Last)))

\* The last request waits for its answer.
Asking == status = "open" /\ ~out /\ Len(sent) = Len(served) + 1

\* In its request line,
AtLine(k) ==
    /\ Asking /\ Taken(k) /\ k \in {0, 1} /\ state = "uri" /\ Fresh
    /\ inBuffer = SubSeq(Wire(Last), 1, k)
\* right behind it,
AtHeaders(k) ==
    /\ Asking /\ Taken(k) /\ k \in {2, 3} /\ state = "headers" /\ Fresh
    /\ inBuffer = SubSeq(Wire(Last), 3, k)
    /\ line = <<Last.line>> /\ MethodOf(Last.line) # "none"
\* in the body of a form,
AtBody(k) ==
    /\ Asking /\ Taken(k) /\ k > HeadLen(Last) /\ k < Len(Wire(Last)) /\ state = "body"
    /\ inBuffer = SubSeq(Wire(Last), HeadLen(Last) + 1, k)
    /\ line = <<Last.line>> /\ MethodOf(Last.line) = "POST" /\ headers = FieldMap(Last)
\* or answered, and the parser as new,
Idle ==
    /\ status = "open" /\ rest = <<>> /\ Len(served) = Len(sent)
    /\ state = "uri" /\ inBuffer = <<>> /\ Fresh
\* or answered for the last time,
Ending == status = "open" /\ rest = <<>> /\ Len(served) = Len(sent) /\ out /\ ~keep_alive
\* or left without an answer by analysisRequest,
Lost == Asking /\ rest = <<>> /\ Last.line = "POST none"
\* or at its end.
Gone == status = "closed" \/ (status = "error" /\ Refusable(Last))

Stage ==
    \/ \E k \in Nat : AtLine(k) \/ AtHeaders(k) \/ AtBody(k)
    \/ Idle \/ Ending \/ Lost \/ Gone

Answers ==
    [line : {r.line : r \in Requests}, headers : {FieldMap(r) : r \in Requests}, body : Seq(Token)]

\* a is the answer to r.
Right(a, r) ==
    /\ a.line = r.line /\ a.headers = FieldMap(r)
    /\ MethodOf(r.line) = "POST" => a.body = r.body

HttpInv ==
    /\ sent \in Seq(Requests) /\ served \in Seq(Answers) /\ Len(served) <= Len(sent)
    /\ \A i \in 1..Len(served) : Right(served[i], sent[i])
    /\ Stage

-----------------------------------------------------------------------------
(* Every step keeps it.                                                     *)

LEMMA Adds ==
    ASSUME NEW S, NEW s \in Seq(S), NEW x \in S
    PROVE  /\ Append(s, x) \in Seq(S) /\ Len(Append(s, x)) = Len(s) + 1
           /\ \A i \in 1..Len(s) : Append(s, x)[i] = s[i]
           /\ Append(s, x)[Len(s) + 1] = x
  OBVIOUS

\* The first n characters of a body of n are the body, as is nothing of an empty one.
LEMMA BodyTaken ==
    ASSUME NEW body \in Seq(Token), NEW buf \in Seq(Token), buf = body \/ body = <<>>
    PROVE  substr(buf, Len(body)) = body
  <1>1. Len(buf) \in Nat
    OBVIOUS
  <1>2. CASE body = <<>>
    <2>1. Len(body) = 0
      BY <1>2
    <2>2. (IF 0 < Len(buf) THEN 0 ELSE Len(buf)) = 0
      BY <1>1
    <2>3. substr(buf, 0) = SubSeq(buf, 1, 0)
      BY <2>2 DEF substr
    <2> QED
      BY <1>2, <2>1, <2>3
  <1>3. CASE body # <<>>
    <2>1. buf = body
      BY <1>3
    <2>2. substr(buf, Len(buf)) = SubSeq(buf, 1, Len(buf))
      BY DEF substr
    <2>3. SubSeq(buf, 1, Len(buf)) = buf
      OBVIOUS
    <2> QED
      BY <2>1, <2>2, <2>3
  <1> QED
    BY <1>2, <1>3

LEMMA SomeTaken ==
    ASSUME NEW buf \in Seq(Token), NEW n \in Nat
    PROVE  substr(buf, n) \in Seq(Token)
  <1> DEFINE o == 1
             m == IF n < Len(buf) THEN n ELSE Len(buf)
  <1>1. m \in Nat /\ m <= Len(buf) /\ o \in Nat /\ o > 0 /\ o <= m + 1 /\ Len(buf) \in Nat
    OBVIOUS
  <1>2. substr(buf, n) = SubSeq(buf, o, m)
    BY DEF substr
  <1> HIDE DEF o, m
  <1>3. Piece(buf, o, m)
    BY <1>1 DEF Piece
  <1>4. SubSeq(buf, o, m) \in Seq(Token)
    BY ONLY <1>3, PieceIs
  <1> QED
    BY <1>2, <1>4

\* What a call is given: the last request, of which it has read k tokens.
Given(r, k) ==
    /\ HttpInv /\ Asking /\ r = Last /\ Wellformed(r) /\ r \in Requests
    /\ k \in Nat /\ k <= Len(Wire(r))
    /\ sent' = sent /\ rest' = SubSeq(Wire(r), k + 1, Len(Wire(r)))

LEMMA AllTaken ==
    ASSUME NEW r, NEW k, Given(r, k), k = Len(Wire(r))
    PROVE  rest' = <<>>
  <1>1. k \in Int /\ k + 1 \in Int /\ k < k + 1
    BY DEF Given
  <1> QED
    BY <1>1, SubSeqEmpty DEF Given

\* An answer to what was asked leaves the connection in order.
LEMMA Analysed ==
    ASSUME NEW r, NEW k, Given(r, k), NEW buf \in Seq(Token), NEW h,
           Analyse(buf, h, FieldMap(r), <<r.line>>),
           r.line \in {"GET page", "POST form", "POST none"} => k = Len(Wire(r)),
           MethodOf(r.line) = "POST"
             => Length \in DOMAIN FieldMap(r) /\ (buf = r.body \/ r.body = <<>>)
    PROVE  HttpInv'
  <1> DEFINE map == FieldMap(r)
             body == IF Length \in DOMAIN map THEN substr(buf, stoi(map[Length])) ELSE <<>>
             a == [line |-> r.line, headers |-> map, body |-> body]
             keep == keep_alive \/ WantsKeepAlive(map)
  <1>0. /\ sent' = sent /\ Last' = Last /\ r = Last /\ Asking /\ r \in Requests
        /\ sent \in Seq(Requests) /\ served \in Seq(Answers)
        /\ Len(served) \in Nat /\ Len(sent) = Len(served) + 1
        /\ \A i \in 1..Len(served) : Right(served[i], sent[i])
    <2>1. /\ sent' = sent /\ r = Last /\ Asking /\ r \in Requests /\ HttpInv
      BY DEF Given
    <2>2. Last' = Last
      BY <2>1 DEF Last
    <2>3. /\ sent \in Seq(Requests) /\ served \in Seq(Answers)
          /\ \A i \in 1..Len(served) : Right(served[i], sent[i])
      BY <2>1 DEF HttpInv
    <2>4. Len(served) \in Nat
      BY <2>3, LenProperties
    <2>5. Len(sent) = Len(served) + 1
      BY <2>1 DEF Asking
    <2> QED
      BY <2>1, <2>2, <2>3, <2>4, <2>5
  <1>n. sent' = sent /\ Len(served) \in Nat /\ Len(sent) = Len(served) + 1
    BY ONLY <1>0
  <1>1. CASE /\ r.line \in {"GET page", "POST form"}
             /\ served' = Append(served, a)
             /\ Finish(keep, TRUE, buf, h, map, <<r.line>>)
    <2>1. a \in Answers /\ Right(a, r)
      <3>1. MethodOf(r.line) = "POST" => body = r.body
        <4> SUFFICES ASSUME MethodOf(r.line) = "POST" PROVE body = r.body
          OBVIOUS
        <4>1. /\ Length \in DOMAIN FieldMap(r) /\ (buf = r.body \/ r.body = <<>>)
              /\ r.body \in Seq(Token) /\ stoi(map[Length]) = Len(r.body)
          BY DEF Given, Wellformed
        <4> QED
          BY <4>1, BodyTaken
      <3>2. body \in Seq(Token)
        <4>1. CASE MethodOf(r.line) = "POST"
          BY <3>1, <4>1 DEF Given, Wellformed
        <4>2. CASE MethodOf(r.line) # "POST"
          <5>1. Length \in DOMAIN map => stoi(map[Length]) \in Nat
            BY DEF Given, Wellformed
          <5> HIDE DEF map
          <5>2. Length \in DOMAIN map => substr(buf, stoi(map[Length])) \in Seq(Token)
            BY <5>1, SomeTaken
          <5>3. <<>> \in Seq(Token)
            BY EmptySeq
          <5> QED
            BY <5>2, <5>3
        <4> QED
          BY <4>1, <4>2
      <3> HIDE DEF body
      <3> QED
        BY <1>0, <3>1, <3>2 DEF Answers, Right
    <2> HIDE DEF a
    <2>2. /\ served' \in Seq(Answers) /\ Len(served') = Len(served) + 1
          /\ \A i \in 1..Len(served) : served'[i] = served[i]
          /\ served'[Len(served) + 1] = a
      <3>1. served \in Seq(Answers) /\ a \in Answers /\ served' = Append(served, a)
        BY <1>0, <1>1, <2>1 DEF a
      <3> QED
        BY ONLY <3>1, Adds
    <2>l. Len(served') = Len(served) + 1
      BY ONLY <2>2
    <2>3. \A i \in 1..Len(served') : Right(served'[i], sent'[i])
      <3> SUFFICES ASSUME NEW i \in 1..Len(served') PROVE Right(served'[i], sent'[i])
        OBVIOUS
      <3>1. CASE i <= Len(served)
        <4>1. i \in 1..Len(served)
          BY ONLY <1>n, <2>l, <3>1, i \in 1..Len(served')
        <4>2. served'[i] = served[i] /\ sent'[i] = sent[i] /\ Right(served[i], sent[i])
          BY <1>0, <2>2, <4>1
        <4> QED
          BY <4>2
      <3>2. CASE i = Len(served) + 1
        <4>1. sent'[i] = r
          BY <1>0, <3>2 DEF Last
        <4> QED
          BY <2>1, <2>2, <3>2, <4>1
      <3>3. i <= Len(served) \/ i = Len(served) + 1
        BY ONLY <1>n, <2>l, i \in 1..Len(served')
      <3> QED
        BY <3>1, <3>2, <3>3
    <2>4. rest' = <<>>
      BY <1>1, AllTaken
    <2>5. Idle' \/ Ending'
      <3>1. CASE keep
        BY <1>0, <1>1, <2>2, <2>4, <3>1 DEF Finish, Reset, Idle, Fresh, NoHeaders
      <3>2. CASE ~keep
        BY <1>0, <1>1, <2>2, <2>4, <3>2 DEF Finish, Ending
      <3> QED
        BY <3>1, <3>2
    <2> QED
      <3>1. Len(served') <= Len(sent')
        BY ONLY <1>n, <2>l
      <3>2. sent' \in Seq(Requests)
        BY <1>0
      <3> QED
        BY ONLY <2>2, <2>3, <2>5, <3>1, <3>2 DEF HttpInv, Stage
  <1>2. CASE r.line \notin {"GET page", "POST form"} /\ Refuse
    <2>1. status' = "error" /\ served' = served
      BY <1>2 DEF Refuse
    <2>2. Refusable(Last')
      BY <1>0, <1>2 DEF Refusable
    <2>3. Gone'
      BY <2>1, <2>2 DEF Gone
    <2> QED
      <3>1. /\ sent' \in Seq(Requests) /\ served' \in Seq(Answers) /\ Len(served') <= Len(sent')
            /\ \A i \in 1..Len(served') : Right(served'[i], sent'[i])
        <4>1. served' = served
          BY ONLY <2>1
        <4>2. Len(served) <= Len(sent)
          BY ONLY <1>n
        <4> QED
          BY <1>0, <4>1, <4>2
      <3> QED
        BY ONLY <2>3, <3>1 DEF HttpInv, Stage
  <1>3. CASE /\ r.line = "POST none" /\ served' = served
             /\ Finish(keep_alive, FALSE, buf, h, map, <<r.line>>)
    <2>1. rest' = <<>>
      BY <1>3, AllTaken
    <2>2. Lost' \/ Gone'
      <3>1. CASE keep_alive
        BY <1>0, <1>3, <2>1, <3>1 DEF Finish, Lost, Asking
      <3>2. CASE ~keep_alive
        BY <1>3, <3>2 DEF Finish, Gone
      <3> QED
        BY <3>1, <3>2
    <2> QED
      <3>1. /\ sent' \in Seq(Requests) /\ served' \in Seq(Answers) /\ Len(served') <= Len(sent')
            /\ \A i \in 1..Len(served') : Right(served'[i], sent'[i])
        <4>1. served' = served
          BY ONLY <1>3
        <4>2. Len(served) <= Len(sent)
          BY ONLY <1>n
        <4> QED
          BY <1>0, <4>1, <4>2
      <3> QED
        BY ONLY <2>2, <3>1 DEF HttpInv, Stage
  <1> QED
    <2>1. (<<r.line>> \in {<<"GET page">>, <<"POST form">>}) <=> r.line \in {"GET page", "POST form"}
      OBVIOUS
    <2>2. <<r.line>> = <<"POST none">> <=> r.line = "POST none"
      OBVIOUS
    <2>3. (<<r.line>>)[1] = r.line
      OBVIOUS
    <2> QED
      BY <1>1, <1>2, <1>3, <2>1, <2>2, <2>3 DEF Analyse

LEMMA BodyIs ==
    ASSUME NEW r, Wellformed(r)
    PROVE  SubSeq(Wire(r), HeadLen(r) + 1, Len(Wire(r))) = r.body
  <1> DEFINE w == Wire(r)
             c == HeadLen(r) + 1
             k == Len(w)
             t == SubSeq(w, c, k)
             n == Len(r.body)
  <1>1. /\ w \in Seq(Token) /\ k = HeadLen(r) + n
        /\ \A m \in 1..n : w[HeadLen(r) + m] = r.body[m]
    BY WireSpelt DEF Spelt
  <1>2. r.body \in Seq(Token)
    BY DEF Wellformed
  <1>3. n \in Nat /\ HeadLen(r) \in Nat
    BY <1>2, WireSpelt
  <1> HIDE DEF w, n
  <1>4. c \in Nat /\ c > 0 /\ k \in Nat /\ c <= k + 1 /\ k - c + 1 = n /\ k <= Len(w)
    BY <1>1, <1>3
  <1>5. \A i \in 1..n : c + i - 1 = HeadLen(r) + i
    BY <1>3
  <1> HIDE DEF c, k
  <1>6. Piece(w, c, k)
    BY <1>1, <1>4 DEF Piece
  <1>7. t \in Seq(Token) /\ Len(t) = k - c + 1 /\ \A i \in 1..(k - c + 1) : t[i] = w[c + i - 1]
    BY ONLY <1>6, PieceIs
  <1> HIDE DEF t
  <1>8. t \in Seq(Token) /\ Len(t) = n /\ \A i \in 1..n : t[i] = r.body[i]
    BY ONLY <1>1, <1>4, <1>5, <1>7
  <1>9. Len(r.body) = n
    BY DEF n
  <1>10. t = r.body
    BY ONLY <1>2, <1>8, <1>9, SeqEqual
  <1> QED
    BY <1>10 DEF t, w, c, k

\* The part of a step that every outcome shares
LEMMA Shared ==
    ASSUME NEW r, NEW k, Given(r, k), served' = served, Stage'
    PROVE  HttpInv'
  <1>1. /\ sent' = sent /\ sent \in Seq(Requests) /\ served \in Seq(Answers)
        /\ Len(served) <= Len(sent)
        /\ \A i \in 1..Len(served) : Right(served[i], sent[i])
    BY DEF Given, HttpInv
  <1> QED
    BY ONLY <1>1, served' = served, Stage' DEF HttpInv

LEMMA Refused ==
    ASSUME NEW r, NEW k, Given(r, k), Refuse, Refusable(r)
    PROVE  HttpInv'
  <1>1. sent' = sent /\ r = Last
    BY DEF Given
  <1>2. Refusable(Last') /\ status' = "error" /\ served' = served
    BY <1>1 DEF Last, Refuse
  <1>3. Stage'
    BY <1>2 DEF Stage, Gone
  <1> QED
    BY <1>2, <1>3, Shared

\* A form is evaluated on its body, when all of it is there.
LEMMA BodyCall ==
    ASSUME NEW r, NEW k, Given(r, k), NEW buf \in Seq(Token), NEW h,
           MethodOf(r.line) = "POST",
           \/ k > HeadLen(r) /\ buf = SubSeq(Wire(r), HeadLen(r) + 1, k)
           \/ k = Len(Wire(r)) /\ r.body = <<>>,
           Body(buf, h, FieldMap(r), <<r.line>>)
    PROVE  HttpInv'
  <1> DEFINE map == FieldMap(r)
             w == Wire(r)
             n == Len(r.body)
  <1>1. /\ Wellformed(r) /\ k \in Nat /\ k <= Len(w) /\ Asking /\ sent' = sent /\ r = Last
        /\ rest' = SubSeq(w, k + 1, Len(w))
    BY DEF Given
  <1>2. /\ Len(w) = HeadLen(r) + n /\ HeadLen(r) \in Nat /\ w \in Seq(Token)
    BY <1>1, WireSpelt DEF Spelt
  <1>3. n \in Nat
    <2>1. r.body \in Seq(Token)
      BY <1>1 DEF Wellformed
    <2> QED
      BY <2>1
  <1>4. CASE Length \notin DOMAIN map
    <2>1. Refuse
      BY <1>4 DEF Body
    <2>2. Refusable(r)
      BY <1>4 DEF Refusable, MethodOf
    <2> QED
      BY <2>1, <2>2, Refused
  <1> HIDE DEF w
  <1>5. ASSUME Length \in DOMAIN map
        PROVE  stoi(map[Length]) = n
    BY <1>1, <1>5 DEF Wellformed
  <1>6. ASSUME k > HeadLen(r)
        PROVE  Len(SubSeq(w, HeadLen(r) + 1, k)) = k - HeadLen(r)
    <2> DEFINE c == HeadLen(r) + 1
    <2>1. Piece(w, c, k) /\ k - c + 1 = k - HeadLen(r)
      BY <1>1, <1>2, <1>6, SMTT(40) DEF Piece
    <2> HIDE DEF c
    <2>2. Len(SubSeq(w, c, k)) = k - c + 1
      BY ONLY <2>1, PieceIs
    <2> QED
      BY <2>1, <2>2 DEF c
  <1>7. CASE Length \in DOMAIN map /\ Missing(buf, map)
    <2>1. Len(buf) < n
      BY <1>5, <1>7 DEF Missing
    <2>2. k > HeadLen(r) /\ buf = SubSeq(w, HeadLen(r) + 1, k)
      <3>1. r.body = <<>> => n = 0
        OBVIOUS
      <3>2. Len(buf) \in Nat
        OBVIOUS
      <3>3. r.body # <<>>
        BY <2>1, <3>1, <3>2
      <3> QED
        BY <3>3 DEF w
    <2>3. k < Len(w)
      BY <1>1, <1>2, <1>3, <1>6, <2>1, <2>2
    <2>4. Again(buf, "body", h, map, <<r.line>>)
      BY <1>7 DEF Body
    <2>5. Last' = Last /\ served' = served
      BY <1>1, <2>4 DEF Last, Again
    <2>6. Asking'
      BY <1>1, <2>4 DEF Asking, Again
    <2>7. Taken(k)'
      BY <1>1, <2>5 DEF Taken, w
    <2>8. AtBody(k)'
      BY <1>1, <2>2, <2>3, <2>4, <2>5, <2>6, <2>7 DEF AtBody, Again, w
    <2>9. Stage'
      BY <1>1, <2>8 DEF Stage
    <2> QED
      BY <2>5, <2>9, Shared
  <1>8. CASE Length \in DOMAIN map /\ ~Missing(buf, map)
    <2>1. ~(Len(buf) < n)
      BY <1>5, <1>8 DEF Missing
    <2>2. k = Len(w) /\ (buf = r.body \/ r.body = <<>>)
      <3>1. CASE k > HeadLen(r) /\ buf = SubSeq(w, HeadLen(r) + 1, k)
        <4>1. k = Len(w)
          BY <1>1, <1>2, <1>3, <1>6, <2>1, <3>1
        <4> QED
          BY <1>1, <3>1, <4>1, BodyIs DEF w
      <3> QED
        BY <3>1 DEF w
    <2>3. Analyse(buf, h, map, <<r.line>>)
      BY <1>8 DEF Body
    <2> QED
      BY <1>8, <2>2, <2>3, Analysed DEF w
  <1> QED
    BY <1>4, <1>7, <1>8

\* After the request line: all of the header lines, or nothing of them, came at once.
LEMMA HeadersCall ==
    ASSUME NEW r, NEW k, Given(r, k), Fresh, MethodOf(r.line) # "none",
           k \in {2, 3} \/ k > HeadLen(r) \/ k = Len(Wire(r)),
           NEW buf, buf = SubSeq(Wire(r), 3, k),
           Headers(buf, <<r.line>>)
    PROVE  HttpInv'
  <1> DEFINE w == Wire(r)
             s == Scanned[buf][Len(buf)]
             left == SubSeq(buf, s.begin, Len(buf))
             l == <<r.line>>
  <1>1. /\ Wellformed(r) /\ k \in Nat /\ k <= Len(w) /\ Asking /\ sent' = sent /\ r = Last
        /\ rest' = SubSeq(w, k + 1, Len(w))
    BY DEF Given
  <1>2. l[1] = r.line
    OBVIOUS
  <1>3. IF s.error THEN Refuse
        ELSE IF s.h # "end_lf" THEN Again(left, "headers", s.h, s.headers, l)
        ELSE IF MethodOf(r.line) = "POST" THEN Body(left, s.h, s.headers, l)
        ELSE Analyse(left, s.h, s.headers, l)
    BY <1>2 DEF Headers
  <1>4. /\ Len(w) = HeadLen(r) + Len(r.body) /\ HeadLen(r) \in Nat /\ HeadLen(r) > 10
        /\ w \in Seq(Token) /\ w[3] = "LF"
    BY <1>1, WireSpelt DEF Spelt
  <1>b. Len(r.body) \in Nat
    <2>1. r.body \in Seq(Token)
      BY <1>1 DEF Wellformed
    <2> QED
      BY <2>1
  <1> HIDE DEF s, left
  <1>5. CASE k \in {2, 3}
    <2>1. buf \in {<<>>, <<"LF">>}
      <3>1. CASE k = 2
        <4>1. SubSeq(w, 3, 2) = <<>>
          <5>1. 3 \in Int /\ 2 \in Int /\ 2 < 3
            OBVIOUS
          <5> QED
            BY <5>1, SubSeqEmpty
        <4> QED
          BY <3>1, <4>1
      <3>2. CASE k = 3
        <4>1. 3 \in Nat /\ 3 > 0 /\ 3 <= Len(w)
          BY <1>1, <3>2
        <4>2. SubSeq(w, 3, 3) = <<w[3]>>
          BY <1>4, <4>1, Alone
        <4> QED
          BY <1>4, <3>2, <4>2
      <3> QED
        BY <1>5, <3>1, <3>2
    <2>2. s.error = FALSE /\ s.h = "start" /\ s.headers = NoHeaders /\ left = buf
      BY <2>1, NoHead DEF s, left
    <2>3. Again(buf, "headers", "start", NoHeaders, l)
      BY <1>3, <2>2
    <2>4. Last' = Last /\ served' = served
      BY <1>1, <2>3 DEF Last, Again
    <2>5. Asking'
      BY <1>1, <2>3 DEF Asking, Again
    <2>6. Taken(k)'
      BY <1>1, <2>4 DEF Taken
    <2>7. AtHeaders(k)'
      BY <1>1, <1>5, <2>3, <2>4, <2>5, <2>6 DEF AtHeaders, Again, Fresh
    <2>8. Stage'
      BY <1>1, <2>7 DEF Stage
    <2> QED
      BY <2>4, <2>8, Shared
  <1>6. CASE k \notin {2, 3}
    <2>0. k > HeadLen(r) \/ k = Len(Wire(r))
      BY <1>6
    <2>1. /\ s.error = FALSE /\ s.h = "end_lf" /\ s.headers = FieldMap(r)
          /\ left \in Seq(Token)
          /\ k > HeadLen(r) => left = SubSeq(w, HeadLen(r) + 1, k)
      <3>1. /\ Wellformed(r) /\ k \in Nat /\ k <= Len(Wire(r)) /\ Fresh
            /\ k > HeadLen(r) \/ k = Len(Wire(r))
            /\ buf = SubSeq(Wire(r), 3, k)
        BY <1>1, <2>0
      <3>2. s = Scanned[buf][Len(buf)] /\ left = SubSeq(buf, s.begin, Len(buf))
        BY DEF s, left
      <3>3. Ended(s, r, s.begin)
        BY ONLY <3>1, <3>2, WholeHead, Zenon
      <3>6. left \in Seq(Token)
        BY ONLY <3>1, <3>2, WholeHead, Zenon
      <3>7. ASSUME k > HeadLen(r) PROVE left = SubSeq(Wire(r), HeadLen(r) + 1, k)
        BY ONLY <3>1, <3>2, <3>7, WholeHead, Zenon
      <3> QED
        BY <3>3, <3>6, <3>7 DEF Ended
    <2>2. k > HeadLen(r) \/ (k = Len(w) /\ r.body = <<>>)
      <3>1. CASE ~(k > HeadLen(r))
        <4>1. k = Len(w) /\ Len(r.body) = 0
          BY <1>1, <1>4, <1>b, <2>0, <3>1
        <4>2. r.body \in Seq(Token)
          BY <1>1 DEF Wellformed
        <4> QED
          BY <4>1, <4>2
      <3> QED
        BY <3>1
    <2>3. CASE MethodOf(r.line) = "POST"
      <3>1. Body(left, s.h, FieldMap(r), l)
        BY <1>3, <2>1, <2>3
      <3> QED
        BY <2>1, <2>2, <2>3, <3>1, BodyCall
    <2>4. CASE MethodOf(r.line) # "POST"
      <3>1. Analyse(left, s.h, FieldMap(r), l)
        BY <1>3, <2>1, <2>4
      <3>2. r.line \in {"GET page", "POST form", "POST none"} => k = Len(Wire(r))
        <4> SUFFICES ASSUME r.line \in {"GET page", "POST form", "POST none"} PROVE k = Len(w)
          OBVIOUS
        <4>1. r.line = "GET page"
          BY <2>4 DEF MethodOf
        <4>2. r.body = <<>>
          BY <1>1, <4>1 DEF Wellformed
        <4>3. Len(r.body) = 0
          BY ONLY <4>2
        <4>4. k \in Nat /\ k <= Len(w) /\ (k > HeadLen(r) \/ k = Len(w))
          BY <1>1, <2>0
        <4> QED
          BY ONLY <1>4, <4>3, <4>4
      <3> QED
        BY <2>1, <2>4, <3>1, <3>2, Analysed
    <2> QED
      BY <2>3, <2>4
  <1> QED
    BY <1>5, <1>6

\* The beginning of a piece is a piece.
LEMMA PieceStart ==
    ASSUME NEW w, NEW a, NEW k, Piece(w, a, k), NEW n \in Nat, n <= k - a + 1
    PROVE  SubSeq(SubSeq(w, a, k), 1, n) = SubSeq(w, a, a + n - 1)
  <1> DEFINE t == SubSeq(w, a, k)
             o == 1
             e == a + n - 1
             m == k - a + 1
             x == SubSeq(t, o, n)
             y == SubSeq(w, a, e)
  <1>1. t \in Seq(Token) /\ Len(t) = m /\ \A i \in 1..m : t[i] = w[a + i - 1]
    BY PieceIs
  <1>2. /\ w \in Seq(Token) /\ a \in Nat /\ a > 0 /\ k \in Nat /\ k <= Len(w) /\ m \in Nat
        /\ e \in Nat /\ a <= e + 1 /\ e <= k /\ n <= m /\ e - a + 1 = n /\ n - o + 1 = n
        /\ o \in Nat /\ o > 0 /\ o <= n + 1 /\ \A i : i \in 1..n => o + i - 1 = i /\ i \in 1..m
    BY DEF Piece
  <1> HIDE DEF t, o, e, m
  <1>3. Piece(t, o, n) /\ Piece(w, a, e)
    BY ONLY <1>1, <1>2, n \in Nat DEF Piece
  <1>4. x \in Seq(Token) /\ Len(x) = n - o + 1 /\ \A i \in 1..(n - o + 1) : x[i] = t[o + i - 1]
    BY ONLY <1>3, PieceIs DEF x
  <1>5. y \in Seq(Token) /\ Len(y) = e - a + 1 /\ \A i \in 1..(e - a + 1) : y[i] = w[a + i - 1]
    BY ONLY <1>3, PieceIs DEF y
  <1> HIDE DEF x, y
  <1>6. x \in Seq(Token) /\ Len(x) = n /\ \A i \in 1..n : x[i] = w[a + i - 1]
    BY ONLY <1>1, <1>2, <1>4
  <1>7. y \in Seq(Token) /\ Len(y) = n /\ \A i \in 1..n : y[i] = w[a + i - 1]
    BY ONLY <1>2, <1>5
  <1>8. x = y
    BY ONLY <1>6, <1>7, SeqEqual
  <1> QED
    BY <1>8 DEF x, y, t, o, e

\* What a call reads: j tokens were read, n more arrive, and the buffer holds the
\* request from place a.
LEMMA Reads ==
    ASSUME HttpInv, Asking, NEW j, Taken(j), NEW a, Piece(Wire(Last), a, j),
           inBuffer = SubSeq(Wire(Last), a, j), Wellformed(Last), Last \in Requests,
           Cuts = "safe", NEW n \in 1..Len(rest), Read(n)
    PROVE  /\ j + n > j /\ inBuffer \o SubSeq(rest, 1, n) = SubSeq(Wire(Last), a, j + n)
           /\ Given(Last, j + n)
           /\ j + n <= 3 \/ j + n > HeadLen(Last) \/ j + n = Len(Wire(Last))
  <1> DEFINE w == Wire(Last)
             b == j + 1
             k == j + n
             l == Len(w)
             c == n + 1
  <1>1. /\ w \in Seq(Token) /\ l \in Nat /\ j \in Nat /\ j <= l /\ rest = SubSeq(w, b, l)
        /\ a \in Nat /\ a > 0 /\ a <= j + 1 /\ b \in Nat /\ b > 0
    BY DEF Piece, Taken
  <1>2. /\ sent' = sent /\ rest' = SubSeq(rest, c, Len(rest)) /\ n <= Len(rest)
        /\ MayEnd(Last, l - Len(rest) + n)
    BY DEF Read, Last
  <1>b. b = j + 1 /\ k = j + n /\ c = n + 1 /\ n \in Int /\ n >= 1
    OBVIOUS
  <1>w. Len(LineText(Last)) = 3 /\ Len(HeadText(Last)) = HeadLen(Last) /\ Len(Wire(Last)) = l
    BY WireSpelt
  <1> HIDE DEF w, l, b, c, k
  <1>3. Piece(w, b, l)
    BY <1>1, <1>b DEF Piece, l
  <1>4. Len(rest) = l - b + 1
    BY ONLY <1>1, <1>3, PieceIs
  <1>5. /\ k \in Nat /\ k <= l /\ n \in Nat /\ n <= l - b + 1 /\ b + n - 1 = k /\ l - Len(rest) + n = k
        /\ c \in Nat /\ c > 0 /\ b + c <= l + 2 /\ b + c - 1 = k + 1 /\ j < k
    BY ONLY <1>1, <1>2, <1>4, <1>b
  <1>6. SubSeq(rest, 1, n) = SubSeq(w, b, k)
    <2>1. SubSeq(SubSeq(w, b, l), 1, n) = SubSeq(w, b, b + n - 1)
      BY ONLY <1>1, <1>3, <1>5, PieceStart
    <2> QED
      BY ONLY <1>1, <1>5, <2>1
  <1>7. rest' = SubSeq(w, k + 1, l)
    <2>1. SubSeq(SubSeq(w, b, l), c, Len(SubSeq(w, b, l))) = SubSeq(w, b + c - 1, l)
      BY ONLY <1>1, <1>3, <1>5, PieceOfPiece
    <2> QED
      BY ONLY <1>1, <1>2, <1>5, <2>1
  <1>8. inBuffer \o SubSeq(rest, 1, n) = SubSeq(w, a, k)
    <2>1. Piece(w, a, j) /\ Piece(w, j + 1, k)
      BY <1>1, <1>5, <1>b DEF Piece, w, l
    <2>2. SubSeq(w, a, j) \o SubSeq(w, j + 1, k) = SubSeq(w, a, k)
      BY ONLY <2>1, PiecesMeet
    <2> QED
      BY <1>6, <1>b, <2>2 DEF w
  <1>9. Given(Last, k)
    BY <1>2, <1>5, <1>7 DEF Given, w, l
  <1>10. k <= 3 \/ k > HeadLen(Last) \/ k = l
    BY <1>2, <1>5, <1>w DEF MayEnd
  <1> QED
    BY <1>5, <1>8, <1>9, <1>10 DEF w, l, k

\* The call that goes on in the request line.
LEMMA UriCall ==
    ASSUME NEW r, NEW k, Given(r, k), Fresh, k # 0,
           k <= 3 \/ k > HeadLen(r) \/ k = Len(Wire(r)),
           NEW buf, buf = SubSeq(Wire(r), 1, k), Uri(buf)
    PROVE  HttpInv'
  <1> DEFINE cr == CHOOSE i \in CRs(buf) : \A j \in CRs(buf) : i <= j
             l == LineIn(SubSeq(buf, 1, cr - 1))
             behind == SubSeq(buf, cr + 1, Len(buf))
  <1>1. /\ Wellformed(r) /\ k \in Nat /\ k <= Len(Wire(r)) /\ Asking /\ sent' = sent /\ r = Last
        /\ rest' = SubSeq(Wire(r), k + 1, Len(Wire(r)))
    BY DEF Given
  <1>2. IF CRs(buf) = {} THEN Again(buf, "uri", h_state, headers, line)
        ELSE IF l = <<>> THEN Refuse ELSE Headers(behind, l)
    BY DEF Uri
  <1> HIDE DEF cr, l, behind
  <1>3. CASE k = 1
    <2>1. CRs(buf) = {}
      BY <1>1, <1>3, NoLine
    <2>2. Again(buf, "uri", h_state, headers, line)
      BY <1>2, <2>1
    <2>3. Last' = Last /\ served' = served
      BY <1>1, <2>2 DEF Last, Again
    <2>4. Asking'
      BY <1>1, <2>2 DEF Asking, Again
    <2>5. Taken(k)'
      BY <1>1, <2>3 DEF Taken
    <2>6. AtLine(k)'
      BY <1>1, <1>3, <2>2, <2>3, <2>4, <2>5 DEF AtLine, Again, Fresh
    <2>7. Stage'
      BY <1>1, <2>6 DEF Stage
    <2> QED
      BY <2>3, <2>7, Shared
  <1>4. CASE k # 1
    <2>1. k >= 2
      BY <1>1, <1>4
    <2>2. /\ CRs(buf) # {} /\ behind = SubSeq(Wire(r), 3, k)
          /\ l = IF MethodOf(r.line) = "none" THEN <<>> ELSE <<r.line>>
      <3>1. /\ Wellformed(r) /\ k \in Nat /\ k >= 2 /\ k <= Len(Wire(r))
            /\ buf = SubSeq(Wire(r), 1, k)
        BY <1>1, <2>1
      <3>2. cr = FirstCR(buf)
        BY DEF cr, FirstCR
      <3>3. /\ CRs(buf) # {}
            /\ LineIn(SubSeq(buf, 1, FirstCR(buf) - 1))
                = IF MethodOf(r.line) = "none" THEN <<>> ELSE <<r.line>>
            /\ SubSeq(buf, FirstCR(buf) + 1, Len(buf)) = SubSeq(Wire(r), 3, k)
        BY ONLY <3>1, LineFound
      <3> QED
        BY <3>2, <3>3 DEF l, behind
    <2>3. CASE MethodOf(r.line) = "none"
      <3>1. Refuse
        BY <1>2, <2>2, <2>3
      <3>2. Refusable(r)
        BY <2>3 DEF Refusable, MethodOf
      <3> QED
        BY <3>1, <3>2, Refused
    <2>4. CASE MethodOf(r.line) # "none"
      <3>1. Headers(behind, <<r.line>>)
        BY <1>2, <2>2, <2>4
      <3>2. k \in {2, 3} \/ k > HeadLen(r) \/ k = Len(Wire(r))
        BY <1>1, <2>1
      <3> QED
        BY <2>2, <2>4, <3>1, <3>2, HeadersCall
    <2> QED
      BY <2>3, <2>4
  <1> QED
    BY <1>3, <1>4

LEMMA LastIs ==
    ASSUME HttpInv, sent # <<>>
    PROVE  Last \in Requests /\ Wellformed(Last)
  <1>1. sent \in Seq(Requests)
    BY DEF HttpInv
  <1>2. Len(sent) \in Nat /\ Len(sent) \in 1..Len(sent)
    BY <1>1
  <1>3. Last \in Requests
    BY <1>1, <1>2, ElementOfSeq DEF Last
  <1> QED
    BY <1>3, RequestsAssumption

LEMMA ReadKeeps ==
    ASSUME HttpInv, Cuts = "safe", NEW n \in 1..Len(rest), Read(n)
    PROVE  HttpInv'
  <1>1. /\ status = "open" /\ ~out /\ rest # <<>>
        /\ \/ state = "uri" /\ Uri(inBuffer \o SubSeq(rest, 1, n))
           \/ state = "headers" /\ Headers(inBuffer \o SubSeq(rest, 1, n), line)
           \/ state = "body" /\ Body(inBuffer \o SubSeq(rest, 1, n), h_state, headers, line)
    <2>1. rest # <<>>
      OBVIOUS
    <2>2. status = "open" /\ ~out
      BY DEF Read
    <2>3. \/ state = "uri" /\ Uri(inBuffer \o SubSeq(rest, 1, n))
          \/ state = "headers" /\ Headers(inBuffer \o SubSeq(rest, 1, n), line)
          \/ state = "body" /\ Body(inBuffer \o SubSeq(rest, 1, n), h_state, headers, line)
      BY DEF Read
    <2> QED
      BY <2>1, <2>2, <2>3
  <1>2. PICK j \in Nat : AtLine(j) \/ AtHeaders(j) \/ AtBody(j)
    <2>1. Stage
      BY DEF HttpInv
    <2> QED
      BY <1>1, <2>1 DEF Stage, Idle, Ending, Lost, Gone
  <1>3. Asking /\ Taken(j)
    BY <1>2 DEF AtLine, AtHeaders, AtBody
  <1>4. Last \in Requests /\ Wellformed(Last)
    <2>1. sent # <<>>
      <3>1. Len(sent) = Len(served) + 1 /\ Len(served) \in Nat
        BY <1>3 DEF Asking, HttpInv
      <3> QED
        BY <3>1
    <2> QED
      BY <2>1, LastIs
  <1> DEFINE w == Wire(Last)
             k == j + n
             buf == inBuffer \o SubSeq(rest, 1, n)
  <1>5. /\ w \in Seq(Token) /\ Len(w) >= HeadLen(Last) /\ HeadLen(Last) \in Nat
        /\ HeadLen(Last) > 10 /\ j <= Len(w) /\ Len(w) \in Nat
    <2>1. w \in Seq(Token) /\ Len(w) = HeadLen(Last) + Len(Last.body)
          /\ HeadLen(Last) \in Nat /\ HeadLen(Last) > 10
      BY <1>4, WireSpelt DEF Spelt
    <2>2. Last.body \in Seq(Token)
      BY <1>4 DEF Wellformed
    <2>3. Len(Last.body) \in Nat
      BY <2>2
    <2>4. j <= Len(w)
      BY <1>3 DEF Taken
    <2> QED
      BY <2>1, <2>3, <2>4
  <1>6. CASE AtLine(j)
    <2>1. inBuffer = SubSeq(w, 1, j) /\ Piece(w, 1, j)
      BY <1>5, <1>6 DEF AtLine, Piece
    <2>2. /\ k > j /\ buf = SubSeq(w, 1, k) /\ Given(Last, k)
          /\ k <= 3 \/ k > HeadLen(Last) \/ k = Len(w)
      BY <1>3, <1>4, <2>1, Reads
    <2>3. Fresh /\ Uri(buf) /\ k # 0
      BY <1>1, <1>6, <2>2 DEF AtLine
    <2> HIDE DEF buf, k, w
    <2> QED
      BY <2>2, <2>3, UriCall DEF w
  <1>7. CASE AtHeaders(j)
    <2>1. inBuffer = SubSeq(w, 3, j) /\ Piece(w, 3, j)
      BY <1>5, <1>7 DEF AtHeaders, Piece
    <2>2. /\ k > j /\ buf = SubSeq(w, 3, k) /\ Given(Last, k)
          /\ k <= 3 \/ k > HeadLen(Last) \/ k = Len(w)
      BY <1>3, <1>4, <2>1, Reads
    <2>3. Fresh /\ Headers(buf, <<Last.line>>) /\ MethodOf(Last.line) # "none"
      BY <1>1, <1>7 DEF AtHeaders
    <2>4. k \in {2, 3} \/ k > HeadLen(Last) \/ k = Len(w)
      BY <1>7, <2>2 DEF AtHeaders
    <2> HIDE DEF buf, k, w
    <2> QED
      BY <2>2, <2>3, <2>4, HeadersCall DEF w
  <1>8. CASE AtBody(j)
    <2> DEFINE a == HeadLen(Last) + 1
    <2>1. inBuffer = SubSeq(w, a, j) /\ Piece(w, a, j) /\ j > HeadLen(Last)
      BY <1>5, <1>8 DEF AtBody, Piece
    <2>2. /\ k > j /\ buf = SubSeq(w, a, k) /\ Given(Last, k)
      <3> HIDE DEF a
      <3> QED
        BY <1>3, <1>4, <2>1, Reads
    <2>3. /\ Body(buf, h_state, FieldMap(Last), <<Last.line>>)
          /\ MethodOf(Last.line) = "POST"
      BY <1>1, <1>8 DEF AtBody
    <2>4. k > HeadLen(Last) /\ k \in Nat
      BY <1>5, <2>1, <2>2
    <2>5. buf \in Seq(Token)
      <3>1. Piece(w, a, k)
        BY <1>5, <2>2, <2>4 DEF Piece, Given
      <3> HIDE DEF a, w, k, buf
      <3> QED
        BY ONLY <2>2, <3>1, PieceIs
    <2> HIDE DEF buf, k
    <2> QED
      BY <2>2, <2>3, <2>4, <2>5, BodyCall
  <1> QED
    BY <1>2, <1>6, <1>7, <1>8

LEMMA SendKeeps ==
    ASSUME HttpInv, NEW r \in Requests, Send(r)
    PROVE  HttpInv'
  <1> DEFINE w == Wire(r)
             o == 1
             l == Len(w)
  <1>1. /\ status = "open" /\ ~out /\ Len(served) = Len(sent) /\ sent \in Seq(Requests)
        /\ served \in Seq(Answers) /\ Len(served) \in Nat
        /\ \A i \in 1..Len(served) : Right(served[i], sent[i])
        /\ sent' = Append(sent, r) /\ rest' = w /\ status' = status /\ out' = out
        /\ UNCHANGED <<inBuffer, state, h_state, headers, line, served>>
    BY DEF Send, HttpInv, parser
  <1>2. Idle
    <2>1. Stage
      BY DEF HttpInv
    <2>2. ~Asking
      BY <1>1 DEF Asking
    <2> QED
      BY <1>1, <2>1, <2>2 DEF Stage, AtLine, AtHeaders, AtBody, Ending, Lost, Gone
  <1>3. Wellformed(r)
    BY RequestsAssumption
  <1>4. /\ sent' \in Seq(Requests) /\ Len(sent') = Len(sent) + 1
        /\ \A i \in 1..Len(sent) : sent'[i] = sent[i]
        /\ sent'[Len(sent) + 1] = r
    BY <1>1, Adds
  <1>5. Last' = r /\ Asking'
    BY <1>1, <1>4 DEF Last, Asking
  <1>6. w \in Seq(Token) /\ l \in Nat
    BY <1>3, WireSpelt DEF Spelt
  <1>7. SubSeq(w, 0 + 1, l) = w /\ SubSeq(w, 1, 0) = <<>>
    BY <1>6
  <1> HIDE DEF w, l
  <1>8. Taken(0)'
    BY <1>1, <1>5, <1>6, <1>7 DEF Taken, w, l
  <1>9. AtLine(0)'
    BY <1>1, <1>2, <1>5, <1>7, <1>8 DEF AtLine, Idle, Fresh, w
  <1>10. Stage'
    BY <1>9 DEF Stage
  <1>11. \A i \in 1..Len(served') : Right(served'[i], sent'[i])
    BY <1>1, <1>4
  <1>12. Len(served') <= Len(sent') /\ served' \in Seq(Answers)
    BY <1>1, <1>4
  <1> QED
    BY ONLY <1>4, <1>10, <1>11, <1>12 DEF HttpInv

LEMMA WriteKeeps ==
    ASSUME HttpInv, Write
    PROVE  HttpInv'
  <1>1. /\ status = "open" /\ out /\ ~out' /\ Stage
        /\ status' = IF keep_alive THEN "open" ELSE "closed"
        /\ UNCHANGED <<sent, rest, inBuffer, state, h_state, headers, line, keep_alive, served>>
    BY DEF Write, HttpInv, parser
  <1>2. Idle \/ Ending
    BY <1>1 DEF Stage, AtLine, AtHeaders, AtBody, Asking, Lost, Gone
  <1>3. Idle' \/ Gone'
    BY <1>1, <1>2 DEF Idle, Ending, Gone, Fresh
  <1> QED
    BY <1>1, <1>3 DEF HttpInv, Stage

LEMMA RestKeeps ==
    ASSUME HttpInv, UNCHANGED vars
    PROVE  HttpInv'
  <1>1. UNCHANGED <<sent, rest, inBuffer, state, h_state, headers, line, keep_alive,
                    status, out, served>>
    BY DEF vars, parser
  <1>2. \A k : AtLine(k)' = AtLine(k) /\ AtHeaders(k)' = AtHeaders(k) /\ AtBody(k)' = AtBody(k)
    BY <1>1 DEF AtLine, AtHeaders, AtBody, Asking, Taken, Last, Fresh
  <1>3. Idle' = Idle /\ Ending' = Ending /\ Lost' = Lost /\ Gone' = Gone
    BY <1>1 DEF Idle, Ending, Lost, Gone, Asking, Last, Fresh
  <1>4. Stage'
    <2>1. Stage
      BY DEF HttpInv
    <2> QED
      BY <1>2, <1>3, <2>1 DEF Stage
  <1> QED
    BY <1>1, <1>4 DEF HttpInv

\* A connection whose segments end where the code can take it is always at a known place
\* of a known request - before its line, in its headers, in its body, or between two
\* requests - and every answer so far is right (requestData::handleRequest).
THEOREM HttpInvariant ==
    ASSUME Cuts = "safe"
    PROVE  Spec => []HttpInv
  <1>1. Init => HttpInv
    <2> SUFFICES ASSUME Init PROVE HttpInv
      OBVIOUS
    <2>1. Idle
      BY DEF Init, Idle, Fresh
    <2>2. /\ sent \in Seq(Requests) /\ served \in Seq(Answers) /\ Len(served) = 0
          /\ Len(sent) = 0 /\ 1..Len(served) = {}
      <3>1. sent = <<>> /\ served = <<>>
        BY DEF Init
      <3>2. 1..0 = {}
        OBVIOUS
      <3> QED
        BY <3>1, <3>2, EmptySeq
    <2> QED
      BY <2>1, <2>2 DEF HttpInv, Stage
  <1>2. HttpInv /\ [Next]_vars => HttpInv'
    <2> SUFFICES ASSUME HttpInv, [Next]_vars PROVE HttpInv'
      OBVIOUS
    <2>1. CASE \E r \in Requests : Send(r)
      BY <2>1, SendKeeps
    <2>2. CASE \E n \in 1..Len(rest) : Read(n)
      BY <2>2, ReadKeeps
    <2>3. CASE Write
      BY <2>3, WriteKeeps
    <2>4. CASE UNCHANGED vars
      BY <2>4, RestKeeps
    <2> QED
      BY <2>1, <2>2, <2>3, <2>4 DEF Next
  <1> QED
    BY <1>1, <1>2, PTL DEF Spec

\* Every answer is to the request sent in its place, with exactly the header map that
\* request had, when segments end where the code can take it (RequestData.cpp:479-595).
THEOREM HeadersAreKept ==
    ASSUME Cuts = "safe"
    PROVE  Spec => []HeadersKept
  <1>1. HttpInv => HeadersKept
    BY DEF HttpInv, HeadersKept, Right
  <1> QED
    BY <1>1, HttpInvariant, PTL

\* A form is evaluated on the body that was sent (RequestData.cpp:250-269, 650-663).
THEOREM BodiesAreKept ==
    ASSUME Cuts = "safe"
    PROVE  Spec => []BodyKept
  <1>1. HttpInv => BodyKept
    BY DEF HttpInv, BodyKept, Right
  <1> QED
    BY <1>1, HttpInvariant, PTL

\* No request is refused that should be served (RequestData.cpp:417-425, 252-263).
THEOREM OnlyBadAreRefused ==
    ASSUME Cuts = "safe"
    PROVE  Spec => []OnlyBadRefused
  <1>1. HttpInv => OnlyBadRefused
    <2> SUFFICES ASSUME HttpInv, status = "error" PROVE Refusable(Last)
      BY DEF OnlyBadRefused, Last
    <2>1. Stage
      BY DEF HttpInv
    <2> QED
      BY <2>1 DEF Stage, AtLine, AtHeaders, AtBody, Asking, Idle, Ending, Lost, Gone
  <1> QED
    BY <1>1, HttpInvariant, PTL

\* The call that reads the last byte of a request answers or refuses it, but for a form
\* no handler knows (RequestData.cpp:265, 729).
THEOREM CompleteAreServed ==
    ASSUME Cuts = "safe"
    PROVE  Spec => []CompleteIsServed
  <1>1. HttpInv => CompleteIsServed
    <2> SUFFICES ASSUME HttpInv, rest = <<>>, status = "open"
                 PROVE  Len(served) = Len(sent) \/ Last.line = "POST none"
      BY DEF CompleteIsServed, Last
    <2>1. Stage
      BY DEF HttpInv
    <2>2. ASSUME NEW k \in Nat, AtLine(k) \/ AtHeaders(k) \/ AtBody(k) PROVE FALSE
      <3>1. Asking /\ Taken(k)
        BY <2>2 DEF AtLine, AtHeaders, AtBody
      <3>2. Wellformed(Last)
        <4>1. Len(sent) = Len(served) + 1 /\ Len(served) \in Nat
          BY <3>1 DEF Asking, HttpInv
        <4>2. sent # <<>>
          BY <4>1
        <4> QED
          BY <4>2, LastIs
      <3> DEFINE w == Wire(Last)
                 b == k + 1
                 l == Len(w)
      <3>3. /\ w \in Seq(Token) /\ l >= HeadLen(Last) /\ HeadLen(Last) > 10
            /\ HeadLen(Last) \in Nat /\ l \in Nat
        <4>1. w \in Seq(Token) /\ l = HeadLen(Last) + Len(Last.body)
              /\ HeadLen(Last) \in Nat /\ HeadLen(Last) > 10
          BY <3>2, WireSpelt DEF Spelt
        <4>2. Last.body \in Seq(Token)
          BY <3>2 DEF Wellformed
        <4>3. Len(Last.body) \in Nat
          BY <4>2
        <4> QED
          BY <4>1, <4>3
      <3>4. k < l
        BY <2>2, <3>3 DEF AtLine, AtHeaders, AtBody
      <3>5. rest = SubSeq(w, b, l) /\ b = k + 1
        BY <3>1 DEF Taken
      <3> HIDE DEF w, b, l
      <3>6. Piece(w, b, l) /\ l - b + 1 > 0
        BY <3>3, <3>4, <3>5 DEF Piece, l
      <3>7. Len(SubSeq(w, b, l)) = l - b + 1
        BY ONLY <3>6, PieceIs
      <3>8. Len(rest) > 0
        BY ONLY <3>5, <3>6, <3>7
      <3> QED
        BY <3>8
    <2>3. Idle \/ Ending \/ Lost \/ Gone
      BY <2>1, <2>2 DEF Stage
    <2> QED
      BY <2>3 DEF Idle, Ending, Lost, Gone
  <1> QED
    BY <1>1, HttpInvariant, PTL

===============================================================================
