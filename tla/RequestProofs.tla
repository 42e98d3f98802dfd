---------------------------- MODULE RequestProofs ----------------------------
(***************************************************************************)
(* What the shareholder parses is what the client sent, for every set of   *)
(* requests, every number of connections and every buffer that a good body *)
(* fits in: the buffer of a request holds a prefix of its body, and the    *)
(* parsers look no further than that prefix reaches.  Hence the handler    *)
(* implements ShareServer, which takes every request whole.                *)
(***************************************************************************)
EXTENDS RequestRefinement, SequenceTheorems, TLAPS

Fields == {"party_index", "x", "share_hex", "ct_hex", "digit", "end"}
Symbol == [field : Fields, v : Int]

(* How many of the first n symbols of a body the buffer keeps.             *)
Cut(n) == IF n < MaxBody THEN n ELSE MaxBody - 1

(* b is what the buffer keeps of the first n symbols of s.                 *)
Keeps(b, s, n) ==
  /\ b \in Seq(Symbol) /\ Len(b) = Cut(n)
  /\ \A i \in 1..Len(b) : b[i] = s[i]

(* What stands where in a concatenation.                                   *)
LEMMA ConcatAt ==
  ASSUME NEW S, NEW s \in Seq(S), NEW t \in Seq(S)
  PROVE  /\ s \o t \in Seq(S)
         /\ Len(s \o t) = Len(s) + Len(t) /\ Len(s) \in Nat /\ Len(t) \in Nat
         /\ \A i \in 1..Len(s) : (s \o t)[i] = s[i]
         /\ \A i \in 1..Len(t) : (s \o t)[Len(s) + i] = t[i]
BY ConcatProperties, LenProperties

(* How many numbers stand in front, and which.                             *)
Before(r) == (IF r.party = Missing THEN 0 ELSE 1) + (IF r.x = Missing THEN 0 ELSE 1)

Numbers(r, s) ==
  \A i \in 1..Before(r) :
    IF r.party # Missing /\ i = 1
    THEN s[i].field = "party_index"
    ELSE s[i].field = "x" /\ s[i].v = r.x

LEMMA NumberIs ==
  ASSUME NEW field \in Fields, NEW v, v = Missing \/ v \in Int
  PROVE  /\ Number(field, v) \in Seq(Symbol)
         /\ Len(Number(field, v)) = IF v = Missing THEN 0 ELSE 1
         /\ v # Missing => Number(field, v)[1].field = field /\ Number(field, v)[1].v = v
<1>1. CASE v = Missing
  BY <1>1 DEF Number
<1>2. CASE v # Missing
  <2> DEFINE a == [field |-> field, v |-> v]
  <2>1. a \in Symbol /\ a.field = field /\ a.v = v
    BY <1>2 DEF Symbol
  <2> HIDE DEF a
  <2>2. <<a>> \in Seq(Symbol) /\ Len(<<a>>) = 1 /\ <<a>>[1] = a
    BY <2>1
  <2>3. Number(field, v) = <<a>>
    BY <1>2 DEF Number, a
  <2> QED BY <1>2, <2>1, <2>2, <2>3
<1> QED BY <1>1, <1>2

LEMMA NumbersLayout ==
  ASSUME NEW r \in Requests
  PROVE  LET A == Number("party_index", r.party) \o Number("x", r.x)
         IN  A \in Seq(Symbol) /\ Len(A) = Before(r) /\ Before(r) \in {0, 1, 2} /\ Numbers(r, A)
<1> DEFINE P == Number("party_index", r.party)
           X == Number("x", r.x)
<1>1. /\ P \in Seq(Symbol) /\ Len(P) = IF r.party = Missing THEN 0 ELSE 1
      /\ r.party # Missing => P[1].field = "party_index"
  <2>1. "party_index" \in Fields /\ (r.party = Missing \/ r.party \in Int)
    BY RequestAssumption DEF Fields
  <2> QED BY <2>1, NumberIs
<1>2. /\ X \in Seq(Symbol) /\ Len(X) = IF r.x = Missing THEN 0 ELSE 1
      /\ r.x # Missing => X[1].field = "x" /\ X[1].v = r.x
  <2>1. "x" \in Fields /\ (r.x = Missing \/ r.x \in Int)
    BY RequestAssumption DEF Fields
  <2> QED BY <2>1, NumberIs
<1> HIDE DEF P, X
<1>3. /\ P \o X \in Seq(Symbol) /\ Len(P \o X) = Len(P) + Len(X)
      /\ \A i \in 1..Len(P) : (P \o X)[i] = P[i]
      /\ \A i \in 1..Len(X) : (P \o X)[Len(P) + i] = X[i]
  BY <1>1, <1>2, ConcatAt
<1>4. Len(P \o X) = Before(r) /\ Before(r) \in {0, 1, 2}
  BY <1>1, <1>2, <1>3 DEF Before
<1>5. Numbers(r, P \o X)
  <2> SUFFICES ASSUME NEW i \in 1..Before(r)
               PROVE  IF r.party # Missing /\ i = 1
                      THEN (P \o X)[i].field = "party_index"
                      ELSE (P \o X)[i].field = "x" /\ (P \o X)[i].v = r.x
    BY DEF Numbers
  <2>1. CASE r.party # Missing /\ i = 1
    <3>1. 1 \in 1..Len(P)
      BY <1>1, <2>1
    <3> QED BY <1>1, <1>3, <2>1, <3>1
  <2>2. CASE ~(r.party # Missing /\ i = 1)
    <3>1. r.x # Missing /\ i = Len(P) + 1 /\ 1 \in 1..Len(X)
      BY <1>1, <1>2, <2>2 DEF Before
    <3>2. (P \o X)[i] = X[1]
      BY <1>3, <3>1
    <3> QED BY <1>2, <2>2, <3>1, <3>2
  <2> QED BY <2>1, <2>2
<1> QED BY <1>3, <1>4, <1>5 DEF P, X

(* Where the fields of a body are.                                         *)
LEMMA BodyLayout ==
  ASSUME NEW r \in Requests
  PROVE  LET o == Before(r)
             n == Len(r.hex)
         IN  /\ Body(r) \in Seq(Symbol) /\ n \in Nat /\ o \in {0, 1, 2}
             /\ Len(Body(r)) = o + (IF n = 0 THEN 0 ELSE n + 2)
             /\ Numbers(r, Body(r))
             /\ n # 0 =>
                  /\ Body(r)[o + 1].field = HexField(r.url)
                  /\ \A j \in 1..n : /\ Body(r)[o + 1 + j].field = "digit"
                                     /\ Body(r)[o + 1 + j].v = r.hex[j]
                  /\ Body(r)[o + n + 2].field = "end"
<1> DEFINE o == Before(r)
           n == Len(r.hex)
           A == Number("party_index", r.party) \o Number("x", r.x)
           T == <<Text(HexField(r.url))>>
           G == Digits(r.hex)
           E == <<Text("end")>>
           B == IF r.hex = << >> THEN << >> ELSE T \o G \o E
<1>1. r.hex \in Seq(Int) /\ n \in Nat
  BY RequestAssumption DEF HexVal
<1>2. \A f \in Fields : Text(f) \in Symbol /\ Text(f).field = f
  BY DEF Text, Symbol
<1>3. HexField(r.url) \in Fields /\ "end" \in Fields /\ "x" \in Fields /\ "digit" \in Fields
  BY DEF HexField, Fields
<1>4. A \in Seq(Symbol) /\ Len(A) = o /\ o \in {0, 1, 2} /\ Numbers(r, A)
  BY NumbersLayout
<1>5. /\ G \in Seq(Symbol) /\ Len(G) = n
      /\ \A j \in 1..n : G[j].field = "digit" /\ G[j].v = r.hex[j]
  <2>1. \A j \in 1..n : r.hex[j] \in Int
    BY <1>1
  <2>2. \A j \in 1..n : [field |-> "digit", v |-> r.hex[j]] \in Symbol
    BY <1>3, <2>1 DEF Symbol
  <2> QED BY <1>1, <2>2 DEF Digits
<1>6. T \in Seq(Symbol) /\ Len(T) = 1 /\ T[1].field = HexField(r.url)
  <2> DEFINE t == Text(HexField(r.url))
  <2>1. t \in Symbol /\ t.field = HexField(r.url)
    BY <1>2, <1>3
  <2> HIDE DEF t
  <2>2. <<t>> \in Seq(Symbol) /\ Len(<<t>>) = 1 /\ <<t>>[1] = t
    BY <2>1
  <2> QED BY <2>1, <2>2 DEF t
<1>7. E \in Seq(Symbol) /\ Len(E) = 1 /\ E[1].field = "end"
  <2> DEFINE t == Text("end")
  <2>1. t \in Symbol /\ t.field = "end"
    BY <1>2, <1>3
  <2> HIDE DEF t
  <2>2. <<t>> \in Seq(Symbol) /\ Len(<<t>>) = 1 /\ <<t>>[1] = t
    BY <2>1
  <2> QED BY <2>1, <2>2 DEF t
<1>8. r.hex = << >> <=> n = 0
  BY <1>1, EmptySeq
<1>9. Body(r) = A \o B
  BY DEF Body
<1> HIDE DEF A, T, G, E, n, o
<1>10. /\ B \in Seq(Symbol) /\ Len(B) = IF n = 0 THEN 0 ELSE n + 2
       /\ n # 0 => /\ B[1].field = HexField(r.url)
                   /\ \A j \in 1..n : B[1 + j].field = "digit" /\ B[1 + j].v = r.hex[j]
                   /\ B[n + 2].field = "end"
  <2>1. CASE n = 0
    BY <1>8, <2>1
  <2>2. CASE n # 0
    <3>1. /\ T \o G \in Seq(Symbol) /\ Len(T \o G) = 1 + n
          /\ (T \o G)[1] = T[1] /\ \A j \in 1..n : (T \o G)[1 + j] = G[j]
      <4>1. /\ T \o G \in Seq(Symbol) /\ Len(T \o G) = Len(T) + Len(G)
            /\ \A i \in 1..Len(T) : (T \o G)[i] = T[i]
            /\ \A i \in 1..Len(G) : (T \o G)[Len(T) + i] = G[i]
        <5>1. T \in Seq(Symbol) /\ G \in Seq(Symbol)
          BY <1>5, <1>6
        <5> QED BY <5>1, ConcatAt
      <4> QED BY <1>1, <1>5, <1>6, <4>1
    <3> HIDE DEF B
    <3> DEFINE TG == T \o G
    <3>2. B = TG \o E
      BY <1>8, <2>2 DEF B
    <3> HIDE DEF TG
    <3>3. /\ B \in Seq(Symbol) /\ Len(B) = 1 + n + 1
          /\ \A i \in 1..(1 + n) : B[i] = TG[i]
          /\ B[1 + n + 1] = E[1]
      <4>1. TG \in Seq(Symbol) /\ Len(TG) = 1 + n
        BY <3>1 DEF TG
      <4>2. /\ TG \o E \in Seq(Symbol) /\ Len(TG \o E) = Len(TG) + Len(E)
            /\ \A i \in 1..Len(TG) : (TG \o E)[i] = TG[i]
            /\ \A i \in 1..Len(E) : (TG \o E)[Len(TG) + i] = E[i]
        <5>1. TG \in Seq(Symbol) /\ E \in Seq(Symbol)
          BY <1>7, <4>1
        <5> QED BY <5>1, ConcatAt
      <4> QED BY <1>1, <1>7, <3>2, <4>1, <4>2
    <3>4. 1 + n + 1 = n + 2 /\ 1 \in 1..(1 + n) /\ \A j \in 1..n : 1 + j \in 1..(1 + n)
      BY <1>1
    <3>5. B[1] = T[1] /\ B[n + 2] = E[1] /\ \A j \in 1..n : B[1 + j] = G[j]
      BY <3>1, <3>3, <3>4 DEF TG
    <3> QED BY <1>5, <1>6, <1>7, <2>2, <3>3, <3>4, <3>5
  <2> QED BY <2>1, <2>2
<1> HIDE DEF B
<1>11. /\ Body(r) \in Seq(Symbol) /\ Len(Body(r)) = o + Len(B)
       /\ \A i \in 1..o : Body(r)[i] = A[i]
       /\ \A i \in 1..Len(B) : Body(r)[o + i] = B[i]
  <2>1. /\ A \o B \in Seq(Symbol) /\ Len(A \o B) = Len(A) + Len(B)
        /\ \A i \in 1..Len(A) : (A \o B)[i] = A[i]
        /\ \A i \in 1..Len(B) : (A \o B)[Len(A) + i] = B[i]
    <3>1. A \in Seq(Symbol) /\ B \in Seq(Symbol)
      BY <1>4, <1>10
    <3> QED BY <3>1, ConcatAt
  <2> QED BY <1>4, <1>9, <2>1
<1>12. Numbers(r, Body(r))
  <2>1. \A i \in 1..Before(r) : Body(r)[i] = A[i]
    BY <1>11 DEF o
  <2> QED BY <1>4, <2>1 DEF Numbers
<1>13. ASSUME n # 0
       PROVE  /\ Body(r)[o + 1].field = HexField(r.url)
              /\ \A j \in 1..n : /\ Body(r)[o + 1 + j].field = "digit"
                                 /\ Body(r)[o + 1 + j].v = r.hex[j]
              /\ Body(r)[o + n + 2].field = "end"
  <2>a. /\ 1 \in 1..Len(B) /\ n + 2 \in 1..Len(B)
        /\ \A j \in 1..n : 1 + j \in 1..Len(B)
    BY <1>1, <1>10, <1>13
  <2>1. /\ Body(r)[o + 1] = B[1] /\ Body(r)[o + (n + 2)] = B[n + 2]
        /\ \A j \in 1..n : Body(r)[o + (1 + j)] = B[1 + j]
    BY <1>11, <2>a
  <2>2. \A j \in 1..n : o + (1 + j) = o + 1 + j
    BY <1>1, <1>4
  <2>3. o + (n + 2) = o + n + 2
    BY <1>1, <1>4
  <2> QED BY <1>10, <1>13, <2>1, <2>2, <2>3
<1> QED BY <1>1, <1>4, <1>10, <1>11, <1>12, <1>13 DEF n, o

LEMMA BodySeq ==
  ASSUME NEW r \in Requests
  PROVE  Body(r) \in Seq(Symbol) /\ Len(Body(r)) \in Nat
<1>1. Body(r) \in Seq(Symbol)
  BY BodyLayout
<1> QED BY <1>1

(* strstr and the copying loop, by what surrounds the place they stop at.  *)
LEMMA FieldFound ==
  ASSUME NEW b, Len(b) \in Nat, NEW field, NEW p \in 1..Len(b),
         b[p].field = field, \A j \in 1..(p - 1) : b[j].field # field
  PROVE  FieldAt(b, field) = p
<1> DEFINE First(i) == b[i].field = field /\ \A j \in 1..(i - 1) : b[j].field # field
<1>1. \A i \in 1..Len(b) : First(i) => i = p
  <2> SUFFICES ASSUME NEW i \in 1..Len(b), First(i) PROVE i = p
    OBVIOUS
  <2>1. ~(i < p)
    OBVIOUS
  <2>2. ~(p < i)
    OBVIOUS
  <2> QED BY <2>1, <2>2
<1>2. (CHOOSE i \in 1..Len(b) : First(i)) = p
  BY <1>1
<1> QED BY <1>2 DEF FieldAt

LEMMA FieldMissing ==
  ASSUME NEW b, NEW field, \A i \in 1..Len(b) : b[i].field # field
  PROVE  FieldAt(b, field) = 0
BY DEF FieldAt

(* The n values behind place i.                                            *)
Copied(b, i, n) == [j \in 1..n |-> b[i + j].v]

LEMMA RunFound ==
  ASSUME NEW b, Len(b) \in Nat, NEW i \in 1..Len(b), NEW n \in 0..(Len(b) - i),
         \A j \in 1..n : b[i + j].field = "digit",
         n < Len(b) - i => b[i + n + 1].field # "digit",
         NEW max
  PROVE  StringAt(b, i, max) = Copied(b, i, IF n < max THEN n ELSE max)
<1> DEFINE Run(k) == /\ \A j \in 1..k : b[i + j].field = "digit"
                     /\ k < Len(b) - i => b[i + k + 1].field # "digit"
<1>1. \A k \in 0..(Len(b) - i) : Run(k) => k = n
  <2> SUFFICES ASSUME NEW k \in 0..(Len(b) - i), Run(k) PROVE k = n
    OBVIOUS
  <2>1. ASSUME k < n PROVE FALSE
    <3>1. k + 1 \in 1..n /\ i + (k + 1) = i + k + 1
      BY <2>1
    <3>2. b[i + (k + 1)].field = "digit"
      BY <3>1
    <3>3. b[i + k + 1].field # "digit"
      BY <2>1
    <3> QED BY <3>1, <3>2, <3>3
  <2>2. ASSUME n < k PROVE FALSE
    <3>1. n + 1 \in 1..k /\ i + (n + 1) = i + n + 1
      BY <2>2
    <3>2. b[i + (n + 1)].field = "digit"
      BY <3>1
    <3>3. b[i + n + 1].field # "digit"
      BY <2>2
    <3> QED BY <3>1, <3>2, <3>3
  <2> QED BY <2>1, <2>2
<1>2. (CHOOSE k \in 0..(Len(b) - i) : Run(k)) = n
  BY <1>1
<1> QED BY <1>2 DEF StringAt, Copied

(* A number is found exactly when the client sent one, x with its value.   *)
LEMMA ParsedNumbers ==
  ASSUME NEW r \in Requests, NEW b, Keeps(b, Body(r), Len(Body(r)))
  PROVE  /\ FieldAt(b, "party_index") # 0 <=> r.party # Missing
         /\ FieldAt(b, "x") # 0 <=> r.x # Missing
         /\ FieldAt(b, "x") # 0 => b[FieldAt(b, "x")].v = r.x
<1> DEFINE o == Before(r)
           n == Len(r.hex)
<1>1. /\ Body(r) \in Seq(Symbol) /\ n \in Nat /\ o \in {0, 1, 2}
      /\ Len(Body(r)) = o + (IF n = 0 THEN 0 ELSE n + 2)
      /\ Numbers(r, Body(r))
      /\ n # 0 => /\ Body(r)[o + 1].field = HexField(r.url)
                  /\ \A j \in 1..n : Body(r)[o + 1 + j].field = "digit"
                  /\ Body(r)[o + n + 2].field = "end"
  BY BodyLayout
<1>2. MaxBody \in Nat /\ MaxBody > 3
  BY LengthAssumption
<1> HIDE DEF n
<1>3. Len(b) = Cut(Len(Body(r))) /\ Len(b) \in Nat /\ Len(b) <= Len(Body(r)) /\ o <= Len(b)
  BY <1>1, <1>2 DEF Keeps, Cut
<1>4. \A i \in 1..Len(b) : b[i] = Body(r)[i]
  BY DEF Keeps
<1>5. Numbers(r, b)
  <2>1. \A i \in 1..Before(r) : b[i] = Body(r)[i]
    BY <1>1, <1>3, <1>4
  <2> QED BY <1>1, <2>1 DEF Numbers
<1>6. \A i \in 1..Len(b) : i > o => b[i].field \notin {"party_index", "x"}
  <2> SUFFICES ASSUME NEW i \in 1..Len(b), i > o
               PROVE  Body(r)[i].field \notin {"party_index", "x"}
    BY <1>4
  <2>1. n # 0 /\ i \in (o + 1)..(o + n + 2)
    BY <1>1, <1>3
  <2>2. i = o + 1 \/ i = o + n + 2 \/ (i - o - 1 \in 1..n /\ o + 1 + (i - o - 1) = i)
    <3>1. o \in Int /\ n \in Int
      BY <1>1
    <3> HIDE DEF o
    <3> QED BY <2>1, <3>1
  <2>3. Body(r)[i].field \in {HexField(r.url), "digit", "end"}
    BY <1>1, <2>1, <2>2
  <2> QED BY <2>3 DEF HexField
<1>7. FieldAt(b, "party_index") # 0 <=> r.party # Missing
  <2>1. CASE r.party # Missing
    <3>1. 1 \in 1..o /\ 1 \in 1..Len(b)
      BY <1>3, <2>1 DEF Before
    <3>2. b[1].field = "party_index" /\ \A j \in 1..(1 - 1) : b[j].field # "party_index"
      BY <1>5, <2>1, <3>1 DEF Numbers
    <3>3. FieldAt(b, "party_index") = 1
      BY <1>3, <3>1, <3>2, FieldFound
    <3> QED BY <2>1, <3>3
  <2>2. CASE r.party = Missing
    <3>1. \A i \in 1..o : b[i].field = "x"
      BY <1>5, <2>2 DEF Numbers
    <3>2. \A i \in 1..Len(b) : b[i].field # "party_index"
      BY <1>1, <1>3, <1>6, <3>1
    <3> QED BY <2>2, <3>2, FieldMissing
  <2> QED BY <2>1, <2>2
<1>8. CASE r.x # Missing
  <2>1. o \in 1..Len(b) /\ o \in 1..Before(r) /\ ~(r.party # Missing /\ o = 1)
    BY <1>1, <1>3, <1>8 DEF Before
  <2>2. b[o].field = "x" /\ b[o].v = r.x
    BY <1>5, <2>1 DEF Numbers
  <2>3. \A j \in 1..(o - 1) : b[j].field # "x"
    <3> SUFFICES ASSUME NEW j \in 1..(o - 1) PROVE b[j].field # "x"
      OBVIOUS
    <3>1. j = 1 /\ o = 2 /\ r.party # Missing /\ 1 \in 1..Before(r)
      BY <1>1 DEF Before
    <3>2. b[1].field = "party_index"
      BY <1>5, <3>1 DEF Numbers
    <3> QED BY <3>1, <3>2
  <2>4. FieldAt(b, "x") = o
    BY <1>3, <2>1, <2>2, <2>3, FieldFound
  <2> QED BY <1>1, <1>7, <1>8, <2>1, <2>2, <2>4
<1>9. CASE r.x = Missing
  <2>1. \A i \in 1..o : b[i].field = "party_index"
    BY <1>5, <1>9 DEF Numbers, Before
  <2>2. \A i \in 1..Len(b) : b[i].field # "x"
    BY <1>1, <1>3, <1>6, <2>1
  <2>3. FieldAt(b, "x") = 0
    BY <2>2, FieldMissing
  <2> QED BY <1>7, <1>9, <2>3
<1> QED BY <1>8, <1>9

(* A hex string that is long enough is decoded to its first m bytes; no    *)
(* other is, whatever the buffer cut off.                                  *)
LEMMA ParsedHex ==
  ASSUME NEW r \in Requests, NEW b, Keeps(b, Body(r), Len(Body(r))),
         NEW m \in Nat \ {0}, MaxBody > 3 + 2 * m
  PROVE  LET hex == ParseString(b, HexField(r.url), 2 * m)
         IN  /\ Decodes(hex, m) <=> StartsWith(r.hex, m)
             /\ Decodes(hex, m) => Decode(hex, m) = Decode(r.hex, m)
<1> DEFINE o == Before(r)
           n == Len(r.hex)
           f == HexField(r.url)
           hex == ParseString(b, f, 2 * m)
<1>1. /\ Body(r) \in Seq(Symbol) /\ n \in Nat /\ o \in {0, 1, 2}
      /\ Len(Body(r)) = o + (IF n = 0 THEN 0 ELSE n + 2)
      /\ Numbers(r, Body(r))
      /\ n # 0 => /\ Body(r)[o + 1].field = f
                  /\ \A j \in 1..n : /\ Body(r)[o + 1 + j].field = "digit"
                                     /\ Body(r)[o + 1 + j].v = r.hex[j]
                  /\ Body(r)[o + n + 2].field = "end"
  BY BodyLayout
<1>2. MaxBody \in Nat
  BY LengthAssumption
<1>3. f # "x" /\ f # "party_index"
  BY DEF HexField
<1>a. \A j \in 1..n : r.hex[j] \in Int
  <2>1. r.hex \in Seq(HexVal)
    BY RequestAssumption
  <2>2. \A j \in 1..n : r.hex[j] \in HexVal
    BY <2>1, ElementOfSeq
  <2>3. \A v \in HexVal : v \in Int
    BY DEF HexVal
  <2> QED BY <2>2, <2>3, Zenon
<1> HIDE DEF f, n
<1>4. Len(b) = Cut(Len(Body(r))) /\ Len(b) \in Nat /\ Len(b) <= Len(Body(r))
  BY <1>1, <1>2 DEF Keeps, Cut
<1>5. \A i \in 1..Len(b) : b[i] = Body(r)[i]
  BY DEF Keeps
<1>6. CASE n = 0
  <2>1. \A i \in 1..Len(b) : b[i].field # f
    <3> SUFFICES ASSUME NEW i \in 1..Len(b) PROVE Body(r)[i].field # f
      BY <1>5
    <3>1. i \in 1..Before(r)
      BY <1>1, <1>4, <1>6
    <3>2. Body(r)[i].field \in {"party_index", "x"}
      BY <1>1, <3>1 DEF Numbers
    <3> QED BY <1>3, <3>2
  <2>2. hex = << >>
    BY <2>1, FieldMissing DEF ParseString
  <2>3. Len(hex) = 0
    BY <2>2
  <2>4. ~Decodes(hex, m)
    BY <2>3 DEF Decodes
  <2>5. ~StartsWith(r.hex, m)
    BY <1>6 DEF StartsWith, n
  <2> QED BY <2>4, <2>5 DEF f
<1>7. CASE n # 0
  <2> DEFINE p == o + 1
             N == IF n < Len(b) - p THEN n ELSE Len(b) - p
             k == IF N < 2 * m THEN N ELSE 2 * m
  <2>1. /\ p \in 1..Len(b) /\ N \in 0..(Len(b) - p) /\ N <= n
        /\ n >= 2 * m <=> N >= 2 * m
    <3>1. o \in Int /\ 0 <= o /\ o <= 2 /\ n \in Int /\ 1 <= n /\ Len(Body(r)) = o + n + 2
      BY <1>1, <1>7
    <3> HIDE DEF o
    <3>2. IF o + n + 2 < MaxBody THEN Len(b) = o + n + 2 ELSE Len(b) = MaxBody - 1
      BY <1>4, <3>1 DEF Cut
    <3>3. Len(b) \in Int /\ o + 2 * m + 1 <= MaxBody - 1 /\ MaxBody \in Int
      BY <1>2, <1>4, <3>1
    <3>4. p \in 1..Len(b) /\ Len(b) - p \in Int /\ 0 <= Len(b) - p
      BY <3>1, <3>2, <3>3
    <3>5. N \in 0..(Len(b) - p) /\ N <= n
      BY <3>1, <3>4
    <3>6. n >= 2 * m => N >= 2 * m
      BY <3>1, <3>2, <3>3
    <3> QED BY <3>1, <3>4, <3>5, <3>6
  <2>2. FieldAt(b, f) = p
    <3>1. b[p].field = f
      BY <1>1, <1>5, <1>7, <2>1
    <3>2. \A j \in 1..(p - 1) : b[j].field # f
      <4> SUFFICES ASSUME NEW j \in 1..(p - 1) PROVE b[j].field # f
        OBVIOUS
      <4>1. j \in 1..Before(r) /\ j \in 1..Len(b)
        BY <1>1, <1>4, <2>1
      <4>2. Body(r)[j].field \in {"party_index", "x"}
        BY <1>1, <4>1 DEF Numbers
      <4> QED BY <1>3, <1>5, <4>1, <4>2
    <3> QED BY <1>4, <2>1, <3>1, <3>2, FieldFound
  <2>3. \A j \in 1..N : b[p + j].field = "digit" /\ b[p + j].v = r.hex[j]
    <3> SUFFICES ASSUME NEW j \in 1..N
                 PROVE  b[p + j].field = "digit" /\ b[p + j].v = r.hex[j]
      OBVIOUS
    <3>1. p + j \in 1..Len(b) /\ j \in 1..n
      BY <1>1, <1>4, <2>1
    <3> QED BY <1>1, <1>5, <1>7, <3>1
  <2>4. N < Len(b) - p => b[p + N + 1].field # "digit"
    <3> SUFFICES ASSUME N < Len(b) - p PROVE b[p + N + 1].field = "end"
      OBVIOUS
    <3>a. o \in Int /\ Len(b) \in Int /\ n \in Int
      BY <1>1, <1>4
    <3>b. N = n
      BY <3>a, <2>1
    <3>1. N = n /\ p + N + 1 = o + n + 2 /\ p + N + 1 \in 1..Len(b)
      <4>1. p = o + 1 /\ p \in 1..Len(b) /\ N \in 0..(Len(b) - p)
        BY <2>1
      <4> HIDE DEF o, p, N
      <4> QED BY <3>a, <3>b, <4>1
    <3>2. Body(r)[o + n + 2].field = "end"
      BY <1>1, <1>7
    <3>3. b[p + N + 1] = Body(r)[p + N + 1]
      BY <1>5, <3>1
    <3> QED BY <3>1, <3>2, <3>3
  <2>5. hex = [j \in 1..k |-> b[p + j].v]
    <3>1. StringAt(b, p, 2 * m) = Copied(b, p, k)
      <4>1. \A j \in 1..N : b[p + j].field = "digit"
        BY <2>3
      <4> HIDE DEF p, N
      <4> QED BY <1>4, <2>1, <2>4, <4>1, RunFound
    <3>2. p # 0
      BY <2>1
    <3> QED BY <2>2, <3>1, <3>2 DEF ParseString, Copied
  <2> HIDE DEF p, N, hex
  <2>6. k \in Nat /\ k <= N /\ k <= 2 * m /\ (n >= 2 * m => k = 2 * m) /\ (k = 2 * m => n >= 2 * m)
    BY <1>1, <2>1
  <2> HIDE DEF k
  <2>7. hex = [j \in 1..k |-> r.hex[j]]
    <3>1. \A j \in 1..k : b[p + j].v = r.hex[j]
      BY <2>1, <2>3, <2>6
    <3> QED BY <2>5, <3>1
  <2>8. Len(hex) = k /\ \A j \in 1..k : hex[j] = r.hex[j]
    <3>1. \A j \in 1..k : r.hex[j] \in Int
      <4>1. \A j \in 1..k : j \in 1..n
        BY <1>1, <2>1, <2>6
      <4> QED BY <1>a, <4>1 DEF n
    <3>2. hex \in [1..k -> Int]
      BY <2>7, <3>1
    <3> QED BY <2>6, <2>7, <3>2
  <2>9. Decodes(hex, m) <=> StartsWith(r.hex, m)
    BY <1>1, <2>6, <2>8 DEF Decodes, StartsWith, n
  <2>10. ASSUME Decodes(hex, m) PROVE Decode(hex, m) = Decode(r.hex, m)
    <3>1. k = 2 * m
      BY <2>8, <2>10 DEF Decodes
    <3>2. \A i \in 1..m : hex[2 * i - 1] = r.hex[2 * i - 1] /\ hex[2 * i] = r.hex[2 * i]
      BY <2>8, <3>1
    <3> QED BY <3>2 DEF Decode
  <2> QED BY <2>9, <2>10 DEF hex, f
<1> QED BY <1>6, <1>7 DEF f
-----------------------------------------------------------------------------
(* b and t are what is kept and what is to come of the body s.             *)
Arriving(b, t, s) ==
  /\ t \in Seq(Symbol) /\ Len(t) <= Len(s)
  /\ \A i \in 1..Len(t) : t[i] = s[Len(s) - Len(t) + i]
  /\ Keeps(b, s, Len(s) - Len(t))

(* What a connection carries by where it is.                               *)
Carries(c) ==
  /\ phase[c] = "none" => req[c] = {}
  /\ phase[c] # "none" => \E r \in Requests : req[c] = {r}
  /\ phase[c] = "header" => \A r \in req[c] : rest[c] = Body(r)
  /\ phase[c] = "body" => \A r \in req[c] : Arriving(rb[c], rest[c], Body(r))
  /\ phase[c] # "answered" => response[c] = {}

(* Types that need no more than Init and the shape of the steps.           *)
Shapes ==
  /\ phase \in [Conns -> {"none", "header", "body", "closing", "answered"}]
  /\ req \in [Conns -> SUBSET Requests]
  /\ DOMAIN rest = Conns /\ DOMAIN rb = Conns /\ DOMAIN response = Conns
  /\ g_x \in Int /\ g_ready \in BOOLEAN /\ g_share \in Seq(Byte)
  /\ whole \subseteq Requests /\ sent \in 0..MaxSent
  /\ \A c \in Conns : Len(rb[c]) < MaxBody

RInv == Shapes /\ (\A c \in Conns : Carries(c)) /\ HoldsOneRequest /\ AnsweredAsSent

LEMMA RInit == Init => RInv
<1> SUFFICES ASSUME Init PROVE RInv
  OBVIOUS
<1> USE LengthAssumption DEF Init
<1>1. Shapes
  <2>1. \A c \in Conns : Len(rb[c]) < MaxBody
    <3>1. Len(<< >>) = 0 /\ 0 < MaxBody
      OBVIOUS
    <3> QED BY <3>1
  <2>2. g_share \in Seq(Byte)
    OBVIOUS
  <2>3. /\ phase \in [Conns -> {"none", "header", "body", "closing", "answered"}]
        /\ req \in [Conns -> SUBSET Requests]
    OBVIOUS
  <2>4. DOMAIN rest = Conns /\ DOMAIN rb = Conns /\ DOMAIN response = Conns
    OBVIOUS
  <2>5. g_x \in Int /\ whole \subseteq Requests /\ sent \in 0..MaxSent
    OBVIOUS
  <2>6. g_ready \in BOOLEAN
    BY Zenon
  <2> HIDE DEF Init
  <2> QED BY <2>1, <2>2, <2>3, <2>4, <2>5, <2>6 DEF Shapes
<1>2. \A c \in Conns : Carries(c)
  BY DEF Carries
<1>3. HoldsOneRequest
  BY DEF HoldsOneRequest
<1>4. AnsweredAsSent
  BY DEF AnsweredAsSent
<1> QED BY <1>1, <1>2, <1>3, <1>4 DEF RInv

(* A step of one connection leaves the others what they carry; what may    *)
(* change for all are the globals and, growing, the history.               *)
Answered(c) ==
  \A r \in req[c], a \in response[c] :
    /\ Deserves(r, a.code)
    /\ (r.url = "partial_decrypt" /\ a.code = 200) =>
         /\ a.ct = Decode(r.hex, CtBytes)
         /\ OfOneRequest(a.x, a.share)

OthersUnchanged(c) ==
  \A d \in Conns \ {c} :
    /\ phase'[d] = phase[d] /\ req'[d] = req[d] /\ rest'[d] = rest[d]
    /\ rb'[d] = rb[d] /\ response'[d] = response[d]

LEMMA OneConnection ==
  ASSUME RInv, NEW c \in Conns, OthersUnchanged(c), whole \subseteq whole',
         Shapes', Carries(c)', Answered(c)', HoldsOneRequest'
  PROVE  RInv'
<1>1. \A d \in Conns : Carries(d)'
  <2> SUFFICES ASSUME NEW d \in Conns, d # c PROVE Carries(d)'
    OBVIOUS
  <2>1. Carries(d)
    BY DEF RInv
  <2> QED BY <2>1 DEF OthersUnchanged, Carries
<1>2. \A d \in Conns : Answered(d)'
  <2> SUFFICES ASSUME NEW d \in Conns, d # c PROVE Answered(d)'
    OBVIOUS
  <2>1. Answered(d)
    BY DEF RInv, AnsweredAsSent, Answered
  <2>2. req'[d] = req[d] /\ response'[d] = response[d]
    BY DEF OthersUnchanged
  <2> QED BY <2>1, <2>2 DEF Answered, OfOneRequest
<1>3. AnsweredAsSent'
  BY <1>2 DEF AnsweredAsSent, Answered
<1> QED BY <1>1, <1>3 DEF RInv

(* A connection that begins, closes or answers nothing.                    *)
LEMMA GlobalsKept ==
  ASSUME RInv, UNCHANGED globals, whole \subseteq whole'
  PROVE  HoldsOneRequest'
<1>1. HoldsOneRequest
  BY DEF RInv
<1>2. CASE g_ready
  <2>1. PICK r \in whole : /\ r.url = "store_share" /\ Numbered(r) /\ g_x = r.x
                           /\ StartsWith(r.hex, ShareBytes)
                           /\ g_share = Decode(r.hex, ShareBytes)
    BY <1>1, <1>2 DEF HoldsOneRequest, OfOneRequest
  <2> QED BY <2>1 DEF HoldsOneRequest, OfOneRequest, globals
<1>3. CASE ~g_ready
  BY <1>3 DEF HoldsOneRequest, globals
<1> QED BY <1>2, <1>3

LEMMA ConnectKeeps == ASSUME RInv, NEW c \in Conns, Connect(c) PROVE RInv'
<1> USE DEF Connect, globals
<1>1. PICK r \in Requests : /\ req' = [req EXCEPT ![c] = {r}]
                            /\ rest' = [rest EXCEPT ![c] = Body(r)]
  OBVIOUS
<1>2. Shapes'
  BY <1>1, LengthAssumption DEF RInv, Shapes
<1>3. Carries(c)'
  BY <1>1 DEF RInv, Shapes, Carries
<1>4. Answered(c)'
  BY <1>1 DEF RInv, Shapes, Carries, Answered
<1>5. OthersUnchanged(c)
  BY <1>1 DEF RInv, Shapes, OthersUnchanged
<1> QED BY <1>2, <1>3, <1>4, <1>5, GlobalsKept, OneConnection

LEMMA OnCompleteKeeps == ASSUME RInv, NEW c \in Conns, OnComplete(c) PROVE RInv'
<1> USE DEF OnComplete, globals
<1>1. Shapes'
  <2>1. \A d \in Conns : Len(rb'[d]) < MaxBody
    <3>1. Len(<< >>) = 0 /\ 0 < MaxBody
      BY LengthAssumption
    <3> QED BY <3>1 DEF RInv, Shapes
  <2> QED BY <2>1 DEF RInv, Shapes
<1>2. Carries(c)'
  BY DEF RInv, Shapes, Carries
<1>3. Answered(c)'
  BY DEF RInv, Shapes, Answered
<1>4. OthersUnchanged(c)
  BY DEF RInv, Shapes, OthersUnchanged
<1> QED BY <1>1, <1>2, <1>3, <1>4, GlobalsKept, OneConnection

LEMMA FirstCallKeeps == ASSUME RInv, NEW c \in Conns, FirstCall(c) PROVE RInv'
<1> USE DEF FirstCall, globals
<1>1. PICK r \in Requests : req[c] = {r} /\ rest[c] = Body(r)
  BY DEF RInv, Carries
<1>2. Shapes'
  <2>1. \A d \in Conns : Len(rb'[d]) < MaxBody
    <3>1. Len(<< >>) = 0 /\ 0 < MaxBody
      BY LengthAssumption
    <3> QED BY <3>1 DEF RInv, Shapes
  <2> QED BY <2>1 DEF RInv, Shapes
<1>3. Arriving(<< >>, Body(r), Body(r))
  <2>1. Body(r) \in Seq(Symbol) /\ Len(Body(r)) \in Nat
    BY BodySeq
  <2>2. Keeps(<< >>, Body(r), Len(Body(r)) - Len(Body(r)))
    BY <2>1, LengthAssumption DEF Keeps, Cut
  <2> QED BY <2>1, <2>2 DEF Arriving
<1>4. Carries(c)'
  <2>1. rb'[c] = << >> /\ rest'[c] = Body(r) /\ req'[c] = {r} /\ phase'[c] \in {"body", "closing"}
    BY <1>1 DEF RInv, Shapes
  <2>2. response'[c] = {}
    BY DEF RInv, Carries
  <2> QED BY <1>3, <2>1, <2>2 DEF Carries
<1>5. Answered(c)'
  BY DEF RInv, Carries, Answered
<1>6. OthersUnchanged(c)
  BY DEF RInv, Shapes, OthersUnchanged
<1> QED BY <1>2, <1>4, <1>5, <1>6, GlobalsKept, OneConnection

(* Copying a piece of the body keeps what the buffer should keep of it.    *)
LEMMA PieceKept ==
  ASSUME NEW s \in Seq(Symbol), NEW b, NEW t, Arriving(b, t, s), NEW size \in 1..Len(t)
  PROVE  LET b1 == b \o SubSeq(t, 1, CopyLength(Len(b), size))
             t1 == SubSeq(t, size + 1, Len(t))
         IN  Arriving(b1, t1, s) /\ Len(b1) < MaxBody
<1> DEFINE n == Len(s) - Len(t)
           copy == CopyLength(Len(b), size)
           piece == SubSeq(t, 1, copy)
           b1 == b \o piece
           t1 == SubSeq(t, size + 1, Len(t))
<1>1. /\ Len(s) \in Nat /\ Len(t) \in Nat /\ n \in Nat /\ MaxBody \in Nat /\ MaxBody > 1
      /\ t \in Seq(Symbol) /\ b \in Seq(Symbol) /\ Len(b) = Cut(n)
  BY LengthAssumption DEF Arriving, Keeps
<1>2. /\ \A i \in 1..Len(t) : t[i] = s[n + i]
      /\ \A i \in 1..Len(b) : b[i] = s[i]
  BY DEF Arriving, Keeps
<1> HIDE DEF n
<1>3. /\ copy \in 0..size /\ Cut(n) + copy = Cut(n + size)
      /\ copy # 0 => Cut(n) = n
      /\ Cut(n) \in Nat /\ Cut(n + size) < MaxBody
  BY <1>1 DEF Cut, CopyLength
<1> HIDE DEF copy
<1>4. /\ piece \in Seq(Symbol) /\ Len(piece) = copy
      /\ \A i \in 1..copy : piece[i] = t[i]
  BY <1>1, <1>3, SubSeqProperties
<1>5. /\ t1 \in Seq(Symbol) /\ Len(t1) = Len(t) - size
      /\ \A i \in 1..Len(t1) : t1[i] = t[size + i]
  <2> DEFINE first == size + 1
             last == Len(t)
  <2>1. first \in Int /\ last \in Int /\ \A i \in first..last : i \in 1..Len(t)
    BY <1>1
  <2>2. (IF first <= last THEN last - first + 1 ELSE 0) = Len(t) - size
    BY <1>1
  <2>3. \A i \in 1..(Len(t) - size) : first + i - 1 = size + i
    BY <1>1
  <2> HIDE DEF first, last
  <2>4. /\ SubSeq(t, first, last) \in Seq(Symbol)
        /\ Len(SubSeq(t, first, last)) = Len(t) - size
        /\ \A i \in 1..(Len(t) - size) : SubSeq(t, first, last)[i] = t[first + i - 1]
    BY <1>1, <2>1, <2>2, SubSeqProperties
  <2> QED BY <2>3, <2>4 DEF first, last
<1> HIDE DEF piece, t1
<1>6. /\ b1 \in Seq(Symbol) /\ Len(b1) = Len(b) + copy
      /\ \A i \in 1..Len(b) : b1[i] = b[i]
      /\ \A i \in 1..copy : b1[Len(b) + i] = piece[i]
  <2>1. b \in Seq(Symbol) /\ piece \in Seq(Symbol)
    BY <1>1, <1>4
  <2>2. /\ b \o piece \in Seq(Symbol)
        /\ Len(b \o piece) = Len(b) + Len(piece)
        /\ \A i \in 1..Len(b) : (b \o piece)[i] = b[i]
        /\ \A i \in 1..Len(piece) : (b \o piece)[Len(b) + i] = piece[i]
    BY <2>1, ConcatAt
  <2> QED BY <1>4, <2>2
<1> HIDE DEF b1
<1>7. Len(s) - Len(t1) = n + size
  BY <1>1, <1>5 DEF n
<1>8. Keeps(b1, s, n + size)
  <2>1. Len(b1) = Cut(n + size)
    BY <1>1, <1>3, <1>6
  <2>2. ASSUME NEW i \in 1..Len(b1) PROVE b1[i] = s[i]
    <3>1. CASE i <= Len(b)
      BY <1>1, <1>2, <1>3, <1>6, <3>1
    <3>2. CASE i > Len(b)
      <4> DEFINE j == i - Len(b)
      <4>1. j \in 1..copy /\ i = Len(b) + j /\ copy # 0
        BY <1>1, <1>3, <1>6, <3>2
      <4>2. Len(b) = n /\ j \in 1..Len(t)
        BY <1>1, <1>3, <4>1
      <4> HIDE DEF j
      <4>3. b1[i] = piece[j] /\ piece[j] = t[j]
        BY <1>4, <1>6, <4>1
      <4>4. t[j] = s[i]
        BY <1>2, <4>1, <4>2
      <4> QED BY <4>3, <4>4
    <3> QED BY <1>1, <1>3, <3>1, <3>2
  <2> QED BY <1>6, <2>1, <2>2 DEF Keeps
<1>9. \A i \in 1..Len(t1) : t1[i] = s[Len(s) - Len(t1) + i]
  <2> SUFFICES ASSUME NEW i \in 1..Len(t1) PROVE t1[i] = s[n + size + i]
    BY <1>7
  <2>1. size + i \in 1..Len(t) /\ n + (size + i) = n + size + i
    BY <1>1, <1>5
  <2>2. t1[i] = t[size + i] /\ t[size + i] = s[n + (size + i)]
    BY <1>2, <1>5, <2>1
  <2> QED BY <2>1, <2>2
<1>10. Arriving(b1, t1, s)
  BY <1>1, <1>5, <1>7, <1>8, <1>9 DEF Arriving
<1>11. Len(b1) < MaxBody
  BY <1>1, <1>3, <1>6
<1> QED BY <1>10, <1>11 DEF b1, t1, piece, copy

LEMMA UploadKeeps == ASSUME RInv, NEW c \in Conns, Upload(c) PROVE RInv'
<1> USE DEF globals
<1>1. PICK r \in Requests : req[c] = {r} /\ Arriving(rb[c], rest[c], Body(r))
  BY DEF Upload, RInv, Carries
<1>2. PICK size \in 1..Len(rest[c]) :
        /\ rb' = [rb EXCEPT ![c] = @ \o SubSeq(rest[c], 1, CopyLength(Len(@), size))]
        /\ rest' = [rest EXCEPT ![c] = SubSeq(@, size + 1, Len(@))]
  BY DEF Upload
<1>3. phase[c] = "body" /\ UNCHANGED <<phase, req, response, globals, sent, whole>>
  BY DEF Upload
<1>4. c \in DOMAIN rb /\ c \in DOMAIN rest
  BY DEF RInv, Shapes
<1>5. Arriving(rb'[c], rest'[c], Body(r)) /\ Len(rb'[c]) < MaxBody
  <2>1. /\ rb'[c] = rb[c] \o SubSeq(rest[c], 1, CopyLength(Len(rb[c]), size))
        /\ rest'[c] = SubSeq(rest[c], size + 1, Len(rest[c]))
    BY <1>2, <1>4
  <2> QED BY <1>1, <2>1, BodySeq, PieceKept
<1>6. Shapes'
  BY <1>2, <1>3, <1>5 DEF RInv, Shapes
<1>7. Carries(c)'
  BY <1>1, <1>3, <1>5 DEF RInv, Carries
<1>8. Answered(c)'
  BY <1>3 DEF RInv, Carries, Answered
<1>9. OthersUnchanged(c)
  BY <1>2, <1>3 DEF RInv, Shapes, OthersUnchanged
<1> QED BY <1>3, <1>6, <1>7, <1>8, <1>9, GlobalsKept, OneConnection

(* When the last call comes, the buffer keeps what it should of the body.  *)
LEMMA Arrived ==
  ASSUME RInv, NEW c \in Conns, phase[c] = "body", rest[c] = << >>
  PROVE  \E r \in Requests : req[c] = {r} /\ Keeps(rb[c], Body(r), Len(Body(r)))
<1>1. PICK r \in Requests : req[c] = {r} /\ Arriving(rb[c], rest[c], Body(r))
  BY DEF RInv, Carries
<1>2. Len(rest[c]) = 0 /\ Len(Body(r)) - 0 = Len(Body(r))
  BY BodySeq
<1> QED BY <1>1, <1>2 DEF Arriving

(* An answer that its request deserves, by a handler that keeps the globals *)
(* those of one request.                                                   *)
LEMMA RespondKeeps ==
  ASSUME RInv, NEW c \in Conns, NEW a, phase[c] = "body", Respond(c, a),
         HoldsOneRequest', g_x' \in Int, g_ready' \in BOOLEAN, g_share' \in Seq(Byte),
         \A r \in req[c] :
           /\ Deserves(r, a.code)
           /\ (r.url = "partial_decrypt" /\ a.code = 200) =>
                /\ a.ct = Decode(r.hex, CtBytes)
                /\ OfOneRequest(a.x, a.share)'
  PROVE  RInv'
<1>1. response'[c] = {a} /\ phase'[c] = "answered" /\ req' = req /\ whole \subseteq whole'
  BY DEF Respond, RInv, Shapes
<1>2. Shapes'
  BY DEF Respond, RInv, Shapes
<1>3. Carries(c)'
  BY <1>1 DEF RInv, Carries
<1>4. Answered(c)'
  BY <1>1 DEF Answered
<1>5. OthersUnchanged(c)
  BY DEF Respond, RInv, Shapes, OthersUnchanged
<1> QED BY <1>1, <1>2, <1>3, <1>4, <1>5, OneConnection

LEMMA HealthKeeps == ASSUME RInv, NEW c \in Conns, Health(c) PROVE RInv'
<1>1. PICK r \in Requests : req[c] = {r}
  BY DEF Health, LastCall, RInv, Carries
<1>2. r.method = "GET" /\ r.url = "health" /\ phase[c] = "body"
  BY <1>1 DEF Health, LastCall
<1>3. PICK a : a = Answer(200)
  OBVIOUS
<1>4. Respond(c, a) /\ UNCHANGED globals /\ whole \subseteq whole'
  BY <1>3 DEF Health, Respond
<1>5. a.code = 200
  BY <1>3 DEF Answer
<1>6. Deserves(r, a.code)
  BY <1>2, <1>5 DEF Deserves
<1>7. g_x' \in Int /\ g_ready' \in BOOLEAN /\ g_share' \in Seq(Byte)
  BY <1>4 DEF globals, RInv, Shapes
<1> QED BY <1>1, <1>2, <1>4, <1>6, <1>7, GlobalsKept, RespondKeeps

LEMMA NotFoundKeeps == ASSUME RInv, NEW c \in Conns, NotFound(c) PROVE RInv'
<1>1. PICK r \in Requests : req[c] = {r}
  BY DEF NotFound, RInv, Carries
<1>2. /\ ~(r.method = "GET" /\ r.url = "health")
      /\ ~(r.method = "POST" /\ r.url = "store_share")
      /\ ~(r.method = "POST" /\ r.url = "partial_decrypt") /\ phase[c] = "body"
  BY <1>1 DEF NotFound
<1>3. PICK a : a = Answer(404)
  OBVIOUS
<1>4. Respond(c, a) /\ UNCHANGED globals /\ whole \subseteq whole'
  BY <1>3 DEF NotFound, Respond
<1>5. a.code = 404
  BY <1>3 DEF Answer
<1>6. Deserves(r, a.code)
  BY <1>2, <1>5 DEF Deserves
<1>7. g_x' \in Int /\ g_ready' \in BOOLEAN /\ g_share' \in Seq(Byte)
  BY <1>4 DEF globals, RInv, Shapes
<1> QED BY <1>1, <1>2, <1>4, <1>5, <1>6, <1>7, GlobalsKept, RespondKeeps

LEMMA DecodedBytes ==
  ASSUME NEW r \in Requests, NEW m \in Nat \ {0}, StartsWith(r.hex, m)
  PROVE  Decode(r.hex, m) \in Seq(Byte)
<1>1. r.hex \in Seq(HexVal) /\ Len(r.hex) \in Nat /\ Len(r.hex) >= 2 * m
  BY RequestAssumption DEF StartsWith
<1>2. \A i \in 1..m : 16 * r.hex[2 * i - 1] + r.hex[2 * i] \in Byte
  <2> SUFFICES ASSUME NEW i \in 1..m PROVE 16 * r.hex[2 * i - 1] + r.hex[2 * i] \in Byte
    OBVIOUS
  <2>1. 2 * i - 1 \in 1..(2 * m) /\ 2 * i \in 1..(2 * m)
    OBVIOUS
  <2>2. \A j \in 1..(2 * m) : r.hex[j] \in HexVal /\ r.hex[j] # -1
    <3>1. \A j \in 1..(2 * m) : j \in 1..Len(r.hex)
      BY <1>1
    <3>2. \A j \in 1..(2 * m) : r.hex[j] \in HexVal
      BY <1>1, <3>1, ElementOfSeq
    <3> QED BY <3>2 DEF StartsWith
  <2>3. r.hex[2 * i - 1] \in 0..15 /\ r.hex[2 * i] \in 0..15
    BY <2>1, <2>2 DEF HexVal
  <2>4. \A u \in 0..15, v \in 0..15 : 16 * u + v \in Byte
    BY DEF Byte
  <2> QED BY <2>3, <2>4
<1> QED BY <1>2 DEF Decode

(* What the handler reads out of the buffer is what the client sent.       *)
LEMMA StoreReads ==
  ASSUME RInv, NEW c \in Conns, LastCall(c, "POST", "store_share"),
         NEW hex, hex = ParseString(rb[c], "share_hex", 2 * ShareBytes),
         NEW x, x = FieldAt(rb[c], "x"), NEW i, i = FieldAt(rb[c], "party_index")
  PROVE  \E r \in Requests :
           /\ req[c] = {r} /\ r.method = "POST" /\ r.url = "store_share" /\ phase[c] = "body"
           /\ i # 0 /\ x # 0 <=> Numbered(r)
           /\ x # 0 => rb[c][x].v = r.x
           /\ Decodes(hex, ShareBytes) <=> StartsWith(r.hex, ShareBytes)
           /\ Decodes(hex, ShareBytes) => Decode(hex, ShareBytes) = Decode(r.hex, ShareBytes)
<1>1. PICK r \in Requests : req[c] = {r} /\ Keeps(rb[c], Body(r), Len(Body(r)))
  BY Arrived DEF LastCall
<1>2. r.method = "POST" /\ r.url = "store_share" /\ phase[c] = "body"
  BY <1>1 DEF LastCall
<1>3. HexField(r.url) = "share_hex"
  BY <1>2 DEF HexField
<1>4. /\ i # 0 /\ x # 0 <=> Numbered(r)
      /\ x # 0 => rb[c][x].v = r.x
  BY <1>1, ParsedNumbers DEF Numbered
<1>5. MaxBody > 3 + 2 * ShareBytes /\ ShareBytes \in Nat \ {0}
  BY LengthAssumption
<1>6. LET h == ParseString(rb[c], HexField(r.url), 2 * ShareBytes)
      IN  /\ Decodes(h, ShareBytes) <=> StartsWith(r.hex, ShareBytes)
          /\ Decodes(h, ShareBytes) => Decode(h, ShareBytes) = Decode(r.hex, ShareBytes)
  BY <1>1, <1>5, ParsedHex
<1> QED BY <1>1, <1>2, <1>3, <1>4, <1>6

LEMMA StoreShareKeeps == ASSUME RInv, NEW c \in Conns, StoreShare(c) PROVE RInv'
<1> DEFINE hex == ParseString(rb[c], "share_hex", 2 * ShareBytes)
           x == FieldAt(rb[c], "x")
           i == FieldAt(rb[c], "party_index")
           good == i # 0 /\ x # 0 /\ Decodes(hex, ShareBytes)
<1>1. LastCall(c, "POST", "store_share")
  BY DEF StoreShare
<1>2. PICK r \in Requests :
        /\ req[c] = {r} /\ r.method = "POST" /\ r.url = "store_share" /\ phase[c] = "body"
        /\ i # 0 /\ x # 0 <=> Numbered(r)
        /\ x # 0 => rb[c][x].v = r.x
        /\ Decodes(hex, ShareBytes) <=> StartsWith(r.hex, ShareBytes)
        /\ Decodes(hex, ShareBytes) => Decode(hex, ShareBytes) = Decode(r.hex, ShareBytes)
  <2> HIDE DEF hex, x, i
  <2> QED BY <1>1, StoreReads DEF hex, x, i
<1>3. good <=> Numbered(r) /\ StartsWith(r.hex, ShareBytes)
  BY <1>2
<1>4. CASE good
  <2>1. PICK a : a = Answer(200)
    OBVIOUS
  <2>2. /\ g_share' = Decode(hex, ShareBytes) /\ g_x' = rb[c][x].v /\ g_ready' = TRUE
        /\ Respond(c, a)
    BY <1>4, <2>1 DEF StoreShare
  <2>3. r.x \in Int /\ ShareBytes \in Nat \ {0}
    BY <1>3, <1>4, RequestAssumption, LengthAssumption DEF Numbered
  <2>4. g_x' = r.x /\ g_share' = Decode(r.hex, ShareBytes)
    BY <1>2, <1>4, <2>2
  <2>5. g_share' \in Seq(Byte)
    BY <1>3, <1>4, <2>3, <2>4, DecodedBytes
  <2>6. r \in whole'
    BY <1>2, <2>2 DEF Respond
  <2>7. HoldsOneRequest'
    BY <1>2, <1>3, <1>4, <2>4, <2>6 DEF HoldsOneRequest, OfOneRequest
  <2>8. Deserves(r, a.code) /\ r.url # "partial_decrypt"
    BY <1>2, <1>3, <1>4, <2>1 DEF Deserves, Answer
  <2>9. g_ready' \in BOOLEAN
    BY <2>2
  <2> QED BY <1>2, <2>2, <2>3, <2>4, <2>5, <2>7, <2>8, <2>9, RespondKeeps
<1>5. CASE ~good
  <2>1. PICK a : a = Answer(400)
    OBVIOUS
  <2>2. UNCHANGED globals /\ Respond(c, a)
    BY <1>5, <2>1 DEF StoreShare
  <2>3. HoldsOneRequest'
    BY <2>2, GlobalsKept DEF Respond
  <2>4. Deserves(r, a.code) /\ r.url # "partial_decrypt"
    BY <1>2, <1>3, <1>5, <2>1 DEF Deserves, Answer
  <2>5. g_x' \in Int /\ g_ready' \in BOOLEAN /\ g_share' \in Seq(Byte)
    BY <2>2 DEF globals, RInv, Shapes
  <2> QED BY <1>2, <2>2, <2>3, <2>4, <2>5, RespondKeeps
<1> QED BY <1>4, <1>5

LEMMA DecryptReads ==
  ASSUME RInv, NEW c \in Conns, LastCall(c, "POST", "partial_decrypt"),
         NEW hex, hex = ParseString(rb[c], "ct_hex", 2 * CtBytes)
  PROVE  \E r \in Requests :
           /\ req[c] = {r} /\ r.method = "POST" /\ r.url = "partial_decrypt" /\ phase[c] = "body"
           /\ Decodes(hex, CtBytes) <=> StartsWith(r.hex, CtBytes)
           /\ Decodes(hex, CtBytes) => Decode(hex, CtBytes) = Decode(r.hex, CtBytes)
<1>1. PICK r \in Requests : req[c] = {r} /\ Keeps(rb[c], Body(r), Len(Body(r)))
  BY Arrived DEF LastCall
<1>2. r.method = "POST" /\ r.url = "partial_decrypt" /\ phase[c] = "body"
  BY <1>1 DEF LastCall
<1>3. HexField(r.url) = "ct_hex"
  BY <1>2 DEF HexField
<1>4. MaxBody > 3 + 2 * CtBytes /\ CtBytes \in Nat \ {0}
  BY LengthAssumption
<1>5. LET h == ParseString(rb[c], HexField(r.url), 2 * CtBytes)
      IN  /\ Decodes(h, CtBytes) <=> StartsWith(r.hex, CtBytes)
          /\ Decodes(h, CtBytes) => Decode(h, CtBytes) = Decode(r.hex, CtBytes)
  BY <1>1, <1>4, ParsedHex
<1> QED BY <1>1, <1>2, <1>3, <1>5

LEMMA PartialDecryptKeeps == ASSUME RInv, NEW c \in Conns, PartialDecrypt(c) PROVE RInv'
<1> DEFINE hex == ParseString(rb[c], "ct_hex", 2 * CtBytes)
           answer == IF ~g_ready THEN Answer(409)
                     ELSE IF ~Decodes(hex, CtBytes) THEN Answer(400)
                     ELSE [code |-> 200, x |-> g_x, share |-> g_share,
                           ct |-> Decode(hex, CtBytes)]
<1>1. LastCall(c, "POST", "partial_decrypt")
  BY DEF PartialDecrypt
<1>2. PICK r \in Requests :
        /\ req[c] = {r} /\ r.method = "POST" /\ r.url = "partial_decrypt" /\ phase[c] = "body"
        /\ Decodes(hex, CtBytes) <=> StartsWith(r.hex, CtBytes)
        /\ Decodes(hex, CtBytes) => Decode(hex, CtBytes) = Decode(r.hex, CtBytes)
  <2> HIDE DEF hex
  <2> QED BY <1>1, DecryptReads DEF hex
<1>3. PICK a : a = answer
  <2> HIDE DEF answer
  <2> QED OBVIOUS
<1>4. Respond(c, a) /\ UNCHANGED globals /\ whole \subseteq whole'
  BY <1>3 DEF PartialDecrypt, Respond
<1>5. HoldsOneRequest'
  BY <1>4, GlobalsKept
<1>6. g_x' \in Int /\ g_ready' \in BOOLEAN /\ g_share' \in Seq(Byte)
  BY <1>4 DEF globals, RInv, Shapes
<1>7. Deserves(r, a.code)
  <2>1. a.code \in {409, IF StartsWith(r.hex, CtBytes) THEN 200 ELSE 400}
    BY <1>2, <1>3 DEF Answer
  <2> QED BY <1>2, <2>1 DEF Deserves
<1>8. ASSUME a.code = 200
      PROVE  a.ct = Decode(r.hex, CtBytes) /\ OfOneRequest(a.x, a.share)'
  <2>1. g_ready /\ Decodes(hex, CtBytes)
    BY <1>3, <1>8 DEF Answer
  <2>2. a.x = g_x /\ a.share = g_share /\ a.ct = Decode(hex, CtBytes)
    BY <1>3, <2>1
  <2>3. OfOneRequest(g_x, g_share)
    BY <2>1 DEF RInv, HoldsOneRequest
  <2> QED BY <1>2, <1>4, <2>1, <2>2, <2>3 DEF OfOneRequest
<1> QED BY <1>2, <1>4, <1>5, <1>6, <1>7, <1>8, RespondKeeps
-----------------------------------------------------------------------------
(* What a connection carries, and with it the properties below, is kept by *)
(* every step of every connection.                                         *)
THEOREM RInvariant == Spec => []RInv
<1>1. RInv /\ [Next]_vars => RInv'
  <2> SUFFICES ASSUME RInv, [Next]_vars PROVE RInv'
    OBVIOUS
  <2>1. ASSUME NEW c \in Conns,
               \/ Connect(c) \/ FirstCall(c) \/ Upload(c)
               \/ Health(c) \/ StoreShare(c) \/ PartialDecrypt(c) \/ NotFound(c)
               \/ OnComplete(c)
        PROVE  RInv'
    BY <2>1, ConnectKeeps, FirstCallKeeps, UploadKeeps, HealthKeeps, StoreShareKeeps,
       PartialDecryptKeeps, NotFoundKeeps, OnCompleteKeeps
  <2>2. CASE UNCHANGED vars
    <3>1. /\ phase' = phase /\ req' = req /\ rest' = rest /\ rb' = rb
          /\ response' = response /\ whole' = whole /\ sent' = sent /\ UNCHANGED globals
      BY <2>2 DEF vars
    <3>2. Shapes'
      BY <3>1, Zenon DEF RInv, Shapes, globals
    <3>3. ASSUME NEW c \in Conns
          PROVE  Carries(c)'
      <4>1. Carries(c)
        BY DEF RInv
      <4> QED BY <3>1, <4>1 DEF Carries, Arriving
    <3>4. HoldsOneRequest'
      BY <3>1, Zenon DEF RInv, HoldsOneRequest, OfOneRequest, globals
    <3>5. AnsweredAsSent'
      <4>1. SUFFICES ASSUME NEW c \in Conns, NEW r \in req[c], NEW a \in response[c]
                     PROVE  /\ Deserves(r, a.code)
                            /\ r.url = "partial_decrypt" /\ a.code = 200
                                 => /\ a.ct = Decode(r.hex, CtBytes)
                                    /\ OfOneRequest(a.x, a.share)
        BY <3>1 DEF AnsweredAsSent, OfOneRequest
      <4> QED BY <4>1 DEF RInv, AnsweredAsSent
    <3> QED BY <3>2, <3>3, <3>4, <3>5 DEF RInv
  <2> QED BY <2>1, <2>2 DEF Next
<1> QED BY <1>1, RInit, PTL DEF Spec

(* The buffer never overflows, for every length of a body and every way of *)
(* cutting it (shareholder.c:127-134).                                     *)
THEOREM BufferFits == Spec => []TypeOK
<1>1. RInv => TypeOK
  BY DEF RInv, Shapes, TypeOK
<1> QED BY <1>1, RInvariant, PTL

(* The share held and its x are those of one request, for every set of     *)
(* requests, all interleavings of any number of connections, and every     *)
(* buffer that a good body fits in.                                        *)
THEOREM ShareOfOneRequest == Spec => []HoldsOneRequest
<1>1. RInv => HoldsOneRequest
  BY DEF RInv
<1> QED BY <1>1, RInvariant, PTL

(* Every answer is the one its own request deserves.                       *)
THEOREM AnswersAsSent == Spec => []AnsweredAsSent
<1>1. RInv => AnsweredAsSent
  BY DEF RInv
<1> QED BY <1>1, RInvariant, PTL
-----------------------------------------------------------------------------
(* The steps of RequestBody as steps of ShareServer.                       *)
LEMMA ServerStart == Init => Server!Init
BY Zenon DEF Init, Server!Init, heldShare

(* What does not show: all but the requests, the answers and the globals.  *)
LEMMA ServerStutter ==
  ASSUME UNCHANGED <<req, response>>, UNCHANGED globals
  PROVE  UNCHANGED Server!serverVars
BY DEF globals, heldShare, Server!serverVars

LEMMA ServerReply ==
  ASSUME RInv, NEW c \in Conns, phase[c] = "body", NEW a, Respond(c, a)
  PROVE  Server!Reply(c, a)
<1>1. response[c] = {}
  BY DEF RInv, Carries
<1> QED BY <1>1 DEF Respond, Server!Reply

LEMMA HeldKept == ASSUME UNCHANGED globals PROVE heldShare' = heldShare
BY DEF globals, heldShare

LEMMA ConnectServes == ASSUME RInv, NEW c \in Conns, Connect(c) PROVE Server!Begin(c)
<1>1. PICK r \in Requests : req' = [req EXCEPT ![c] = {r}]
  BY DEF Connect
<1>2. UNCHANGED response /\ UNCHANGED globals
  BY DEF Connect
<1>3. req[c] = {}
  BY DEF Connect, RInv, Carries
<1> QED BY <1>1, <1>2, <1>3, HeldKept DEF Server!Begin

LEMMA OnCompleteServes == ASSUME NEW c \in Conns, OnComplete(c) PROVE Server!End(c)
<1>1. UNCHANGED globals
  BY DEF OnComplete
<1> QED BY <1>1, HeldKept DEF OnComplete, Server!End

LEMMA StoreServes == ASSUME RInv, NEW c \in Conns, StoreShare(c) PROVE Server!Store(c)
<1> DEFINE hex == ParseString(rb[c], "share_hex", 2 * ShareBytes)
           x == FieldAt(rb[c], "x")
           i == FieldAt(rb[c], "party_index")
           good == i # 0 /\ x # 0 /\ Decodes(hex, ShareBytes)
<1>1. LastCall(c, "POST", "store_share")
  BY DEF StoreShare
<1>2. PICK r \in Requests :
        /\ req[c] = {r} /\ r.method = "POST" /\ r.url = "store_share" /\ phase[c] = "body"
        /\ i # 0 /\ x # 0 <=> Numbered(r)
        /\ x # 0 => rb[c][x].v = r.x
        /\ Decodes(hex, ShareBytes) <=> StartsWith(r.hex, ShareBytes)
        /\ Decodes(hex, ShareBytes) => Decode(hex, ShareBytes) = Decode(r.hex, ShareBytes)
  <2> HIDE DEF hex, x, i
  <2> QED BY <1>1, StoreReads DEF hex, x, i
<1>3. good <=> Numbered(r) /\ StartsWith(r.hex, ShareBytes)
  BY <1>2
<1>4. CASE good
  <2>1. /\ g_share' = Decode(hex, ShareBytes) /\ g_x' = rb[c][x].v /\ g_ready' = TRUE
        /\ Respond(c, Answer(200))
    BY <1>4 DEF StoreShare
  <2>2. heldShare' = {[x |-> r.x, share |-> Decode(r.hex, ShareBytes)]}
    BY <1>2, <1>4, <2>1 DEF heldShare
  <2>3. Server!Reply(c, Answer(200))
    BY <1>2, <2>1, ServerReply
  <2> QED BY <1>2, <1>3, <1>4, <2>2, <2>3
          DEF Server!Store, Server!Answer, Answer, Server!StartsWith, StartsWith, Server!Decode, Decode,
              Server!Numbered, Numbered
<1>5. CASE ~good
  <2>1. UNCHANGED globals /\ Respond(c, Answer(400))
    BY <1>5 DEF StoreShare
  <2>2. Server!Reply(c, Answer(400))
    BY <1>2, <2>1, ServerReply
  <2>3. UNCHANGED heldShare
    BY <2>1, HeldKept
  <2> QED BY <1>2, <1>3, <1>5, <2>2, <2>3
          DEF Server!Store, Server!Answer, Answer, Server!StartsWith, StartsWith,
              Server!Numbered, Numbered
<1> QED BY <1>4, <1>5

LEMMA DecryptServes == ASSUME RInv, NEW c \in Conns, PartialDecrypt(c) PROVE Server!Decrypt(c)
<1> DEFINE hex == ParseString(rb[c], "ct_hex", 2 * CtBytes)
           partial == [code |-> 200, x |-> g_x, share |-> g_share, ct |-> Decode(hex, CtBytes)]
<1>1. LastCall(c, "POST", "partial_decrypt") /\ UNCHANGED globals
  BY DEF PartialDecrypt
<1>2. PICK r \in Requests :
        /\ req[c] = {r} /\ r.method = "POST" /\ r.url = "partial_decrypt" /\ phase[c] = "body"
        /\ Decodes(hex, CtBytes) <=> StartsWith(r.hex, CtBytes)
        /\ Decodes(hex, CtBytes) => Decode(hex, CtBytes) = Decode(r.hex, CtBytes)
  <2> HIDE DEF hex
  <2> QED BY <1>1, DecryptReads DEF hex
<1>3. UNCHANGED heldShare
  BY <1>1, HeldKept
<1>4. CASE ~g_ready
  <2>1. Respond(c, Answer(409))
    BY <1>4 DEF PartialDecrypt
  <2>2. Server!Reply(c, Answer(409)) /\ heldShare = {}
    BY <1>2, <1>4, <2>1, ServerReply DEF heldShare
  <2> QED BY <1>2, <1>3, <2>2 DEF Server!Decrypt, Server!Answer, Answer
<1>5. CASE g_ready /\ ~Decodes(hex, CtBytes)
  <2>1. Respond(c, Answer(400))
    BY <1>5 DEF PartialDecrypt
  <2>2. Server!Reply(c, Answer(400)) /\ heldShare # {}
    BY <1>2, <1>5, <2>1, ServerReply DEF heldShare
  <2> QED BY <1>2, <1>3, <1>5, <2>2
          DEF Server!Decrypt, Server!Answer, Answer, Server!StartsWith, StartsWith
<1>6. CASE g_ready /\ Decodes(hex, CtBytes)
  <2>1. Respond(c, partial)
    BY <1>6 DEF PartialDecrypt
  <2>2. Server!Reply(c, partial)
    BY <1>2, <2>1, ServerReply
  <2>3. PICK s \in heldShare : s.x = g_x /\ s.share = g_share
    BY <1>6 DEF heldShare
  <2>4. partial = [code |-> 200, x |-> s.x, share |-> s.share, ct |-> Decode(r.hex, CtBytes)]
    BY <1>2, <1>6, <2>3
  <2>5. Server!Reply(c, [code |-> 200, x |-> s.x, share |-> s.share,
                         ct |-> Decode(r.hex, CtBytes)])
    BY <2>2, <2>4
  <2> QED BY <1>2, <1>3, <1>6, <2>3, <2>5
          DEF Server!Decrypt, Server!StartsWith, StartsWith, Server!Decode, Decode
<1> QED BY <1>4, <1>5, <1>6

LEMMA HealthServes == ASSUME RInv, NEW c \in Conns, Health(c) PROVE Server!Other(c)
<1>1. PICK r \in req[c] : r.method = "GET" /\ r.url = "health"
  BY DEF Health, LastCall
<1>2. phase[c] = "body" /\ Respond(c, Answer(200)) /\ UNCHANGED globals
  BY DEF Health, LastCall
<1>3. Server!Reply(c, Answer(200)) /\ UNCHANGED heldShare
  BY <1>2, ServerReply, HeldKept
<1> QED BY <1>1, <1>3 DEF Server!Other, Server!Answer, Answer

LEMMA NotFoundServes == ASSUME RInv, NEW c \in Conns, NotFound(c) PROVE Server!Other(c)
<1>1. PICK r \in req[c] : TRUE
  BY DEF NotFound, RInv, Carries
<1>2. <<r.method, r.url>> \notin
        {<<"GET", "health">>, <<"POST", "store_share">>, <<"POST", "partial_decrypt">>}
  BY <1>1 DEF NotFound
<1>3. phase[c] = "body" /\ Respond(c, Answer(404)) /\ UNCHANGED globals
  BY DEF NotFound
<1>4. Server!Reply(c, Answer(404)) /\ UNCHANGED heldShare
  BY <1>3, ServerReply, HeldKept
<1> QED BY <1>1, <1>2, <1>4 DEF Server!Other, Server!Answer, Answer

(* For all connections, requests and buffer sizes, however bodies are cut  *)
(* and interleaved, the handler implements a server that reads a request   *)
(* whole and answers it, once, in one step.                                *)
THEOREM HandlerImplementsServer == Spec => ImplementsServer
<1>1. Init => Server!Init
  BY ServerStart
<1>2. RInv /\ [Next]_vars => [Server!Next]_(Server!serverVars)
  <2> SUFFICES ASSUME RInv, [Next]_vars
               PROVE  Server!Next \/ UNCHANGED Server!serverVars
    OBVIOUS
  <2>1. ASSUME NEW c \in Conns, FirstCall(c) \/ Upload(c)
        PROVE  UNCHANGED Server!serverVars
    BY <2>1, ServerStutter DEF FirstCall, Upload
  <2>2. ASSUME NEW c \in Conns,
               \/ Connect(c) \/ Health(c) \/ StoreShare(c) \/ PartialDecrypt(c) \/ NotFound(c)
               \/ OnComplete(c)
        PROVE  Server!Next
    <3>1. Server!Begin(c) \/ Server!Store(c) \/ Server!Decrypt(c) \/ Server!Other(c) \/ Server!End(c)
      BY <2>2, ConnectServes, HealthServes, StoreServes, DecryptServes, NotFoundServes,
         OnCompleteServes
    <3> QED BY <3>1 DEF Server!Next
  <2>3. CASE UNCHANGED vars
    BY <2>3, ServerStutter DEF vars
  <2> QED BY <2>1, <2>2, <2>3 DEF Next
<1> QED BY <1>1, <1>2, RInvariant, PTL DEF Spec, ImplementsServer, Server!Spec
=============================================================================
