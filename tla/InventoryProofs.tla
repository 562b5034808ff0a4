---------------------------- MODULE InventoryProofs ----------------------------
(***************************************************************************)
(* Proofs about the inventories of MCTools: for databases of every size the  *)
(* table, the bill of materials and the licences name what pacman has        *)
(* installed, in order, whatever a description looks like.  The argument:     *)
(* what pacman writes of a package is read back field by field; sorting puts  *)
(* every package in a place of its own; the files are written from that.      *)
(***************************************************************************)
EXTENDS MCTools, SequenceTheorems, FunctionTheorems, FiniteSetTheorems, TLAPS

-----------------------------------------------------------------------------
(* Reading, line by line. *)

(* A set of numbers has a least one: what every induction below is by.        *)
LEMMA LeastPlace ==
  ASSUME NEW S \in SUBSET Nat, NEW s \in S
  PROVE  \E n \in S : \A m \in S : n <= m
<1>1. IsWellFoundedOn(OpToRel(<, Nat), Nat)
  BY NatLessThanWellFounded
<1>2. PICK n \in S : \A m \in S : ~ (<<m, n>> \in OpToRel(<, Nat))
  BY <1>1, WFMin
<1>3. \A m \in S : ~ (m < n)
  BY <1>2 DEF OpToRel
<1> QED
  BY <1>3

(* The reader after each line. *)
ReadingIs(r, lines, m) ==
  r = [n \in 0 .. m |-> IF n = 0 THEN I!NothingRead ELSE I!ReadLine(r[n - 1], lines[n])]

(* Reading line by line is a function on the places of the lines. *)
LEMMA ReadingExists ==
  ASSUME NEW lines, NEW m \in Nat
  PROVE  \E r : ReadingIs(r, lines, m)
<1> DEFINE Bad == {n \in 0 .. m : ~ \E r : ReadingIs(r, lines, n)}
<1> SUFFICES ASSUME m \in Bad PROVE FALSE
  OBVIOUS
<1>1. PICK n \in Bad : \A b \in Bad : n <= b
  <2>1. Bad \in SUBSET Nat
    OBVIOUS
  <2> HIDE DEF Bad
  <2> QED
    BY <2>1, LeastPlace
<1>2. n # 0
  <2>1. ReadingIs([k \in 0 .. 0 |-> I!NothingRead], lines, 0)
    BY DEF ReadingIs
  <2> QED
    BY <1>1, <2>1
<1>3. n \in 1 .. m /\ n - 1 \in 0 .. m /\ ~ (n <= n - 1)
  BY <1>1, <1>2
<1>4. n - 1 \notin Bad
  <2> HIDE DEF Bad
  <2> QED
    BY <1>1, <1>3
<1>5. PICK r : ReadingIs(r, lines, n - 1)
  BY <1>3, <1>4
<1> DEFINE last == I!ReadLine(r[n - 1], lines[n])
           t == [k \in 0 .. n |-> IF k = n THEN last ELSE r[k]]
<1>6. \A k \in 0 .. n - 1 :
        r[k] = IF k = 0 THEN I!NothingRead ELSE I!ReadLine(r[k - 1], lines[k])
  BY <1>5 DEF ReadingIs
<1>7. \A k \in 0 .. n :
        t[k] = IF k = 0 THEN I!NothingRead ELSE I!ReadLine(t[k - 1], lines[k])
  <2> SUFFICES ASSUME NEW k \in 0 .. n
               PROVE  t[k] = IF k = 0 THEN I!NothingRead ELSE I!ReadLine(t[k - 1], lines[k])
    OBVIOUS
  <2>1. k # 0 => t[k - 1] = r[k - 1]
    BY <1>3
  <2>2. t[k] = IF k = n THEN last ELSE r[k]
    OBVIOUS
  <2> HIDE DEF t
  <2>3. CASE k = n
    BY <1>3, <2>1, <2>2, <2>3
  <2>4. CASE k # n
    <3>1. k \in 0 .. n - 1
      BY <1>3, <2>4
    <3> QED
      BY <1>6, <2>1, <2>2, <2>4, <3>1
  <2> QED
    BY <2>3, <2>4
<1>8. ReadingIs(t, lines, n)
  <2>1. t = [k \in 0 .. n |-> t[k]]
    OBVIOUS
  <2> HIDE DEF t
  <2> QED
    BY <1>7, <2>1 DEF ReadingIs
<1> QED
  BY <1>1, <1>8

(* S is read from place a on. *)
Steps(r, a, S) == \A n \in 1 .. Len(S) : r[a + n] = I!ReadLine(r[a + n - 1], S[n])

(* ReadDesc returns what has been read after the last line. *)
LEMMA ReadDescReads ==
  ASSUME NEW lines, Len(lines) \in Nat
  PROVE  \E r : /\ r[0] = I!NothingRead /\ Steps(r, 0, lines)
                /\ I!ReadDesc(lines) = r[Len(lines)].fields
<1> DEFINE m == Len(lines)
           r == CHOOSE x : ReadingIs(x, lines, m)
<1>1. ReadingIs(r, lines, m)
  BY ReadingExists
<1>2. I!ReadDesc(lines) = r[m].fields
  BY DEF I!ReadDesc, ReadingIs
<1> HIDE DEF r
<1>3. \A n \in 0 .. m :
        r[n] = IF n = 0 THEN I!NothingRead ELSE I!ReadLine(r[n - 1], lines[n])
  BY <1>1 DEF ReadingIs
<1>4. r[0] = I!NothingRead /\ Steps(r, 0, lines)
  BY <1>3 DEF Steps
<1> QED
  BY <1>2, <1>4

(* Two texts one after the other. *)
LEMMA StepsSplit ==
  ASSUME NEW L, NEW S \in Seq(L), NEW T \in Seq(L), NEW r, NEW a \in Nat, Steps(r, a, S \o T)
  PROVE  Steps(r, a, S) /\ Steps(r, a + Len(S), T) /\ a + Len(S) \in Nat
<1>1. Len(S) \in Nat /\ Len(T) \in Nat /\ Len(S \o T) = Len(S) + Len(T)
  BY LenProperties, ConcatProperties
<1>2. /\ \A n \in 1 .. Len(S) : (S \o T)[n] = S[n]
      /\ \A n \in 1 .. Len(T) : (S \o T)[Len(S) + n] = T[n]
  BY <1>1, ConcatProperties
<1>3. Steps(r, a, S)
  BY <1>1, <1>2 DEF Steps
<1>4. Steps(r, a + Len(S), T)
  <2> SUFFICES ASSUME NEW n \in 1 .. Len(T)
               PROVE  r[(a + Len(S)) + n] = I!ReadLine(r[(a + Len(S)) + n - 1], T[n])
    BY DEF Steps
  <2>1. Len(S) + n \in 1 .. Len(S \o T)
    BY <1>1
  <2>2. r[a + (Len(S) + n)] = I!ReadLine(r[a + (Len(S) + n) - 1], T[n])
    BY <1>2, <2>1 DEF Steps
  <2>3. a + (Len(S) + n) = (a + Len(S)) + n /\ a + (Len(S) + n) - 1 = (a + Len(S)) + n - 1
    BY <1>1
  <2> QED
    BY <2>2, <2>3
<1> QED
  BY <1>1, <1>3, <1>4

-----------------------------------------------------------------------------
(* What pacman writes of a package, and what is read of it. *)
Line == I!Text \cup {I!Heading(k) : k \in I!Keys} \cup {I!Blank}

(* A package as InventoryAssumption has it. *)
Installable(p) ==
  /\ p \in [I!Keys -> Seq(I!Text \cup {I!Heading(k) : k \in I!Keys})]
  /\ Len(p["DESC"]) <= 1
  /\ \A k \in I!Keys \ {"DESC"} : p[k] \in Seq(I!Text)

(* Kinds of lines do not mix. *)
LEMMA Kinds ==
  /\ \A line \in I!Text : line # I!Blank /\ \A k \in I!Keys : line # I!Heading(k)
  /\ \A k \in I!Keys : I!Blank # I!Heading(k)
<1>1. \A line \in I!Text : Len(line) = 1
  BY DEF I!Text
<1>2. Len(I!Blank) = 0 /\ \A k \in I!Keys : Len(I!Heading(k)) = 2
  BY DEF I!Blank, I!Heading
<1> QED
  BY <1>1, <1>2

(* What a line does to the reader: a text is appended to the open field, *)
LEMMA TextRead ==
  ASSUME NEW line \in I!Text, NEW key, key # "", NEW fields
  PROVE  I!ReadLine([key |-> key, fields |-> fields], line) =
           [key |-> key, fields |-> [fields EXCEPT ![key] = Append(@, line)]]
  BY Kinds DEF I!ReadLine

(* a heading opens its field, *)
LEMMA HeadingRead ==
  ASSUME NEW k \in I!Keys, NEW reader
  PROVE  I!ReadLine(reader, I!Heading(k)) =
           [key |-> k, fields |-> I!Open(reader.fields, k)]
<1>1. I!Heading(k)[2] = k
  BY DEF I!Heading
<1> QED
  BY <1>1 DEF I!ReadLine

(* and a blank line is passed over. *)
LEMMA BlankRead ==
  ASSUME NEW reader
  PROVE  I!ReadLine(reader, I!Blank) = reader
  BY Kinds DEF I!ReadLine

(* What is held once the sections of D have been read: what is in these, and  *)
(* nothing in a field that a description opened before its time.            *)
Held(f, p, D) ==
  /\ DOMAIN f \in SUBSET I!Keys
  /\ f = [k \in DOMAIN f |-> f[k]]
  /\ \A k \in I!Keys \ {"DESC"} :
       /\ k \in DOMAIN f => f[k] = IF k \in D THEN p[k] ELSE <<>>
       /\ k \notin DOMAIN f /\ k \in D => p[k] = <<>>
  /\ \A k \in DOMAIN f : p[k] = <<>> => p["DESC"] = <<I!Heading(k)>>
  /\ "DESC" \in D => \A k \in I!Keys : p["DESC"] = <<I!Heading(k)>> => k \in DOMAIN f

(* So it is with what the reader has. *)
Holds(reader, p, D) ==
  \E key, f : reader = [key |-> key, fields |-> f] /\ Held(f, p, D)

(* A field after some of its lines. *)
Filled(g, k, t) == [j \in DOMAIN g |-> IF j = k THEN t ELSE g[j]]

(* The lines of a section that has any: heading, texts, blank. *)
LEMMA SectionShape ==
  ASSUME NEW p, NEW k \in I!Keys, NEW L, p[k] \in Seq(L), p[k] # <<>>
  PROVE  LET S == I!Section(p, k)
             N == Len(p[k])
         IN  /\ N \in Nat /\ Len(S) = N + 2
             /\ S[1] = I!Heading(k) /\ S[N + 2] = I!Blank
             /\ \A n \in 1 .. N : S[1 + n] = p[k][n]
<1> DEFINE s == p[k]
           h == I!Heading(k)
           b == I!Blank
<1>1. I!Section(p, k) = <<h>> \o s \o <<b>>
  BY DEF I!Section
<1> HIDE DEF s, h, b
<1>2. /\ Len(s) \in Nat /\ Len(<<h>> \o s \o <<b>>) = Len(s) + 2
      /\ (<<h>> \o s \o <<b>>)[1] = h /\ (<<h>> \o s \o <<b>>)[Len(s) + 2] = b
      /\ \A n \in 1 .. Len(s) : (<<h>> \o s \o <<b>>)[1 + n] = s[n]
  <2>1. s \in Seq(L)
    BY DEF s
  <2> QED
    BY <2>1
<1> QED
  BY <1>1, <1>2 DEF s, h, b

(* The section of a text or of several, read by a reader that holds D.       *)
LEMMA SectionRead ==
  ASSUME NEW p, Installable(p), NEW k \in I!Keys \ {"DESC"}, NEW D, k \notin D,
         NEW r, NEW a \in Nat, Holds(r[a], p, D), Steps(r, a, I!Section(p, k))
  PROVE  Holds(r[a + Len(I!Section(p, k))], p, D \cup {k})
<1> PICK key, f : r[a] = [key |-> key, fields |-> f] /\ Held(f, p, D)
  BY DEF Holds
<1> DEFINE S == I!Section(p, k)
           N == Len(p[k])
           g == I!Open(f, k)
<1>1. p[k] \in Seq(I!Text)
  BY DEF Installable
<1>2. CASE p[k] = <<>>
  <2>1. S = <<>> /\ Len(S) = 0
    BY <1>2 DEF I!Section
  <2> HIDE DEF S
  <2>2. a + Len(S) = a
    BY <2>1
  <2>3. Held(f, p, D \cup {k})
    BY <1>2 DEF Held
  <2> QED
    BY <2>2, <2>3 DEF Holds, S
<1>3. CASE p[k] # <<>>
  <2>1. /\ N \in Nat /\ Len(S) = N + 2
        /\ S[1] = I!Heading(k) /\ S[N + 2] = I!Blank
        /\ \A n \in 1 .. N : S[1 + n] = p[k][n]
    BY <1>1, <1>3, SectionShape
  <2> HIDE DEF S, N
  <2>2. r[a + 1] = [key |-> k, fields |-> g]
    <3>1. r[a + 1] = I!ReadLine(r[a + 1 - 1], S[1])
      BY <2>1 DEF Steps, S
    <3> QED
      BY <2>1, <3>1, HeadingRead
  <2>3. g = [j \in DOMAIN g |-> g[j]] /\ k \in DOMAIN g /\ g[k] = <<>> /\ k # ""
    BY DEF I!Open, Held, I!Keys
  <2> HIDE DEF g
  <2> DEFINE Bad == {n \in 0 .. N : r[a + 1 + n] #
                       [key |-> k, fields |-> Filled(g, k, SubSeq(p[k], 1, n))]}
  <2>4. Bad = {}
    <3> SUFFICES ASSUME NEW b \in Bad PROVE FALSE
      OBVIOUS
    <3>1. PICK n \in Bad : \A c \in Bad : n <= c
      <4>1. Bad \in SUBSET Nat
        BY <2>1
      <4> HIDE DEF Bad
      <4> QED
        BY <4>1, LeastPlace
    <3>2. n # 0
      <4>1. SubSeq(p[k], 1, 0) = <<>>
        BY <1>1
      <4>2. Filled(g, k, <<>>) = g
        BY <2>3 DEF Filled
      <4>3. r[a + 1 + 0] = [key |-> k, fields |-> Filled(g, k, SubSeq(p[k], 1, 0))]
        <5>1. a + 1 + 0 = a + 1
          OBVIOUS
        <5> QED
          BY <2>2, <4>1, <4>2, <5>1, Zenon
      <4> QED
        BY <3>1, <4>3
    <3>3. n \in 1 .. N /\ n - 1 \in 0 .. N /\ ~ (n <= n - 1)
      BY <2>1, <3>1, <3>2
    <3>4. n - 1 \notin Bad
      <4> HIDE DEF Bad
      <4> QED
        BY <3>1, <3>3
    <3> DEFINE t == SubSeq(p[k], 1, n - 1)
    <3>5. r[a + 1 + (n - 1)] = [key |-> k, fields |-> Filled(g, k, t)]
      BY <3>3, <3>4
    <3>6. r[a + (1 + n)] = I!ReadLine(r[a + (1 + n) - 1], p[k][n])
      <4>1. 1 + n \in 1 .. Len(S)
        BY <2>1, <3>3
      <4> QED
        BY <2>1, <3>3, <4>1 DEF Steps, S
    <3>7. a + (1 + n) = a + 1 + n /\ a + (1 + n) - 1 = a + 1 + (n - 1)
      BY <3>3
    <3>8. p[k][n] \in I!Text
      BY <1>1, <3>3 DEF N
    <3>9. SubSeq(p[k], 1, n) = Append(t, p[k][n])
      <4> DEFINE s == p[k]
      <4>1. s \in Seq(I!Text) /\ n \in 1 .. Len(s)
        BY <1>1, <3>3 DEF N
      <4> HIDE DEF s
      <4>2. SubSeq(s, 1, n) = Append(SubSeq(s, 1, n - 1), s[n])
        BY <4>1
      <4> QED
        BY <4>2 DEF s
    <3> HIDE DEF t
    <3>10. r[a + 1 + n] =
             [key |-> k, fields |-> [Filled(g, k, t) EXCEPT ![k] = Append(@, p[k][n])]]
      <4>1. I!ReadLine([key |-> k, fields |-> Filled(g, k, t)], p[k][n]) =
              [key |-> k, fields |-> [Filled(g, k, t) EXCEPT ![k] = Append(@, p[k][n])]]
        BY <2>3, <3>8, TextRead
      <4> QED
        BY <3>5, <3>6, <3>7, <4>1, Zenon
    <3>11. [Filled(g, k, t) EXCEPT ![k] = Append(@, p[k][n])] =
             Filled(g, k, Append(t, p[k][n]))
      BY <2>3 DEF Filled
    <3> QED
      BY <3>1, <3>9, <3>10, <3>11
  <2>5. r[a + 1 + N] = [key |-> k, fields |-> Filled(g, k, p[k])]
    <3>1. SubSeq(p[k], 1, N) = p[k]
      BY <1>1 DEF N
    <3>2. N \in 0 .. N
      BY <2>1
    <3> QED
      BY <2>4, <3>1, <3>2
  <2>6. r[a + Len(S)] = r[a + 1 + N]
    <3>1. r[a + (N + 2)] = I!ReadLine(r[a + (N + 2) - 1], I!Blank)
      <4>1. N + 2 \in 1 .. Len(S)
        BY <2>1
      <4> QED
        BY <2>1, <4>1 DEF Steps, S
    <3>2. a + (N + 2) - 1 = a + 1 + N
      BY <2>1
    <3> QED
      BY <2>1, <3>1, <3>2, BlankRead
  <2>7. Held(Filled(g, k, p[k]), p, D \cup {k})
    BY <1>3 DEF Held, Filled, I!Open, g
  <2> QED
    BY <2>5, <2>6, <2>7 DEF Holds, S
<1> QED
  BY <1>2, <1>3

(* A sequence that is not empty and no longer than one is its one element. *)
LEMMA OneLine ==
  ASSUME NEW L, NEW d \in Seq(L), Len(d) <= 1, d # <<>>
  PROVE  d[1] \in L /\ d = <<d[1]>>
<1>1. Len(d) \in Nat
  BY LenProperties
<1>2. Len(d) # 0
  BY EmptySeq
<1>3. Len(d) = 1
  <2> DEFINE n == Len(d)
  <2>1. n \in Nat /\ n # 0 /\ n <= 1
    BY <1>1, <1>2
  <2> HIDE DEF n
  <2>2. n = 1
    BY <2>1
  <2> QED
    BY <2>2 DEF n
<1>4. d[1] \in L
  BY <1>3
<1>5. d = <<d[1]>>
  BY <1>3
<1> QED
  BY <1>4, <1>5

(* That of a description: a text is put where nobody looks, a heading opens a *)
(* field, unless that is open already.                                     *)
LEMMA DescriptionRead ==
  ASSUME NEW p, Installable(p), NEW D, "DESC" \notin D,
         NEW r, NEW a \in Nat, Holds(r[a], p, D), Steps(r, a, I!Section(p, "DESC"))
  PROVE  Holds(r[a + Len(I!Section(p, "DESC"))], p, D \cup {"DESC"})
<1> PICK key, f : r[a] = [key |-> key, fields |-> f] /\ Held(f, p, D)
  BY DEF Holds
<1> DEFINE S == I!Section(p, "DESC")
           g == I!Open(f, "DESC")
<1>1. p["DESC"] \in Seq(I!Text \cup {I!Heading(k) : k \in I!Keys}) /\ Len(p["DESC"]) <= 1
  BY DEF Installable, I!Keys
<1>2. CASE p["DESC"] = <<>>
  <2>1. S = <<>> /\ Len(S) = 0
    BY <1>2 DEF I!Section
  <2> HIDE DEF S
  <2>2. a + Len(S) = a
    BY <2>1
  <2>3. Held(f, p, D \cup {"DESC"})
    BY <1>2 DEF Held
  <2> QED
    BY <2>2, <2>3 DEF Holds, S
<1>3. CASE p["DESC"] # <<>>
  <2>1. PICK line \in I!Text \cup {I!Heading(k) : k \in I!Keys} : p["DESC"] = <<line>>
    <3> DEFINE d == p["DESC"]
               L == I!Text \cup {I!Heading(k) : k \in I!Keys}
    <3>1. d \in Seq(L) /\ Len(d) <= 1 /\ d # <<>>
      BY <1>1, <1>3
    <3> HIDE DEF d, L
    <3>2. d[1] \in L /\ d = <<d[1]>>
      BY <3>1, OneLine
    <3> QED
      BY <3>2 DEF d, L
  <2>2. Len(S) = 3 /\ S[1] = I!Heading("DESC") /\ S[2] = line /\ S[3] = I!Blank
    <3>1. S = <<I!Heading("DESC")>> \o <<line>> \o <<I!Blank>>
      BY <1>3, <2>1 DEF I!Section
    <3> DEFINE h == I!Heading("DESC")
               b == I!Blank
    <3> HIDE DEF S, h, b
    <3>2. Len(<<h>> \o <<line>> \o <<b>>) = 3 /\ (<<h>> \o <<line>> \o <<b>>)[1] = h
          /\ (<<h>> \o <<line>> \o <<b>>)[2] = line /\ (<<h>> \o <<line>> \o <<b>>)[3] = b
      OBVIOUS
    <3> QED
      BY <3>1, <3>2 DEF h, b
  <2> HIDE DEF S
  <2>3. /\ r[a + 1] = I!ReadLine(r[a], I!Heading("DESC"))
        /\ r[a + 2] = I!ReadLine(r[a + 1], line)
        /\ r[a + 3] = I!ReadLine(r[a + 2], I!Blank)
    <3>1. \A n \in 1 .. 3 : r[a + n] = I!ReadLine(r[a + n - 1], S[n])
      BY <2>2 DEF Steps, S
    <3>2. a + 1 - 1 = a /\ a + 2 - 1 = a + 1 /\ a + 3 - 1 = a + 2
      OBVIOUS
    <3> QED
      BY <2>2, <3>1, <3>2
  <2>4. r[a + 1] = [key |-> "DESC", fields |-> g]
    BY <2>3, HeadingRead DEF I!Keys
  <2>5. r[a + 3] = r[a + 2]
    BY <2>3, BlankRead
  <2>6. CASE line \in I!Text
    <3>1. r[a + 2] =
            [key |-> "DESC", fields |-> [g EXCEPT !["DESC"] = Append(@, line)]]
      BY <2>3, <2>4, <2>6, TextRead
    <3>2. Held([g EXCEPT !["DESC"] = Append(@, line)], p, D \cup {"DESC"})
      <4>1. \A k \in I!Keys : p["DESC"] # <<I!Heading(k)>>
        BY <2>1, <2>6, Kinds
      <4> QED
        BY <1>3, <4>1 DEF Held, I!Open, I!Keys
    <3> QED
      BY <2>2, <2>5, <3>1, <3>2 DEF Holds, S
  <2>7. CASE line \in {I!Heading(k) : k \in I!Keys}
    <3>1. PICK k \in I!Keys : line = I!Heading(k)
      BY <2>7
    <3>2. r[a + 2] = [key |-> k, fields |-> I!Open(g, k)]
      BY <2>3, <2>4, <3>1, HeadingRead
    <3>3. p["DESC"] = <<I!Heading(k)>>
      BY <2>1, <3>1
    <3>4. Held(I!Open(g, k), p, D \cup {"DESC"})
      <4>1. \A j \in I!Keys : p["DESC"] = <<I!Heading(j)>> => j = k
        BY <3>3 DEF I!Heading
      <4> QED
        BY <1>3, <3>3, <4>1 DEF Held, I!Open, I!Keys
    <3> QED
      BY <2>2, <2>5, <3>2, <3>4 DEF Holds, S
  <2> QED
    BY <2>6, <2>7
<1> QED
  BY <1>2, <1>3

(* Every section consists of lines. *)
LEMMA SectionLines ==
  ASSUME NEW p, Installable(p), NEW k \in I!Keys
  PROVE  I!Section(p, k) \in Seq(Line)
<1> DEFINE s == p[k]
           h == I!Heading(k)
           b == I!Blank
           L == I!Text \cup {I!Heading(j) : j \in I!Keys}
<1>1. s \in Seq(L) /\ h \in Line /\ b \in Line /\ L \in SUBSET Line
  BY DEF Installable, Line
<1>2. I!Section(p, k) = IF s = <<>> THEN <<>> ELSE <<h>> \o s \o <<b>>
  BY DEF I!Section
<1> HIDE DEF s, h, b, L
<1>3. s \in Seq(Line)
  BY <1>1, SeqMonotonic
<1>4. <<h>> \in Seq(Line) /\ <<b>> \in Seq(Line)
  BY <1>1
<1>5. (<<h>> \o s) \o <<b>> \in Seq(Line)
  BY <1>3, <1>4, ConcatProperties
<1>6. <<>> \in Seq(Line)
  BY EmptySeq
<1> QED
  BY <1>2, <1>5, <1>6

(* The reader after Q, which begins the file. *)
ReadAs(r, Q, p, D) == Q \in Seq(Line) /\ (Steps(r, 0, Q) => Holds(r[Len(Q)], p, D))

(* A description that is read as far as D is read one section further. *)
LEMMA NextSection ==
  ASSUME NEW p, Installable(p), NEW k \in I!Keys, NEW D, k \notin D,
         NEW r, NEW Q, ReadAs(r, Q, p, D)
  PROVE  ReadAs(r, Q \o I!Section(p, k), p, D \cup {k})
<1> DEFINE S == I!Section(p, k)
<1>1. S \in Seq(Line) /\ Q \in Seq(Line)
  BY SectionLines DEF ReadAs
<1>2. Q \o S \in Seq(Line) /\ Len(Q \o S) = Len(Q) + Len(S) /\ Len(Q) \in Nat /\ Len(S) \in Nat
  <2> HIDE DEF S
  <2> QED
    BY <1>1, ConcatProperties, LenProperties
<1>3. SUFFICES ASSUME Steps(r, 0, Q \o S) PROVE Holds(r[Len(Q) + Len(S)], p, D \cup {k})
  BY <1>2 DEF ReadAs
<1>4. Steps(r, 0, Q) /\ Steps(r, Len(Q), S)
  <2>1. Steps(r, 0, Q) /\ Steps(r, 0 + Len(Q), S)
    <3> HIDE DEF S
    <3> QED
      BY <1>1, <1>3, StepsSplit
  <2>2. 0 + Len(Q) = Len(Q)
    BY <1>2
  <2> QED
    BY <2>1, <2>2
<1>5. Holds(r[Len(Q)], p, D)
  BY <1>4 DEF ReadAs
<1> QED
  BY <1>2, <1>4, <1>5, SectionRead, DescriptionRead

(* What pacman writes is read back. *)
LEMMA PackageRead ==
  ASSUME NEW p, Installable(p)
  PROVE  Held(I!ReadDesc(I!Description(p)), p, I!Keys)
<1> DEFINE S(k) == I!Section(p, k)
           Q0 == <<>>
           Q1 == Q0 \o S("NAME")
           Q2 == Q1 \o S("VERSION")
           Q3 == Q2 \o S("DESC")
           Q4 == Q3 \o S("URL")
           Q5 == Q4 \o S("ARCH")
           Q6 == Q5 \o S("LICENSE")
<1>1. I!Description(p) = Q6
  <2>1. <<>> \o S("NAME") = S("NAME")
    <3> DEFINE s == S("NAME")
    <3>1. s \in Seq(Line)
      BY SectionLines DEF I!Keys
    <3> HIDE DEF s
    <3>2. <<>> \o s = s
      BY <3>1
    <3> QED
      BY <3>2 DEF s
  <2> QED
    BY <2>1 DEF I!Description
<1> HIDE DEF S, Q0, Q1, Q2, Q3, Q4, Q5, Q6
<1>2. ASSUME NEW r, r[0] = I!NothingRead
      PROVE  ReadAs(r, Q6, p, I!Keys)
  <2>1. ReadAs(r, Q0, p, {})
    <3>1. Held([k \in {} |-> <<>>], p, {})
      BY DEF Held
    <3>2. Holds(I!NothingRead, p, {})
      BY <3>1 DEF Holds, I!NothingRead
    <3>3. <<>> \in Seq(Line) /\ Len(<<>>) = 0
      BY EmptySeq
    <3> QED
      BY <1>2, <3>2, <3>3 DEF ReadAs, Q0
  <2>2. ReadAs(r, Q1, p, {"NAME"})
    <3>1. {"NAME"} = {} \cup {"NAME"}
      OBVIOUS
    <3> QED
      BY <2>1, <3>1, NextSection DEF I!Keys, Q1, S
  <2>3. ReadAs(r, Q2, p, {"NAME", "VERSION"})
    <3>1. {"NAME", "VERSION"} = {"NAME"} \cup {"VERSION"}
      OBVIOUS
    <3> QED
      BY <2>2, <3>1, NextSection DEF I!Keys, Q2, S
  <2>4. ReadAs(r, Q3, p, {"NAME", "VERSION", "DESC"})
    <3>1. {"NAME", "VERSION", "DESC"} = {"NAME", "VERSION"} \cup {"DESC"}
      OBVIOUS
    <3> QED
      BY <2>3, <3>1, NextSection DEF I!Keys, Q3, S
  <2>5. ReadAs(r, Q4, p, {"NAME", "VERSION", "DESC", "URL"})
    <3>1. {"NAME", "VERSION", "DESC", "URL"} = {"NAME", "VERSION", "DESC"} \cup {"URL"}
      OBVIOUS
    <3> QED
      BY <2>4, <3>1, NextSection DEF I!Keys, Q4, S
  <2>6. ReadAs(r, Q5, p, {"NAME", "VERSION", "DESC", "URL", "ARCH"})
    <3>1. {"NAME", "VERSION", "DESC", "URL", "ARCH"} =
            {"NAME", "VERSION", "DESC", "URL"} \cup {"ARCH"}
      OBVIOUS
    <3> QED
      BY <2>5, <3>1, NextSection DEF I!Keys, Q5, S
  <2>7. I!Keys = {"NAME", "VERSION", "DESC", "URL", "ARCH"} \cup {"LICENSE"}
    BY DEF I!Keys
  <2> QED
    BY <2>6, <2>7, NextSection DEF I!Keys, Q6, S
<1>3. Q6 \in Seq(Line)
  <2>1. ReadAs([n \in {0} |-> I!NothingRead], Q6, p, I!Keys)
    BY <1>2
  <2> QED
    BY <2>1 DEF ReadAs
<1>4. PICK r : /\ r[0] = I!NothingRead /\ Steps(r, 0, Q6)
               /\ I!ReadDesc(Q6) = r[Len(Q6)].fields
  BY <1>3, ReadDescReads, LenProperties
<1>5. Holds(r[Len(Q6)], p, I!Keys)
  BY <1>2, <1>4 DEF ReadAs
<1>6. PICK key, f : r[Len(Q6)] = [key |-> key, fields |-> f] /\ Held(f, p, I!Keys)
  BY <1>5 DEF Holds
<1> QED
  BY <1>1, <1>4, <1>6

(* The record that load_packages makes of a package. *)
LicensesOf(p) ==
  IF p["LICENSE"] # <<>> THEN p["LICENSE"]
  ELSE IF I!Hidden(p) THEN <<>> ELSE << <<I!Unknown>> >>
Loaded(p) ==
  [name |-> p["NAME"][1], version |-> p["VERSION"][1], arch |-> p["ARCH"][1],
   licenses |-> LicensesOf(p), url |-> p["URL"]]
Named(p) == \A k \in {"NAME", "VERSION", "ARCH"} : Len(p[k]) = 1

(* The fields that load_packages takes from it. *)
LEMMA FieldsRead ==
  ASSUME NEW p, Installable(p)
  PROVE  LET f == I!ReadDesc(I!Description(p))
         IN  /\ \A k \in I!Keys \ {"DESC"} : I!Get(f, k, <<>>) = p[k]
             /\ \A k \in I!Keys \ {"DESC"} : p[k] # <<>> => f[k] = p[k]
             /\ I!Licenses(f) = LicensesOf(p)
<1> DEFINE f == I!ReadDesc(I!Description(p))
<1>1. Held(f, p, I!Keys)
  BY PackageRead
<1> HIDE DEF f
<1>2. ASSUME NEW k \in I!Keys \ {"DESC"}
      PROVE  /\ k \in DOMAIN f => f[k] = p[k]
             /\ k \notin DOMAIN f => p[k] = <<>>
  BY <1>1 DEF Held
<1>3. I!Licenses(f) = LicensesOf(p)
  <2>1. "LICENSE" \in I!Keys \ {"DESC"}
    BY DEF I!Keys
  <2>2. "LICENSE" \in DOMAIN f /\ p["LICENSE"] = <<>> => I!Hidden(p)
    BY <1>1 DEF Held, I!Hidden
  <2>3. I!Hidden(p) => "LICENSE" \in DOMAIN f
    BY <1>1 DEF Held, I!Hidden, I!Keys
  <2> QED
    BY <1>2, <2>1, <2>2, <2>3 DEF I!Licenses, I!Get, LicensesOf
<1> QED
  BY <1>2, <1>3 DEF I!Get, f

-----------------------------------------------------------------------------
(* Sorting. *)

(* What a record must be for the order to be one. *)
Record ==
  [name : I!Text, version : I!Text, arch : I!Text, licenses : Seq(I!Text), url : Seq(I!Text)]
Distinct(s) ==
  \A i, j \in 1 .. Len(s) : i # j => s[i].name # s[j].name \/ s[i].version # s[j].version

(* Texts are the same if their numbers are. *)
LEMMA TextIs ==
  ASSUME NEW t \in I!Text, NEW u \in I!Text
  PROVE  t[1] \in Nat /\ (t = u <=> t[1] = u[1])
  BY DEF I!Text

(* Names, then versions: a strict order, total where no two agree in both. *)
LEMMA BeforeOrders ==
  /\ \A p, q, o \in Record : I!Before(p, q) /\ I!Before(q, o) => I!Before(p, o)
  /\ \A p \in Record : ~ I!Before(p, p)
  /\ \A p, q \in Record : I!Before(p, q) \/ I!Before(q, p)
                            \/ (p.name = q.name /\ p.version = q.version)
<1>1. ASSUME NEW p \in Record, NEW q \in Record
      PROVE  /\ p.name[1] \in Nat /\ p.version[1] \in Nat
             /\ p.name = q.name <=> p.name[1] = q.name[1]
             /\ p.version = q.version <=> p.version[1] = q.version[1]
  BY TextIs DEF Record
<1> QED
  BY <1>1 DEF I!Before

(* Every package has a place of its own, and the places rise with the order.  *)
LEMMA SortedIs ==
  ASSUME NEW s \in Seq(Record), Distinct(s)
  PROVE  /\ Len(I!Sorted(s)) = Len(s)
         /\ \E q \in [1 .. Len(s) -> 1 .. Len(s)] :
              /\ I!Sorted(s) = [k \in 1 .. Len(s) |-> s[q[k]]]
              /\ \A i \in 1 .. Len(s) : \E k \in 1 .. Len(s) : q[k] = i
         /\ \A k, l \in 1 .. Len(s) : k < l => I!Before(I!Sorted(s)[k], I!Sorted(s)[l])
<1> DEFINE n == Len(s)
           Earlier(i) == {j \in 1 .. n : I!Before(s[j], s[i])}
           place == [i \in 1 .. n |-> I!Place(s, i)]
<1>0. n \in Nat /\ IsFiniteSet(1 .. n) /\ Cardinality(1 .. n) = n
  <2>1. n \in Nat
    BY LenProperties
  <2> HIDE DEF n
  <2> QED
    BY <2>1, FS_Interval
<1>1. \A i \in 1 .. n : s[i] \in Record
  OBVIOUS
<1>2. ASSUME NEW i \in 1 .. n
      PROVE  /\ IsFiniteSet(Earlier(i)) /\ Cardinality(Earlier(i)) \in Nat
             /\ I!Place(s, i) = 1 + Cardinality(Earlier(i))
             /\ I!Place(s, i) \in 1 .. n
  <2>1. Earlier(i) \in SUBSET (1 .. n) /\ i \in 1 .. n /\ i \notin Earlier(i)
    BY <1>1, BeforeOrders
  <2>2. IsFiniteSet(Earlier(i)) /\ Cardinality(Earlier(i)) \in Nat
        /\ Cardinality(Earlier(i)) <= n
    BY <1>0, <2>1, FS_Subset, FS_CardinalityType
  <2>3. Cardinality(Earlier(i)) # n
    BY <1>0, <2>1, FS_Subset
  <2>4. I!Place(s, i) = 1 + Cardinality(Earlier(i))
    <3>1. \A S : I!Cardinality(S) = Cardinality(S)
      BY DEF Cardinality, I!Cardinality
    <3> QED
      BY <3>1 DEF I!Place
  <2> HIDE DEF Earlier
  <2> QED
    BY <1>0, <2>2, <2>3, <2>4
<1>3. ASSUME NEW i \in 1 .. n, NEW j \in 1 .. n, I!Before(s[i], s[j])
      PROVE  I!Place(s, i) < I!Place(s, j)
  <2>1. Earlier(i) \in SUBSET Earlier(j) /\ i \in Earlier(j) /\ i \notin Earlier(i)
    BY <1>1, <1>3, BeforeOrders
  <2>2. Cardinality(Earlier(i)) <= Cardinality(Earlier(j))
        /\ Cardinality(Earlier(j)) # Cardinality(Earlier(i))
    <3> HIDE DEF Earlier
    <3> QED
      BY <1>2, <2>1, FS_Subset
  <2> HIDE DEF Earlier
  <2> QED
    BY <1>2, <2>2
<1> HIDE DEF Earlier
<1>4. \A i, j \in 1 .. n : i # j => I!Before(s[i], s[j]) \/ I!Before(s[j], s[i])
  BY <1>1, BeforeOrders DEF Distinct
<1>5. \A i, j \in 1 .. n : i # j => I!Place(s, i) # I!Place(s, j)
  BY <1>2, <1>3, <1>4
<1>6. place \in Surjection(1 .. n, 1 .. n)
  <2>1. place \in [1 .. n -> 1 .. n] /\ \A i, j \in 1 .. n : place[i] = place[j] => i = j
    BY <1>2, <1>5
  <2> HIDE DEF place
  <2>2. place \in Injection(1 .. n, 1 .. n)
    BY <2>1, Fun_IsInj
  <2> QED
    BY <1>0, <2>2, FS_Injection
<1>7. \A k \in 1 .. n : \E i \in 1 .. n : I!Place(s, i) = k
  <2>1. \A k \in 1 .. n : \E i \in 1 .. n : place[i] = k
    <3> HIDE DEF place
    <3> QED
      BY <1>6, Fun_SurjectionProperties
  <2> QED
    BY <2>1
<1> DEFINE q == [k \in 1 .. n |-> CHOOSE i \in 1 .. n : I!Place(s, i) = k]
<1>8. \A k \in 1 .. n : q[k] \in 1 .. n /\ I!Place(s, q[k]) = k
  BY <1>7
<1>9. q \in [1 .. n -> 1 .. n]
  BY <1>8
<1>10. I!Sorted(s) = [k \in 1 .. n |-> s[q[k]]]
  BY DEF I!Sorted
<1> HIDE DEF q
<1>11. \A i \in 1 .. n : \E k \in 1 .. n : q[k] = i
  BY <1>2, <1>5, <1>8
<1>12. \A k, l \in 1 .. n : k < l => I!Before(s[q[k]], s[q[l]])
  <2> SUFFICES ASSUME NEW k \in 1 .. n, NEW l \in 1 .. n, k < l
               PROVE  I!Before(s[q[k]], s[q[l]])
    OBVIOUS
  <2>1. q[k] # q[l] /\ q[k] \in 1 .. n /\ q[l] \in 1 .. n
        /\ I!Place(s, q[k]) = k /\ I!Place(s, q[l]) = l
    BY <1>8
  <2>2. I!Before(s[q[l]], s[q[k]]) => l < k
    BY <1>3, <2>1
  <2> QED
    BY <1>0, <1>4, <2>1, <2>2
<1>13. Len(I!Sorted(s)) = n
  BY <1>0, <1>10
<1> QED
  BY <1>9, <1>10, <1>11, <1>12, <1>13

-----------------------------------------------------------------------------
(* The files. *)

Sure == listPc \in {"table", "sbom", "licenses", "notices", "done"}

(* Packages loaded are those of the first directories. *)
LoadedInv ==
  listPc = "load" =>
    \A i \in 1 .. Len(packages) : packages[i] = Loaded(database[i]) /\ Named(database[i])

(* Packages sorted are all of them, each in one place. *)
InPlaces(db, s) ==
  /\ Len(s) = Len(db) /\ s # <<>>
  /\ \A i \in 1 .. Len(db) : Named(db[i])
  /\ \E q \in [1 .. Len(db) -> 1 .. Len(db)] :
       /\ \A k \in 1 .. Len(db) : s[k] = Loaded(db[q[k]])
       /\ \A i \in 1 .. Len(db) : \E k \in 1 .. Len(db) : q[k] = i
  /\ \A k, l \in 1 .. Len(s) : k < l => I!Before(s[k], s[l])
SortedInv == Sure => InPlaces(database, packages)

(* Each file is written from them. *)
NoTabs(s) == \A i \in 1 .. Len(s) : <<I!Tabbed>> \notin I!Texts(s[i])
ComponentsOf(s) ==
  [i \in 1 .. Len(s) |-> [bomref |-> <<s[i].name, s[i].version, s[i].arch>>,
                          licenses |-> s[i].licenses]]
ExpressionsOf(s) ==
  [e \in UNION {I!Range(s[i].licenses) : i \in 1 .. Len(s)} |->
     {s[i].name : i \in {j \in 1 .. Len(s) : e \in I!Range(s[j].licenses)}}]
WrittenInv ==
  /\ IF listPc \in {"sbom", "licenses", "notices", "done"}
     THEN tsv = packages /\ NoTabs(packages) ELSE tsv = <<>>
  /\ listPc \in {"licenses", "notices", "done"} => components = ComponentsOf(packages)
  /\ listPc \in {"notices", "done"} => expressions = ExpressionsOf(packages)
  /\ notices = IF listPc = "done" THEN Len(packages) ELSE 0

ListInv ==
  /\ database \in Databases
  /\ listPc \in {"load", "table", "sbom", "licenses", "notices", "done", "refused"}
  /\ packages \in Seq(Record) /\ Len(packages) <= Len(database)
  /\ LoadedInv /\ SortedInv /\ WrittenInv
  /\ I!RefusedForReason

(* The databases are sequences of packages as pacman writes them. *)
LEMMA DatabaseIs ==
  ASSUME NEW db \in Databases
  PROVE  /\ Len(db) \in Nat /\ (Len(db) = 0 => db = <<>>)
         /\ \A i \in 1 .. Len(db) : Installable(db[i])
         /\ \A i, j \in 1 .. Len(db) :
              i # j => db[i]["NAME"] # db[j]["NAME"] \/ db[i]["VERSION"] # db[j]["VERSION"]
<1>1. I!InventoryAssumption
  BY ToolsAssumption
<1> DEFINE P == [I!Keys -> Seq(I!Text \cup {I!Heading(k) : k \in I!Keys})]
<1>2. /\ db \in Seq(P)
      /\ \A i \in 1 .. Len(db) :
           /\ Len(db[i]["DESC"]) <= 1
           /\ \A k \in I!Keys \ {"DESC"} : db[i][k] \in Seq(I!Text)
      /\ \A i, j \in 1 .. Len(db) :
           i # j => <<db[i]["NAME"], db[i]["VERSION"]>> # <<db[j]["NAME"], db[j]["VERSION"]>>
  BY <1>1 DEF I!InventoryAssumption
<1>3. Len(db) \in Nat /\ (Len(db) = 0 => db = <<>>) /\ \A i \in 1 .. Len(db) : db[i] \in P
  <2> HIDE DEF P
  <2> QED
    BY <1>2, EmptySeq, LenProperties
<1>4. \A i \in 1 .. Len(db) : Installable(db[i])
  BY <1>2, <1>3 DEF Installable
<1> QED
  BY <1>2, <1>3, <1>4

(* What is loaded of a package with one name, version and architecture. *)
LEMMA LoadedIs ==
  ASSUME NEW p, Installable(p), Named(p)
  PROVE  /\ Loaded(p) \in Record
         /\ p["NAME"] = <<p["NAME"][1]>> /\ p["VERSION"] = <<p["VERSION"][1]>>
         /\ p["ARCH"] = <<p["ARCH"][1]>>
<1>1. ASSUME NEW s \in Seq(I!Text), Len(s) = 1
      PROVE  s = <<s[1]>> /\ s[1] \in I!Text
  BY <1>1
<1>2. \A k \in {"NAME", "VERSION", "ARCH"} :
        p[k] \in Seq(I!Text) /\ Len(p[k]) = 1
  BY DEF Installable, Named, I!Keys
<1>3. \A k \in {"NAME", "VERSION", "ARCH"} : p[k] = <<p[k][1]>> /\ p[k][1] \in I!Text
  <2> SUFFICES ASSUME NEW k \in {"NAME", "VERSION", "ARCH"}
               PROVE  p[k] = <<p[k][1]>> /\ p[k][1] \in I!Text
    OBVIOUS
  <2> DEFINE s == p[k]
  <2>1. s \in Seq(I!Text) /\ Len(s) = 1
    BY <1>2
  <2> HIDE DEF s
  <2>2. s = <<s[1]>> /\ s[1] \in I!Text
    BY <1>1, <2>1
  <2> QED
    BY <2>2 DEF s
<1>4. p["LICENSE"] \in Seq(I!Text) /\ p["URL"] \in Seq(I!Text)
  BY DEF Installable, I!Keys
<1>5. LicensesOf(p) \in Seq(I!Text)
  <2>1. <<>> \in Seq(I!Text) /\ << <<I!Unknown>> >> \in Seq(I!Text)
    <3>1. <<I!Unknown>> \in I!Text
      BY DEF I!Unknown, I!Text
    <3> QED
      BY <3>1, EmptySeq
  <2> QED
    BY <1>4, <2>1 DEF LicensesOf
<1> QED
  BY <1>3, <1>4, <1>5 DEF Loaded, Record

(* Before anything is loaded. *)
LEMMA ListInit == MCInit => ListInv
<1> SUFFICES ASSUME MCInit PROVE ListInv
  OBVIOUS
<1>1. database \in Databases /\ listPc = "load" /\ packages = <<>> /\ tsv = <<>> /\ notices = 0
  BY DEF MCInit, I!Init
<1>2. packages \in Seq(Record) /\ Len(packages) = 0
  BY <1>1, EmptySeq
<1> QED
  BY <1>1, <1>2, DatabaseIs
  DEF ListInv, LoadedInv, SortedInv, WrittenInv, Sure, I!RefusedForReason

(* A directory more, or the reason to refuse it. *)
LEMMA LoadStep ==
  ASSUME ListInv, I!LoadPackage
  PROVE  ListInv'
<1> DEFINE i == Len(packages) + 1
           p == database[i]
           f == I!ReadDesc(I!Description(p))
<1>1. Len(packages) \in Nat /\ Len(database) \in Nat /\ i \in 1 .. Len(database)
  <2>1. Len(packages) \in Nat /\ Len(database) \in Nat
    BY DatabaseIs, LenProperties DEF ListInv
  <2>2. Len(packages) < Len(database)
    BY DEF I!LoadPackage
  <2> QED
    BY <2>1, <2>2
<1>2. Installable(p)
  BY <1>1, DatabaseIs DEF ListInv
<1>3. /\ listPc = "load"
      /\ UNCHANGED <<database, tsv, components, expressions, notices>>
  BY DEF I!LoadPackage
<1>4. /\ \A k \in {"NAME", "VERSION", "ARCH", "URL"} : I!Get(f, k, <<>>) = p[k]
      /\ \A k \in {"NAME", "VERSION", "ARCH"} : p[k] # <<>> => f[k] = p[k]
      /\ I!Licenses(f) = LicensesOf(p)
  <2> HIDE DEF p
  <2> QED
    BY <1>2, FieldsRead DEF I!Keys
<1>5. /\ IF \A k \in {"NAME", "VERSION", "ARCH"} : I!HasOne(f, k)
         THEN /\ packages' = Append(packages,
                   [name |-> f["NAME"][1], version |-> f["VERSION"][1],
                    arch |-> f["ARCH"][1], licenses |-> I!Licenses(f),
                    url |-> I!Get(f, "URL", <<>>)])
              /\ UNCHANGED listPc
         ELSE listPc' = "refused" /\ UNCHANGED packages
  BY DEF I!LoadPackage
<1>6. (\A k \in {"NAME", "VERSION", "ARCH"} : I!HasOne(f, k)) <=> Named(p)
  <2> HIDE DEF p, f
  <2> QED
    BY <1>4 DEF I!HasOne, Named
<1>7. CASE Named(p)
  <2>1. \A k \in {"NAME", "VERSION", "ARCH"} : p[k] # <<>>
    <3> HIDE DEF p
    <3>1. Len(<<>>) = 0
      OBVIOUS
    <3> QED
      BY <1>7, <3>1 DEF Named
  <2>2. packages' = Append(packages, Loaded(p)) /\ listPc' = "load"
    <3> HIDE DEF p, f
    <3> QED
      BY <1>3, <1>4, <1>5, <1>6, <1>7, <2>1 DEF Loaded
  <2>3. Loaded(p) \in Record
    BY <1>2, <1>7, LoadedIs
  <2>4. packages \in Seq(Record)
    BY DEF ListInv
  <2> DEFINE x == Loaded(p)
  <2> HIDE DEF x
  <2>5. /\ packages' \in Seq(Record) /\ Len(packages') = i
        /\ packages'[i] = x
        /\ \A j \in 1 .. Len(packages) : packages'[j] = packages[j]
    BY <2>2, <2>3, <2>4, AppendProperties DEF x
  <2>6. \A j \in 1 .. i : packages'[j] = Loaded(database[j]) /\ Named(database[j])
    <3> SUFFICES ASSUME NEW j \in 1 .. i
                 PROVE  packages'[j] = Loaded(database[j]) /\ Named(database[j])
      OBVIOUS
    <3>1. CASE j = i
      BY <1>7, <2>5, <3>1 DEF x
    <3>2. CASE j # i
      <4>1. j \in 1 .. Len(packages)
        BY <1>1, <3>2
      <4> QED
        BY <1>3, <2>5, <4>1 DEF ListInv, LoadedInv
    <3> QED
      BY <3>1, <3>2
  <2> QED
    BY <1>1, <1>3, <2>2, <2>5, <2>6
    DEF ListInv, LoadedInv, SortedInv, WrittenInv, Sure, I!RefusedForReason
<1>8. CASE ~ Named(p)
  <2>1. listPc' = "refused" /\ packages' = packages
    BY <1>5, <1>6, <1>8
  <2>2. \E k \in {"NAME", "VERSION", "ARCH"} : Len(database[i][k]) # 1
    BY <1>8 DEF Named
  <2>3. I!RefusedForReason'
    <3> HIDE DEF i
    <3> QED
      BY <1>1, <1>3, <2>1, <2>2 DEF I!RefusedForReason
  <2> QED
    BY <1>3, <2>1, <2>3 DEF ListInv, LoadedInv, SortedInv, WrittenInv, Sure
<1> QED
  BY <1>7, <1>8

(* The packages sorted, or none at all. *)
LEMMA SortStep ==
  ASSUME ListInv, I!SortPackages
  PROVE  ListInv'
<1> DEFINE n == Len(packages)
           t == I!Sorted(packages)
<1>1. /\ listPc = "load" /\ Len(packages) = Len(database)
      /\ IF packages = <<>> THEN listPc' = "refused" ELSE listPc' = "table"
      /\ packages' = t
      /\ UNCHANGED <<database, tsv, components, expressions, notices>>
  BY DEF I!SortPackages
<1>2. /\ packages \in Seq(Record) /\ n \in Nat /\ n = Len(database)
      /\ \A i \in 1 .. n : packages[i] = Loaded(database[i]) /\ Named(database[i])
      /\ \A i \in 1 .. n : Installable(database[i])
  BY <1>1, DatabaseIs, LenProperties DEF ListInv, LoadedInv
<1>3. Distinct(packages)
  <2> SUFFICES ASSUME NEW i \in 1 .. n, NEW j \in 1 .. n, i # j,
                      packages[i].name = packages[j].name,
                      packages[i].version = packages[j].version
               PROVE  FALSE
    BY DEF Distinct
  <2>1. database[i]["NAME"] = database[j]["NAME"]
        /\ database[i]["VERSION"] = database[j]["VERSION"]
    <3>1. \A k \in 1 .. n : /\ database[k]["NAME"] = <<packages[k].name>>
                            /\ database[k]["VERSION"] = <<packages[k].version>>
      <4> SUFFICES ASSUME NEW k \in 1 .. n
                   PROVE  /\ database[k]["NAME"] = <<packages[k].name>>
                          /\ database[k]["VERSION"] = <<packages[k].version>>
        OBVIOUS
      <4>1. packages[k].name = database[k]["NAME"][1]
            /\ packages[k].version = database[k]["VERSION"][1]
        <5>1. packages[k] = Loaded(database[k])
          BY <1>2
        <5> QED
          BY <5>1 DEF Loaded
      <4> QED
        BY <1>2, <4>1, LoadedIs
    <3> QED
      BY <3>1
  <2> QED
    BY <1>2, <2>1, DatabaseIs DEF ListInv
<1>4. /\ Len(t) = n
      /\ \E q \in [1 .. n -> 1 .. n] :
           /\ t = [k \in 1 .. n |-> packages[q[k]]]
           /\ \A i \in 1 .. n : \E k \in 1 .. n : q[k] = i
      /\ \A k, l \in 1 .. n : k < l => I!Before(t[k], t[l])
  BY <1>2, <1>3, SortedIs
<1> HIDE DEF t, n
<1>5. PICK q \in [1 .. n -> 1 .. n] :
        /\ t = [k \in 1 .. n |-> packages[q[k]]]
        /\ \A i \in 1 .. n : \E k \in 1 .. n : q[k] = i
  BY <1>4
<1>6. \A k \in 1 .. n : packages[q[k]] \in Record /\ t[k] = Loaded(database[q[k]])
  <2> SUFFICES ASSUME NEW k \in 1 .. n
               PROVE  packages[q[k]] \in Record /\ t[k] = Loaded(database[q[k]])
    OBVIOUS
  <2>1. q[k] \in 1 .. n
    OBVIOUS
  <2>2. packages[q[k]] \in Record
    BY <1>2, <2>1, ElementOfSeq DEF n
  <2> QED
    BY <1>2, <1>5, <2>1, <2>2
<1>7. t \in Seq(Record)
  BY <1>2, <1>5, <1>6, SeqDef
<1>8. n = 0 => packages = <<>> /\ database = <<>>
  BY <1>2, DatabaseIs, EmptySeq DEF ListInv, n
<1>9. packages = <<>> => n = 0
  BY DEF n
<1>10. t = <<>> => n = 0
  BY <1>4
<1>11. /\ database' = database /\ Len(packages') = n /\ n = Len(database)
       /\ packages' \in Seq(Record) /\ n <= n
  BY <1>1, <1>2, <1>4, <1>7
<1>12. I!RefusedForReason'
  BY <1>1, <1>8, <1>9 DEF I!RefusedForReason
<1>13. SortedInv'
  <2> SUFFICES ASSUME listPc' = "table" PROVE SortedInv'
    BY <1>1 DEF SortedInv, Sure
  <2>1. packages # <<>>
    BY <1>1
  <2>2. n # 0
    BY <1>8, <2>1
  <2>3. t # <<>> /\ Len(t) = Len(database)
    BY <1>4, <1>10, <1>11, <2>2
  <2>4. \A i \in 1 .. n : Named(database[i])
    BY <1>2
  <2>5. InPlaces(database, t)
    <3>1. \E x \in [1 .. n -> 1 .. n] :
            /\ \A k \in 1 .. n : t[k] = Loaded(database[x[k]])
            /\ \A i \in 1 .. n : \E k \in 1 .. n : x[k] = i
      BY <1>5, <1>6
    <3>2. \A k, l \in 1 .. n : k < l => I!Before(t[k], t[l])
      BY <1>4
    <3>3. Len(database) = n
      BY <1>11
    <3> QED
      BY <2>3, <2>4, <3>1, <3>2, <3>3, Zenon DEF InPlaces
  <2> QED
    BY <1>1, <2>5, Zenon DEF SortedInv
<1> QED
  BY <1>1, <1>11, <1>12, <1>13 DEF ListInv, LoadedInv, WrittenInv

(* Where a text of a record comes from. *)
LEMMA TabsComeFrom ==
  ASSUME NEW p, Installable(p), Named(p), <<I!Tabbed>> \in I!Texts(Loaded(p))
  PROVE  \E k \in I!Keys \ {"DESC"} : <<I!Tabbed>> \in I!Range(p[k])
<1>1. ASSUME NEW k \in {"NAME", "VERSION", "ARCH"}, <<I!Tabbed>> = p[k][1]
      PROVE  <<I!Tabbed>> \in I!Range(p[k]) /\ k \in I!Keys \ {"DESC"}
  <2> DEFINE s == p[k]
  <2>1. s \in Seq(I!Text) /\ Len(s) = 1
    BY DEF Installable, Named, I!Keys
  <2> HIDE DEF s
  <2>2. 1 \in DOMAIN s
    BY <2>1
  <2>3. s[1] \in I!Range(s)
    BY <2>2 DEF I!Range
  <2> QED
    BY <1>1, <2>3 DEF s, I!Keys
<1>2. ASSUME <<I!Tabbed>> \in I!Range(LicensesOf(p))
      PROVE  <<I!Tabbed>> \in I!Range(p["LICENSE"])
  <2>1. <<I!Tabbed>> \notin I!Range(<<>>)
    BY DEF I!Range
  <2>2. <<I!Tabbed>> \notin I!Range(<< <<I!Unknown>> >>)
    BY DEF I!Range, I!Tabbed, I!Unknown
  <2> QED
    BY <1>2, <2>1, <2>2 DEF LicensesOf
<1>3. {"URL", "LICENSE"} \in SUBSET (I!Keys \ {"DESC"})
  BY DEF I!Keys
<1> DEFINE licenses == LicensesOf(p)
           url == p["URL"]
<1>4. <<I!Tabbed>> \in {p["NAME"][1], p["VERSION"][1], p["ARCH"][1]}
                         \cup I!Range(licenses) \cup I!Range(url)
  BY DEF I!Texts, Loaded
<1>5. <<I!Tabbed>> \in I!Range(url) => <<I!Tabbed>> \in I!Range(p["URL"])
  OBVIOUS
<1> HIDE DEF licenses, url
<1>6. CASE <<I!Tabbed>> \in {p["NAME"][1], p["VERSION"][1], p["ARCH"][1]}
  <2>1. \E k \in {"NAME", "VERSION", "ARCH"} : <<I!Tabbed>> = p[k][1]
    BY <1>6
  <2> QED
    BY <1>1, <2>1
<1>7. CASE <<I!Tabbed>> \in I!Range(licenses)
  BY <1>2, <1>3, <1>7 DEF licenses
<1>8. CASE <<I!Tabbed>> \in I!Range(url)
  BY <1>3, <1>5, <1>8
<1> QED
  BY <1>4, <1>6, <1>7, <1>8

(* The table, or the tab that it is refused for. *)
LEMMA TableStep ==
  ASSUME ListInv, I!WriteTable
  PROVE  ListInv'
<1>1. /\ listPc = "table"
      /\ IF \E i \in 1 .. Len(packages) : <<I!Tabbed>> \in I!Texts(packages[i])
         THEN listPc' = "refused" /\ tsv' = tsv
         ELSE listPc' = "sbom" /\ tsv' = packages
      /\ UNCHANGED <<database, packages, components, expressions, notices>>
  BY DEF I!WriteTable
<1>2. SortedInv /\ Sure /\ tsv = <<>>
  BY <1>1 DEF ListInv, Sure, WrittenInv
<1>3. listPc' = "refused" => I!RefusedForReason'
  <2> SUFFICES ASSUME listPc' = "refused" PROVE I!RefusedForReason'
    OBVIOUS
  <2>1. PICK i \in 1 .. Len(packages) : <<I!Tabbed>> \in I!Texts(packages[i])
    BY <1>1
  <2>2. PICK j \in 1 .. Len(database) : packages[i] = Loaded(database[j]) /\ Named(database[j])
    BY <1>2, <2>1 DEF SortedInv, InPlaces
  <2>3. \E k \in I!Keys \ {"DESC"} : <<I!Tabbed>> \in I!Range(database[j][k])
    BY <2>1, <2>2, DatabaseIs, TabsComeFrom DEF ListInv
  <2> QED
    BY <1>1, <2>3 DEF I!RefusedForReason
<1>4. listPc' # "refused" => I!RefusedForReason'
  BY DEF I!RefusedForReason
<1>5. SortedInv'
  BY <1>1, <1>2 DEF SortedInv
<1>6. WrittenInv'
  <2>1. NoTabs(packages) <=> ~ \E i \in 1 .. Len(packages) :
                                   <<I!Tabbed>> \in I!Texts(packages[i])
    BY DEF NoTabs
  <2>2. notices = 0
    BY <1>1 DEF ListInv, WrittenInv
  <2> QED
    BY <1>1, <1>2, <2>1, <2>2 DEF WrittenInv
<1>7. LoadedInv'
  BY <1>1 DEF LoadedInv
<1> QED
  BY <1>1, <1>3, <1>4, <1>5, <1>6, <1>7 DEF ListInv

(* The other files. *)
LEMMA FileStep ==
  ASSUME ListInv, I!WriteSbom \/ I!WriteLicenses \/ I!CountPackages
  PROVE  ListInv'
<1>1. UNCHANGED <<database, packages, tsv>> /\ Sure /\ Sure'
  BY DEF Sure, I!WriteSbom, I!WriteLicenses, I!CountPackages
<1>2. SortedInv' /\ LoadedInv' /\ I!RefusedForReason'
  <2>1. InPlaces(database, packages)
    BY <1>1 DEF ListInv, SortedInv
  <2>2. SortedInv'
    BY <1>1, <2>1, Zenon DEF SortedInv
  <2>3. listPc' # "load" /\ listPc' # "refused"
    BY <1>1 DEF Sure
  <2> QED
    BY <2>2, <2>3 DEF LoadedInv, I!RefusedForReason
<1>3. WrittenInv'
  <2>1. CASE I!WriteSbom
    BY <2>1 DEF I!WriteSbom, ListInv, WrittenInv, ComponentsOf
  <2>2. CASE I!WriteLicenses
    BY <2>2 DEF I!WriteLicenses, ListInv, WrittenInv, ExpressionsOf
  <2>3. CASE I!CountPackages
    <3>1. tsv = packages /\ NoTabs(packages) /\ tsv' = tsv /\ packages' = packages
          /\ components' = components /\ expressions' = expressions
          /\ listPc = "notices" /\ listPc' = "done" /\ notices' = Len(packages)
      BY <2>3 DEF I!CountPackages, ListInv, WrittenInv
    <3> QED
      BY <3>1 DEF ListInv, WrittenInv
  <2> QED
    BY <2>1, <2>2, <2>3
<1> QED
  BY <1>1, <1>2, <1>3 DEF ListInv, Sure

(* And every step of the program, or of another one, preserves it. *)
LEMMA ListStep == ListInv /\ [MCNext]_mcVars => ListInv'
<1> SUFFICES ASSUME ListInv, [MCNext]_mcVars PROVE ListInv'
  OBVIOUS
<1>1. I!Next \/ UNCHANGED inventory
  BY DEF MCNext, mcVars
<1>2. CASE I!Next
  BY <1>2, LoadStep, SortStep, TableStep, FileStep DEF I!Next
<1>3. CASE UNCHANGED inventory
  <2>1. UNCHANGED <<database, listPc, packages, tsv, components, expressions, notices>>
    BY <1>3 DEF inventory
  <2>2. LoadedInv' /\ SortedInv'
    BY <2>1 DEF ListInv, LoadedInv, SortedInv, Sure
  <2>3. WrittenInv'
    BY <2>1 DEF ListInv, WrittenInv
  <2>4. I!RefusedForReason'
    BY <2>1 DEF ListInv, I!RefusedForReason
  <2> QED
    BY <2>1, <2>2, <2>3, <2>4 DEF ListInv
<1> QED
  BY <1>1, <1>2, <1>3

(* It is an invariant of the instance. *)
LEMMA ListAlways == MCSpec => []ListInv
  BY ListInit, ListStep, PTL DEF MCSpec

(* What the invariant says of the finished files. *)
LEMMA ListConcludes == ListInv => InventoryTrue
<1> SUFFICES ASSUME ListInv PROVE InventoryTrue
  OBVIOUS
<1> DEFINE n == Len(database)
<1>1. I!TypeOK
  <2>1. Len(packages) <= Len(database) /\ tsv \in {<<>>, packages}
    BY DEF ListInv, WrittenInv
  <2>2. notices \in {0, Len(database)}
    BY DEF ListInv, WrittenInv, SortedInv, Sure, InPlaces
  <2> QED
    BY <2>1, <2>2 DEF I!TypeOK, ListInv
<1>2. ASSUME listPc = "done"
      PROVE  I!InventoriesAgree /\ I!EveryPackageLicensed /\ I!OrderOfNames
  <2>1. InPlaces(database, packages) /\ tsv = packages /\ notices = Len(packages)
        /\ NoTabs(packages)
    BY <1>2 DEF ListInv, SortedInv, WrittenInv, Sure
  <2>2. components = ComponentsOf(packages) /\ expressions = ExpressionsOf(packages)
    BY <1>2 DEF ListInv, WrittenInv
  <2>3. PICK q \in [1 .. n -> 1 .. n] :
          /\ \A k \in 1 .. n : packages[k] = Loaded(database[q[k]])
          /\ \A i \in 1 .. n : \E k \in 1 .. n : q[k] = i
    BY <2>1 DEF InPlaces
  <2>4. /\ n \in Nat /\ Len(packages) = n
        /\ \A i \in 1 .. n : Installable(database[i]) /\ Named(database[i])
    BY <2>1, DatabaseIs DEF ListInv, InPlaces
  <2> HIDE DEF n
  <2>5. \A k \in 1 .. n : components[k].bomref =
                            <<packages[k].name, packages[k].version, packages[k].arch>>
    BY <2>2, <2>4 DEF ComponentsOf
  <2>6. Len(components) = n
    BY <2>2, <2>4 DEF ComponentsOf
  <2>7. \A k \in 1 .. n : I!Columns(tsv[k]) = 5
    <3> SUFFICES ASSUME NEW k \in 1 .. n PROVE I!Columns(tsv[k]) = 5
      OBVIOUS
    <3> DEFINE row == packages[k]
               tabs(texts) == {i \in 1 .. Len(texts) : texts[i] = <<I!Tabbed>>}
    <3>1. <<I!Tabbed>> \notin I!Texts(row)
      BY <2>1, <2>4 DEF NoTabs
    <3>2. row \in Record
      BY <2>4, ElementOfSeq DEF ListInv
    <3> HIDE DEF row
    <3>3. tabs(<<row.name, row.version, row.arch>>) = {}
      BY <3>1 DEF I!Texts
    <3>4. tabs(row.licenses) = {} /\ tabs(row.url) = {}
      <4>1. row.licenses \in Seq(I!Text) /\ row.url \in Seq(I!Text)
        BY <3>2 DEF Record
      <4>2. \A i \in 1 .. Len(row.licenses) : row.licenses[i] \in I!Range(row.licenses)
        BY <4>1 DEF I!Range
      <4>3. \A i \in 1 .. Len(row.url) : row.url[i] \in I!Range(row.url)
        BY <4>1 DEF I!Range
      <4> QED
        BY <3>1, <4>2, <4>3 DEF I!Texts
    <3>5. I!Cardinality({}) = 0
      <4>1. I!Cardinality({}) = Cardinality({})
        BY DEF Cardinality, I!Cardinality
      <4> QED
        BY <4>1, FS_EmptySet
    <3> HIDE DEF tabs
    <3> DEFINE own == I!Cardinality(tabs(<<row.name, row.version, row.arch>>))
               inLicenses == I!Cardinality(tabs(row.licenses))
               inUrl == I!Cardinality(tabs(row.url))
    <3>6. own = 0 /\ inLicenses = 0 /\ inUrl = 0
      BY <3>3, <3>4, <3>5, Zenon
    <3>7. I!Columns(row) = 5
      <4>1. I!Columns(row) = 5 + own + inLicenses + inUrl
        BY DEF I!Columns, tabs
      <4> HIDE DEF own, inLicenses, inUrl
      <4> QED
        BY <3>6, <4>1
    <3> QED
      BY <2>1, <3>7 DEF row
  <2>8. \A k \in 1 .. n :
          LET b == components[k].bomref
          IN  << <<b[1]>>, <<b[2]>>, <<b[3]>> >> = I!Installed(q[k])
    <3> SUFFICES ASSUME NEW k \in 1 .. n
                 PROVE  LET b == components[k].bomref
                        IN  << <<b[1]>>, <<b[2]>>, <<b[3]>> >> = I!Installed(q[k])
      OBVIOUS
    <3> DEFINE p == database[q[k]]
    <3>1. q[k] \in 1 .. n /\ packages[k] = Loaded(p)
      BY <2>3
    <3>2. p["NAME"] = <<p["NAME"][1]>> /\ p["VERSION"] = <<p["VERSION"][1]>>
          /\ p["ARCH"] = <<p["ARCH"][1]>>
      BY <2>4, <3>1, LoadedIs
    <3>3. I!Installed(q[k]) = <<p["NAME"], p["VERSION"], p["ARCH"]>>
      BY DEF I!Installed
    <3> HIDE DEF p
    <3>4. components[k].bomref = <<p["NAME"][1], p["VERSION"][1], p["ARCH"][1]>>
      BY <2>5, <3>1 DEF Loaded
    <3> QED
      BY <3>2, <3>3, <3>4
  <2>9. {<< <<b[1]>>, <<b[2]>>, <<b[3]>> >> : b \in {components[i].bomref : i \in 1 .. n}}
          = {I!Installed(i) : i \in 1 .. n}
    <3> DEFINE B(b) == << <<b[1]>>, <<b[2]>>, <<b[3]>> >>
    <3>1. \A k \in 1 .. n : B(components[k].bomref) = I!Installed(q[k])
      BY <2>8
    <3> HIDE DEF B
    <3>2. {B(b) : b \in {components[i].bomref : i \in 1 .. n}} = {I!Installed(i) : i \in 1 .. n}
      <4>1. ASSUME NEW x \in {B(b) : b \in {components[i].bomref : i \in 1 .. n}}
            PROVE  x \in {I!Installed(i) : i \in 1 .. n}
        <5>1. PICK k \in 1 .. n : x = B(components[k].bomref)
          OBVIOUS
        <5> QED
          BY <2>3, <3>1, <5>1
      <4>2. ASSUME NEW i \in 1 .. n
            PROVE  I!Installed(i) \in {B(b) : b \in {components[j].bomref : j \in 1 .. n}}
        <5>1. PICK k \in 1 .. n : q[k] = i
          BY <2>3
        <5> QED
          BY <3>1, <5>1
      <4> QED
        BY <4>1, <4>2
    <3> QED
      BY <3>2 DEF B
  <2>10. I!InventoriesAgree
    <3>1. Len(tsv) = n /\ Len(database) = n /\ notices = n
      BY <2>1, <2>4 DEF n
    <3> QED
      BY <2>1, <2>5, <2>6, <2>7, <2>9, <3>1 DEF I!InventoriesAgree
  <2>11. I!EveryPackageLicensed
    <3> SUFFICES ASSUME NEW i \in 1 .. n, ~ I!Hidden(database[i]),
                        NEW e \in IF I!Range(database[i]["LICENSE"]) = {}
                                  THEN { <<I!Unknown>> } ELSE I!Range(database[i]["LICENSE"])
                 PROVE  e \in DOMAIN expressions /\ database[i]["NAME"][1] \in expressions[e]
      BY DEF I!EveryPackageLicensed, n
    <3> DEFINE p == database[i]
    <3>1. PICK k \in 1 .. n : q[k] = i /\ packages[k] = Loaded(p)
      BY <2>3
    <3>2. packages[k].name = p["NAME"][1] /\ packages[k].licenses = LicensesOf(p)
      <4> HIDE DEF p
      <4> QED
        BY <3>1 DEF Loaded
    <3>3. e \in I!Range(LicensesOf(p))
      <4> DEFINE l == p["LICENSE"]
      <4>1. l \in Seq(I!Text)
        BY <2>4 DEF Installable, I!Keys
      <4>2. LicensesOf(p) = IF l # <<>> THEN l ELSE << <<I!Unknown>> >>
        BY DEF LicensesOf
      <4>3. e \in IF I!Range(l) = {} THEN { <<I!Unknown>> } ELSE I!Range(l)
        OBVIOUS
      <4> HIDE DEF l, p
      <4>4. l # <<>> => I!Range(l) # {}
        <5> SUFFICES ASSUME l # <<>> PROVE I!Range(l) # {}
          OBVIOUS
        <5>1. Len(l) \in Nat /\ Len(l) # 0
          BY <4>1, EmptySeq, LenProperties
        <5>2. 1 \in DOMAIN l
          BY <4>1, <5>1
        <5> QED
          BY <5>2 DEF I!Range
      <4>5. l = <<>> => I!Range(l) = {}
        BY DEF I!Range
      <4>6. <<I!Unknown>> \in I!Range(<< <<I!Unknown>> >>)
        BY DEF I!Range
      <4> QED
        BY <4>2, <4>3, <4>4, <4>5, <4>6
    <3> HIDE DEF p
    <3>4. e \in I!Range(packages[k].licenses)
      BY <3>2, <3>3
    <3>5. e \in UNION {I!Range(packages[j].licenses) : j \in 1 .. Len(packages)}
      BY <2>4, <3>4
    <3>6. packages[k].name \in
            {packages[x].name : x \in {j \in 1 .. Len(packages) :
                                         e \in I!Range(packages[j].licenses)}}
      BY <2>4, <3>4
    <3>7. e \in DOMAIN expressions /\ packages[k].name \in expressions[e]
      BY <2>2, <3>5, <3>6 DEF ExpressionsOf
    <3> QED
      BY <3>2, <3>7 DEF p
  <2>12. I!OrderOfNames
    BY <2>1 DEF InPlaces, I!OrderOfNames
  <2> QED
    BY <2>10, <2>11, <2>12
<1>3. listPc # "done" => I!InventoriesAgree /\ I!EveryPackageLicensed /\ I!OrderOfNames
  BY DEF I!InventoriesAgree, I!EveryPackageLicensed, I!OrderOfNames
<1> QED
  BY <1>1, <1>2, <1>3 DEF ListInv, InventoryTrue, I!InventoryTrue

(* The table, the bill of materials, the licences and the notices name what   *)
(* pacman has installed, in order and each package under its licences; and a  *)
(* database is only refused for a reason: for any number of packages and any  *)
(* wording of their descriptions.                                           *)
THEOREM InventoriesSafe == MCSpec => []InventoryTrue
  BY ListAlways, ListConcludes, PTL
=============================================================================
