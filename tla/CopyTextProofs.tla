---------------------------- MODULE CopyTextProofs ----------------------------
(***************************************************************************)
(* What COPY makes of plain records is what they say, for files of any     *)
(* number of records with values of any length over any characters.        *)
(***************************************************************************)
EXTENDS CopyText, SequenceTheorems, TLAPS

RecordType == [text : {Null} \cup Seq(Char), json : {Null} \cup Seq(Char)]
JsonType   == [at : {"begin", "in", "escape", "end", "bad"}, value : Seq(Char)]
FieldType  == [null : BOOLEAN, text : Seq(Char), raw : Seq(Char), json : JsonType]
ScanType   == [rows : Seq(Seq(FieldType)), row : Seq(FieldType), field : FieldType, escaped : BOOLEAN]

TextWidth(v) == IF v = Null THEN 1 ELSE Len(v)
JsonWidth(v) == IF v = Null THEN 1 ELSE Len(v) + 2

-----------------------------------------------------------------------------
(* The text of a line.                                                     *)

LEMMA FunctionIsSeq ==
  ASSUME NEW S, NEW n \in Nat, NEW f \in [1..n -> S]
  PROVE  f \in Seq(S) /\ Len(f) = n
<1>1. f \in Seq(S)
  BY SeqDef
<1>2. Len(f) \in Nat /\ 1..Len(f) = 1..n
  BY <1>1, LenProperties
<1>3. Len(f) = n
  BY <1>2
<1>. QED BY <1>1, <1>3

LEMMA ConcatParts ==
  ASSUME NEW S, NEW s \in Seq(S), NEW t \in Seq(S)
  PROVE  /\ s \o t \in Seq(S) /\ Len(s \o t) = Len(s) + Len(t)
         /\ \A i \in 1..Len(s) : (s \o t)[i] = s[i]
         /\ \A i \in 1..Len(t) : (s \o t)[Len(s) + i] = t[i]
<1>1. Len(s) \in Nat /\ Len(t) \in Nat
  BY LenProperties
<1>2. /\ s \o t \in Seq(S) /\ Len(s \o t) = Len(s) + Len(t)
      /\ \A i \in 1..Len(s) + Len(t) : (s \o t)[i] = IF i <= Len(s) THEN s[i] ELSE t[i - Len(s)]
  BY ConcatProperties
<1>3. \A i \in 1..Len(s) : i \in 1..Len(s) + Len(t) /\ i <= Len(s)
  BY <1>1
<1>4. \A i \in 1..Len(t) : /\ Len(s) + i \in 1..Len(s) + Len(t) /\ ~(Len(s) + i <= Len(s))
                          /\ (Len(s) + i) - Len(s) = i
  BY <1>1
<1>5. \A i \in 1..Len(t) : (s \o t)[Len(s) + i] = t[i]
  BY <1>2, <1>4
<1>. QED BY <1>2, <1>3, <1>5

LEMMA FieldWidths ==
  ASSUME NEW v \in {Null} \cup Seq(Char)
  PROVE  /\ TextWidth(v) \in Nat /\ JsonWidth(v) \in Nat \ {0}
         /\ TextField(v) \in Seq(Seq(Char)) /\ Len(TextField(v)) = TextWidth(v)
         /\ JsonField(v) \in Seq(Seq(Char)) /\ Len(JsonField(v)) = JsonWidth(v)
<1>1. NullMark \in Seq(Char)
  BY DEF NullMark, Char, Letters
<1>2. CASE v = Null
  BY <1>1, <1>2 DEF TextWidth, JsonWidth, TextField, JsonField
<1>3. CASE v # Null
  <2>1. v \in Seq(Char) /\ Len(v) \in Nat /\ \A i \in 1..Len(v) : v[i] \in Char
    BY <1>3, ElementOfSeq, LenProperties
  <2>2. \A c \in Char : <<Blanked(c)>> \in Seq(Char) /\ Escaped(c) \in Seq(Char) /\ <<Quote>> \in Seq(Char)
    <3>. SUFFICES ASSUME NEW c \in Char PROVE /\ <<Blanked(c)>> \in Seq(Char) /\ Escaped(c) \in Seq(Char)
                                              /\ <<Quote>> \in Seq(Char)
      OBVIOUS
    <3>1. Blanked(c) \in Char /\ Quote \in Char
      BY DEF Blanked, Char, Letters
    <3>2. {Backslash, "n", "t", "r", c} \subseteq Char
      BY DEF Char, Letters
    <3>3. Escaped(c) \in {<<Backslash, c>>, <<Backslash, "n">>, <<Backslash, "t">>, <<Backslash, "r">>, <<c>>}
      BY DEF Escaped
    <3>4. \A d \in Char : <<Backslash, d>> \in Seq(Char) /\ <<d>> \in Seq(Char)
      BY <3>2
    <3>. QED BY <3>1, <3>2, <3>3, <3>4
  <2> DEFINE T == [i \in 1..Len(v) |-> <<Blanked(v[i])>>]
             J == [i \in 1..Len(v) + 2 |-> IF i \in {1, Len(v) + 2} THEN <<Quote>> ELSE Escaped(v[i - 1])]
  <2>3. \A i \in 1..Len(v) : T[i] \in Seq(Char)
    BY <2>1, <2>2
  <2>4. T \in Seq(Seq(Char)) /\ Len(T) = Len(v)
    <3>1. T \in [1..Len(v) -> Seq(Char)]
      BY <2>3
    <3>. HIDE DEF T
    <3>. QED BY <2>1, <3>1, FunctionIsSeq
  <2>5. \A i \in 1..Len(v) + 2 : J[i] \in Seq(Char)
    <3>. SUFFICES ASSUME NEW i \in 1..Len(v) + 2 PROVE J[i] \in Seq(Char)
      OBVIOUS
    <3>1. CASE i \in {1, Len(v) + 2}
      <4>1. Quote \in Char
        BY DEF Char, Letters
      <4>. QED BY <3>1, <4>1
    <3>2. CASE i \notin {1, Len(v) + 2}
      <4>1. i - 1 \in 1..Len(v)
        BY <2>1, <3>2
      <4>. QED BY <2>1, <2>2, <3>2, <4>1
    <3>. QED BY <3>1, <3>2
  <2>6. J \in Seq(Seq(Char)) /\ Len(J) = Len(v) + 2
    <3>1. J \in [1..Len(v) + 2 -> Seq(Char)] /\ Len(v) + 2 \in Nat
      BY <2>1, <2>5
    <3>. HIDE DEF J
    <3>. QED BY <3>1, FunctionIsSeq
  <2>7. TextField(v) = T /\ JsonField(v) = J
    BY <1>3 DEF TextField, JsonField, JsonDumps
  <2>. HIDE DEF T, J
  <2>. QED BY <1>3, <2>1, <2>4, <2>6, <2>7 DEF TextWidth, JsonWidth
<1>. QED BY <1>2, <1>3

(* Where the texts of a line are.                                          *)
LEMMA LineTexts ==
  ASSUME NEW r \in RecordType
  PROVE  /\ Line(r) \in Seq(Seq(Char))
         /\ Len(Line(r)) = TextWidth(r.text) + JsonWidth(r.json) + 2
         /\ \A a \in 1..TextWidth(r.text) : Line(r)[a] = TextField(r.text)[a]
         /\ Line(r)[TextWidth(r.text) + 1] = <<Tab>>
         /\ \A a \in 1..JsonWidth(r.json) :
              Line(r)[TextWidth(r.text) + 1 + a] = JsonField(r.json)[a]
         /\ Line(r)[TextWidth(r.text) + JsonWidth(r.json) + 2] = <<Newline>>
<1> DEFINE T == TextField(r.text)
           J == JsonField(r.json)
           n == TextWidth(r.text)
           m == JsonWidth(r.json)
           A == T \o <<<<Tab>>>>
           B == A \o J
<1>1. /\ n \in Nat /\ m \in Nat /\ T \in Seq(Seq(Char)) /\ Len(T) = n
      /\ J \in Seq(Seq(Char)) /\ Len(J) = m
  BY FieldWidths DEF RecordType
<1>2. /\ <<<<Tab>>>> \in Seq(Seq(Char)) /\ Len(<<<<Tab>>>>) = 1 /\ <<<<Tab>>>>[1] = <<Tab>>
      /\ <<<<Newline>>>> \in Seq(Seq(Char)) /\ Len(<<<<Newline>>>>) = 1 /\ <<<<Newline>>>>[1] = <<Newline>>
  <2>1. Tab \in Char /\ Newline \in Char
    BY DEF Char, Letters
  <2>2. <<Tab>> \in Seq(Char) /\ <<Newline>> \in Seq(Char)
    BY <2>1
  <2>. QED BY <2>2
<1>3. Line(r) = B \o <<<<Newline>>>>
  BY DEF Line
<1>. HIDE DEF T, J, n, m
<1>4. /\ A \in Seq(Seq(Char)) /\ Len(A) = n + 1 /\ A[n + 1] = <<Tab>>
      /\ \A a \in 1..n : A[a] = T[a]
  BY <1>1, <1>2, ConcatParts
<1>5. /\ B \in Seq(Seq(Char)) /\ Len(B) = n + 1 + m /\ \A a \in 1..n + 1 : B[a] = A[a]
      /\ \A a \in 1..m : B[n + 1 + a] = J[a]
  <2>1. A \in Seq(Seq(Char)) /\ J \in Seq(Seq(Char))
    BY <1>1, <1>4
  <2>. HIDE DEF A
  <2>2. /\ A \o J \in Seq(Seq(Char)) /\ Len(A \o J) = Len(A) + Len(J)
        /\ \A a \in 1..Len(A) : (A \o J)[a] = A[a]
        /\ \A a \in 1..Len(J) : (A \o J)[Len(A) + a] = J[a]
    BY <2>1, ConcatParts
  <2>. QED BY <1>1, <1>4, <2>2
<1>6. /\ Line(r) \in Seq(Seq(Char)) /\ Len(Line(r)) = n + m + 2
      /\ \A a \in 1..n + 1 + m : Line(r)[a] = B[a]
      /\ Line(r)[n + m + 2] = <<Newline>>
  <2>. HIDE DEF B
  <2>1. /\ Line(r) \in Seq(Seq(Char)) /\ Len(Line(r)) = n + 1 + m + 1
        /\ \A a \in 1..n + 1 + m : Line(r)[a] = B[a]
        /\ Line(r)[n + 1 + m + 1] = <<Newline>>
    <3> DEFINE E == <<<<Newline>>>>
    <3>0. B \in Seq(Seq(Char)) /\ E \in Seq(Seq(Char))
      BY <1>2, <1>5
    <3>1. Len(E) = 1 /\ E[1] = <<Newline>>
      OBVIOUS
    <3>. HIDE DEF E, A
    <3>2. /\ B \o E \in Seq(Seq(Char)) /\ Len(B \o E) = Len(B) + Len(E)
          /\ \A a \in 1..Len(B) : (B \o E)[a] = B[a]
          /\ \A a \in 1..Len(E) : (B \o E)[Len(B) + a] = E[a]
      BY <3>0, ConcatParts
    <3>3. Line(r) = B \o E
      BY <1>3 DEF E
    <3>4. 1 \in 1..Len(E)
      BY <3>1
    <3>. QED BY <1>1, <1>5, <3>1, <3>2, <3>3, <3>4
  <2>2. n + 1 + m + 1 = n + m + 2
    BY <1>1
  <2>. QED BY <2>1, <2>2
<1>7. /\ \A a \in 1..n : Line(r)[a] = T[a]
      /\ Line(r)[n + 1] = <<Tab>>
      /\ \A a \in 1..m : Line(r)[n + 1 + a] = J[a]
  <2>1. /\ \A a \in 1..n : a \in 1..n + 1 /\ a \in 1..n + 1 + m
        /\ n + 1 \in 1..n + 1 /\ n + 1 \in 1..n + 1 + m
        /\ \A a \in 1..m : n + 1 + a \in 1..n + 1 + m
    BY <1>1
  <2>. HIDE DEF A, B
  <2>. QED BY <2>1, <1>4, <1>5, <1>6
<1>. QED BY <1>6, <1>7 DEF T, J, n, m

-----------------------------------------------------------------------------
(* What COPY makes of a character.                                         *)

LEMMA AppendType ==
  ASSUME NEW S, NEW s \in Seq(S), NEW e \in S
  PROVE  /\ Append(s, e) \in Seq(S) /\ Len(Append(s, e)) = Len(s) + 1 /\ Len(s) \in Nat
         /\ \A i \in 1..Len(s) : Append(s, e)[i] = s[i]
         /\ Append(s, e)[Len(s) + 1] = e
BY AppendProperties, LenProperties

LEMMA BlankType == Blank \in FieldType /\ Start \in ScanType
<1>1. JsonBegin \in JsonType
  BY DEF JsonBegin, JsonType
<1>2. Blank \in FieldType
  BY <1>1 DEF Blank, FieldType
<1>. QED BY <1>2 DEF Start, ScanType

LEMMA JsonScanType == ASSUME NEW j \in JsonType, NEW c \in Char PROVE JsonScan(j, c) \in JsonType
<1>1. Unescaped(c) \in Char
  BY DEF Unescaped, Char, Letters
<1>2. Append(j.value, c) \in Seq(Char) /\ Append(j.value, Unescaped(c)) \in Seq(Char)
  BY <1>1, AppendType DEF JsonType
<1>3. \A x \in {"in", "end", "escape", "bad"} : [j EXCEPT !.at = x] \in JsonType
  BY DEF JsonType
<1>4. [j EXCEPT !.value = Append(@, c)] \in JsonType
  BY <1>2 DEF JsonType
<1>5. [at |-> "in", value |-> Append(j.value, Unescaped(c))] \in JsonType
  BY <1>2 DEF JsonType
<1>. QED BY <1>3, <1>4, <1>5 DEF JsonScan

LEMMA MeansType ==
  ASSUME NEW f \in FieldType, NEW c \in Char, NEW d \in Char
  PROVE  /\ Means(f, c, d) \in FieldType
         /\ Means(f, c, d).raw = Append(f.raw, c) /\ Means(f, c, d).text = Append(f.text, d)
         /\ Means(f, c, d).json = JsonScan(f.json, d)
<1>1. Append(f.raw, c) \in Seq(Char) /\ Append(f.text, d) \in Seq(Char) /\ JsonScan(f.json, d) \in JsonType
  BY AppendType, JsonScanType DEF FieldType
<1>. QED BY <1>1 DEF Means, FieldType

LEMMA FieldEnds ==
  ASSUME NEW f \in FieldType
  PROVE  /\ Field(f) \in FieldType /\ Field(f).text = f.text /\ Field(f).json = f.json
         /\ Field(f).null = (f.raw = NullMark)
BY DEF Field, FieldType

(* A character that means itself.                                          *)
LEMMA ScanPlain ==
  ASSUME NEW p \in ScanType, ~p.escaped, NEW c \in Char \ {Backslash, Tab, Newline}
  PROVE  /\ Scan(p, c) \in ScanType /\ Scan(p, c).rows = p.rows /\ Scan(p, c).row = p.row
         /\ ~Scan(p, c).escaped /\ Scan(p, c).field = Means(p.field, c, c)
<1>1. Scan(p, c) = [p EXCEPT !.field = Means(@, c, c)]
  BY DEF Scan
<1>2. Means(p.field, c, c) \in FieldType
  BY MeansType DEF ScanType
<1>. QED BY <1>1, <1>2 DEF ScanType

(* The end of a field.                                                     *)
LEMMA ScanTab ==
  ASSUME NEW p \in ScanType, ~p.escaped
  PROVE  /\ Scan(p, Tab) \in ScanType /\ Scan(p, Tab).rows = p.rows
         /\ Scan(p, Tab).row = Append(p.row, Field(p.field))
         /\ ~Scan(p, Tab).escaped /\ Scan(p, Tab).field = Blank
<1>1. Scan(p, Tab) = [p EXCEPT !.row = Append(@, Field(p.field)), !.field = Blank]
  BY CharAssumption DEF Scan
<1>2. Append(p.row, Field(p.field)) \in Seq(FieldType)
  BY FieldEnds, AppendType DEF ScanType
<1>. QED BY <1>1, <1>2, BlankType DEF ScanType

(* The end of a line.                                                      *)
LEMMA ScanNewline ==
  ASSUME NEW p \in ScanType, ~p.escaped
  PROVE  /\ Scan(p, Newline) \in ScanType
         /\ Scan(p, Newline).rows = Append(p.rows, Append(p.row, Field(p.field)))
         /\ Scan(p, Newline).row = <<>> /\ ~Scan(p, Newline).escaped /\ Scan(p, Newline).field = Blank
<1>1. Scan(p, Newline) = [p EXCEPT !.rows = Append(@, Append(p.row, Field(p.field))),
                                   !.row = <<>>, !.field = Blank]
  BY CharAssumption DEF Scan
<1>2. Append(p.row, Field(p.field)) \in Seq(FieldType)
  BY FieldEnds, AppendType DEF ScanType
<1>3. Append(p.rows, Append(p.row, Field(p.field))) \in Seq(Seq(FieldType)) /\ <<>> \in Seq(FieldType)
  BY <1>2, AppendType DEF ScanType
<1>. QED BY <1>1, <1>3, BlankType DEF ScanType

(* The mark of a null, in a field that is empty.                           *)
LEMMA ScanNull ==
  ASSUME NEW p \in ScanType, ~p.escaped, p.field = Blank
  PROVE  LET q == ScanBoth(p, NullMark)
         IN  /\ q \in ScanType /\ q.rows = p.rows /\ q.row = p.row /\ ~q.escaped
             /\ q.field.raw = NullMark
<1> DEFINE b == [p EXCEPT !.escaped = TRUE, !.field.raw = Append(@, Backslash)]
           f == [Blank EXCEPT !.raw = <<Backslash>>]
<1>1. Backslash \in Char /\ "N" \in Char /\ Unescaped("N") = "N"
  BY DEF Char, Letters, Unescaped
<1>2. f \in FieldType /\ f.raw = <<Backslash>>
  <2>1. <<Backslash>> \in Seq(Char)
    BY <1>1
  <2>. QED BY <2>1, BlankType DEF FieldType
<1>3. Scan(p, Backslash) = b
  BY DEF Scan
<1>4. Append(Blank.raw, Backslash) = <<Backslash>>
  BY DEF Blank
<1>5. b = [p EXCEPT !.escaped = TRUE, !.field = f]
  BY <1>4 DEF ScanType, Blank
<1>6. b \in ScanType /\ b.escaped /\ b.field = f /\ b.rows = p.rows /\ b.row = p.row
  <2>. HIDE DEF f
  <2>. QED BY <1>2, <1>5 DEF ScanType
<1>. HIDE DEF b, f
<1>7. ScanBoth(p, NullMark) = Scan(b, "N")
  BY <1>3 DEF ScanBoth, NullMark
<1>8. Scan(b, "N") = [b EXCEPT !.escaped = FALSE, !.field = Means(@, "N", "N")]
  BY <1>1, <1>6 DEF Scan
<1>9. /\ Means(f, "N", "N") \in FieldType
      /\ Means(f, "N", "N").raw = NullMark
  <2>1. Append(f.raw, "N") = NullMark
    <3> DEFINE s == <<Backslash>>
    <3>1. s \in Seq(Char) /\ Len(s) = 1 /\ s[1] = Backslash
      BY <1>1
    <3>2. NullMark \in Seq(Char) /\ Len(NullMark) = 2 /\ NullMark[1] = Backslash /\ NullMark[2] = "N"
      BY <1>1 DEF NullMark
    <3>3. f.raw = s
      BY <1>2
    <3>. HIDE DEF s
    <3>4. /\ Append(s, "N") \in Seq(Char) /\ Len(Append(s, "N")) = 2
          /\ Append(s, "N")[1] = Backslash /\ Append(s, "N")[2] = "N"
      <4>1. s \in Seq(Char) /\ "N" \in Char
        BY <1>1, <3>1
      <4>2. /\ Append(s, "N") \in Seq(Char) /\ Len(Append(s, "N")) = Len(s) + 1
            /\ \A i \in 1..Len(s) : Append(s, "N")[i] = s[i]
            /\ Append(s, "N")[Len(s) + 1] = "N"
        BY <4>1, AppendType
      <4>3. 1 \in 1..Len(s) /\ Len(s) + 1 = 2
        BY <3>1
      <4>. QED BY <3>1, <4>2, <4>3
    <3>5. \A i \in 1..2 : Append(s, "N")[i] = NullMark[i]
      BY <3>2, <3>4
    <3>6. Append(s, "N") = NullMark
      BY <3>2, <3>4, <3>5, SeqEqual
    <3>. QED BY <3>3, <3>6
  <2>2. "N" \in Char /\ f \in FieldType
    BY <1>1, <1>2
  <2>3. Means(f, "N", "N") \in FieldType /\ Means(f, "N", "N").raw = Append(f.raw, "N")
    BY <2>2, MeansType
  <2>. QED BY <2>1, <2>3
<1>. QED BY <1>6, <1>7, <1>8, <1>9 DEF ScanType

-----------------------------------------------------------------------------
(* A field of a plain record after a of its texts, and when it is complete.*)

TextAt(f, v, a) ==
  /\ a = 0 => f = Blank
  /\ v = Null /\ a = 1 => f.raw = NullMark
  /\ v # Null => f.raw = f.text /\ Len(f.text) = a /\ \A i \in 1..a : f.text[i] = Blanked(v[i])
TextDone(f, v) ==
  IF v = Null THEN f.null ELSE ~f.null /\ f.text = [i \in 1..Len(v) |-> Blanked(v[i])]

JsonAt(f, v, a) ==
  /\ a = 0 => f = Blank
  /\ v = Null /\ a = 1 => f.raw = NullMark
  /\ v # Null /\ a > 0 => Len(f.raw) > 0 /\ f.raw[1] = Quote
  /\ v # Null /\ a \in 1..Len(v) + 1 =>
       f.json.at = "in" /\ Len(f.json.value) = a - 1 /\ \A i \in 1..a - 1 : f.json.value[i] = v[i]
  /\ v # Null /\ a = Len(v) + 2 => f.json.at = "end" /\ f.json.value = v
JsonDone(f, v) == IF v = Null THEN f.null ELSE ~f.null /\ f.json.at = "end" /\ f.json.value = v

(* q is p with some more of the field read.                                *)
SameButField(p, q) == q \in ScanType /\ q.rows = p.rows /\ q.row = p.row /\ ~q.escaped

LEMMA NullMarkIs == /\ NullMark \in Seq(Char) /\ Len(NullMark) = 2 /\ NullMark[1] = Backslash
BY DEF NullMark, Char, Letters

LEMMA OneText == ASSUME NEW p, NEW c PROVE ScanBoth(p, <<c>>) = Scan(p, c)
BY DEF ScanBoth

LEMMA TextStep ==
  ASSUME NEW p \in ScanType, ~p.escaped, NEW v \in {Null} \cup Seq(Char), ~Special(v, {Backslash}),
         NEW a \in Nat, a < TextWidth(v), TextAt(p.field, v, a)
  PROVE  LET q == ScanBoth(p, TextField(v)[a + 1])
         IN  SameButField(p, q) /\ TextAt(q.field, v, a + 1)
<1>1. CASE v = Null
  <2>1. a = 0 /\ p.field = Blank /\ TextField(v)[a + 1] = NullMark
    BY <1>1 DEF TextWidth, TextAt, TextField
  <2>. QED BY <1>1, <2>1, ScanNull DEF SameButField, TextAt
<1>2. CASE v # Null
  <2> DEFINE c == Blanked(v[a + 1])
             q == Scan(p, c)
  <2>1. v \in Seq(Char) /\ Len(v) \in Nat /\ a + 1 \in 1..Len(v) /\ DOMAIN v = 1..Len(v)
    BY <1>2, LenProperties DEF TextWidth
  <2>2. v[a + 1] \in Char /\ v[a + 1] # Backslash
    BY <1>2, <2>1, ElementOfSeq DEF Special
  <2>3. c \in Char \ {Backslash, Tab, Newline}
    BY <2>2, CharAssumption DEF Blanked, Char, Letters, Control
  <2>4. ScanBoth(p, TextField(v)[a + 1]) = q
    <3>1. TextField(v)[a + 1] = <<c>>
      BY <1>2, <2>1 DEF TextField
    <3>. HIDE DEF c
    <3>. QED BY <3>1, OneText
  <2>. HIDE DEF c
  <2>5. SameButField(p, q) /\ q.field = Means(p.field, c, c)
    BY <2>3, ScanPlain DEF SameButField
  <2>6. /\ p.field \in FieldType /\ p.field.text \in Seq(Char)
        /\ p.field.raw = p.field.text /\ Len(p.field.text) = a
        /\ \A i \in 1..a : p.field.text[i] = Blanked(v[i])
    BY <1>2 DEF ScanType, FieldType, TextAt
  <2>. HIDE DEF q
  <2>7. /\ q.field.raw = Append(p.field.text, c) /\ q.field.text = Append(p.field.text, c)
    <3>1. c \in Char /\ p.field \in FieldType
      BY <2>3, <2>6
    <3>2. /\ Means(p.field, c, c).raw = Append(p.field.raw, c)
          /\ Means(p.field, c, c).text = Append(p.field.text, c)
      BY <3>1, MeansType
    <3>. QED BY <2>5, <2>6, <3>2
  <2>8. /\ Len(q.field.text) = a + 1 /\ q.field.text[a + 1] = c
        /\ \A i \in 1..a : q.field.text[i] = p.field.text[i]
    BY <2>3, <2>6, <2>7, AppendType
  <2>9. \A i \in 1..a + 1 : i \in 1..a \/ i = a + 1
    OBVIOUS
  <2>10. \A i \in 1..a + 1 : q.field.text[i] = Blanked(v[i])
    BY <2>6, <2>8, <2>9 DEF c
  <2>. QED BY <1>2, <2>4, <2>5, <2>7, <2>8, <2>10 DEF TextAt
<1>. QED BY <1>1, <1>2

LEMMA TextEnd ==
  ASSUME NEW f \in FieldType, NEW v \in {Null} \cup Seq(Char), ~Special(v, {Backslash}),
         TextAt(f, v, TextWidth(v))
  PROVE  TextDone(Field(f), v)
<1>1. CASE v = Null
  BY <1>1, FieldEnds DEF TextAt, TextWidth, TextDone
<1>2. CASE v # Null
  <2>1. v \in Seq(Char) /\ Len(v) \in Nat /\ DOMAIN v = 1..Len(v) /\ \A i \in 1..Len(v) : v[i] \in Char
    BY <1>2, LenProperties, ElementOfSeq
  <2>2. /\ f.raw = f.text /\ f.text \in Seq(Char) /\ Len(f.text) = Len(v)
        /\ \A i \in 1..Len(v) : f.text[i] = Blanked(v[i])
    BY <1>2 DEF TextAt, TextWidth, FieldType
  <2>3. f.raw # NullMark
    <3>. SUFFICES ASSUME f.raw = NullMark PROVE FALSE
      OBVIOUS
    <3>1. Len(v) = 2 /\ Blanked(v[1]) = Backslash /\ 1 \in 1..Len(v)
      BY <2>2, NullMarkIs
    <3>2. v[1] # Backslash
      BY <1>2, <2>1, <3>1 DEF Special
    <3>. QED BY <3>1, <3>2, CharAssumption DEF Blanked, Letters
  <2>4. f.text = [i \in 1..Len(v) |-> Blanked(v[i])]
    <3>1. DOMAIN f.text = 1..Len(v) /\ f.text = [i \in DOMAIN f.text |-> f.text[i]]
      BY <2>1, <2>2, LenProperties
    <3>. QED BY <2>2, <3>1
  <2>. QED BY <1>2, <2>3, <2>4, FieldEnds DEF TextDone
<1>. QED BY <1>1, <1>2

LEMMA JsonStep ==
  ASSUME NEW p \in ScanType, ~p.escaped, NEW v \in {Null} \cup Seq(Char),
         ~Special(v, Control \cup {Quote, Backslash}),
         NEW a \in Nat, a < JsonWidth(v), JsonAt(p.field, v, a)
  PROVE  LET q == ScanBoth(p, JsonField(v)[a + 1])
         IN  SameButField(p, q) /\ JsonAt(q.field, v, a + 1)
<1>1. CASE v = Null
  <2>1. a = 0 /\ p.field = Blank /\ JsonField(v)[a + 1] = NullMark
    BY <1>1 DEF JsonWidth, JsonAt, JsonField
  <2>. QED BY <1>1, <2>1, ScanNull DEF SameButField, JsonAt
<1>2. CASE v # Null
  <2>1. v \in Seq(Char) /\ Len(v) \in Nat /\ DOMAIN v = 1..Len(v) /\ a < Len(v) + 2
    BY <1>2, LenProperties DEF JsonWidth
  <2>2. ASSUME NEW i \in 1..Len(v) PROVE v[i] \in Char \ (Control \cup {Quote, Backslash})
    BY <1>2, <2>1, <2>2, ElementOfSeq DEF Special
  (* The character of the text, which stands for itself.                   *)
  <2> DEFINE c == IF a + 1 \in {1, Len(v) + 2} THEN Quote ELSE v[a]
             q == Scan(p, c)
  <2>3. c \in Char \ {Backslash, Tab, Newline}
    <3>1. Quote \in Char \ {Backslash, Tab, Newline}
      BY CharAssumption DEF Char, Letters
    <3>2. a + 1 \notin {1, Len(v) + 2} => a \in 1..Len(v)
      BY <2>1
    <3>. QED BY <2>2, <3>1, <3>2 DEF Control
  <2>4. ScanBoth(p, JsonField(v)[a + 1]) = q
    <3>1. JsonField(v)[a + 1] = <<c>>
      <4>1. a + 1 \in 1..Len(v) + 2
        BY <2>1
      <4>2. JsonField(v)[a + 1] = IF a + 1 \in {1, Len(v) + 2} THEN <<Quote>> ELSE Escaped(v[(a + 1) - 1])
        BY <1>2, <4>1 DEF JsonField, JsonDumps
      <4>3. CASE a + 1 \in {1, Len(v) + 2}
        BY <4>2, <4>3
      <4>4. CASE a + 1 \notin {1, Len(v) + 2}
        <5>1. a \in 1..Len(v) /\ (a + 1) - 1 = a
          BY <2>1, <4>4
        <5>2. Escaped(v[a]) = <<v[a]>>
          BY <2>2, <5>1 DEF Escaped, Control
        <5>. QED BY <4>2, <4>4, <5>1, <5>2
      <4>. QED BY <4>3, <4>4
    <3>. HIDE DEF c
    <3>. QED BY <3>1, OneText
  <2>5. SameButField(p, q) /\ q.field = Means(p.field, c, c)
    <3>. HIDE DEF c
    <3>. QED BY <2>3, ScanPlain DEF SameButField
  <2>6. /\ p.field \in FieldType /\ p.field.raw \in Seq(Char) /\ p.field.json \in JsonType
        /\ p.field.json.value \in Seq(Char)
    BY DEF ScanType, FieldType, JsonType
  <2>7. /\ q.field.raw = Append(p.field.raw, c) /\ q.field.json = JsonScan(p.field.json, c)
    <3>. HIDE DEF c, q
    <3>1. c \in Char
      BY <2>3
    <3>2. /\ Means(p.field, c, c).raw = Append(p.field.raw, c)
          /\ Means(p.field, c, c).json = JsonScan(p.field.json, c)
      BY <2>6, <3>1, MeansType
    <3>. QED BY <2>5, <3>2
  <2>8. Len(q.field.raw) > 0 /\ q.field.raw[1] = Quote
    <3>0. c \in Char
      BY <2>3
    <3>1. CASE a = 0
      <4>1. c = Quote /\ Len(p.field.raw) = 0
        BY <3>1 DEF JsonAt, Blank
      <4>. HIDE DEF c, q
      <4>2. Len(q.field.raw) = 0 + 1 /\ q.field.raw[0 + 1] = c
        BY <2>6, <2>7, <3>0, <4>1, AppendType
      <4>. QED BY <4>1, <4>2
    <3>2. CASE a # 0
      <4>1. Len(p.field.raw) > 0 /\ p.field.raw[1] = Quote
        BY <1>2, <3>2 DEF JsonAt
      <4>. HIDE DEF c, q
      <4>2. /\ Len(q.field.raw) = Len(p.field.raw) + 1 /\ Len(p.field.raw) \in Nat
            /\ \A i \in 1..Len(p.field.raw) : q.field.raw[i] = p.field.raw[i]
        BY <2>6, <2>7, <3>0, AppendType
      <4>. QED BY <4>1, <4>2
    <3>. QED BY <3>1, <3>2
  (* What it does to the JSON value.                                       *)
  <2>9. CASE a = 0
    <3>1. p.field.json = JsonBegin /\ c = Quote
      BY <2>9 DEF JsonAt, Blank
    <3>2. q.field.json.at = "in" /\ q.field.json.value = <<>>
      <4>. HIDE DEF c, q
      <4>. QED BY <2>7, <3>1 DEF JsonScan, JsonBegin
    <3>. HIDE DEF c, q
    <3>. QED BY <1>2, <2>1, <2>4, <2>5, <2>8, <2>9, <3>2 DEF JsonAt
  <2>10. CASE a \in 1..Len(v)
    <3>1. c = v[a] /\ c \notin Control \cup {Quote, Backslash} /\ c \in Char
      BY <2>1, <2>2, <2>10
    <3>2. /\ p.field.json.at = "in" /\ Len(p.field.json.value) = a - 1
          /\ \A i \in 1..a - 1 : p.field.json.value[i] = v[i]
      BY <1>2, <2>1, <2>10 DEF JsonAt
    <3>. HIDE DEF c, q
    <3>3. q.field.json = [p.field.json EXCEPT !.value = Append(@, c)]
      BY <2>7, <3>1, <3>2 DEF JsonScan
    <3>4. q.field.json.at = "in" /\ q.field.json.value = Append(p.field.json.value, c)
      BY <2>6, <3>2, <3>3 DEF JsonType
    <3>5. /\ Len(q.field.json.value) = (a - 1) + 1 /\ q.field.json.value[(a - 1) + 1] = c
          /\ \A i \in 1..a - 1 : q.field.json.value[i] = p.field.json.value[i]
      BY <2>6, <3>1, <3>2, <3>4, AppendType
    <3>6. \A i \in 1..(a + 1) - 1 : i \in 1..a - 1 \/ i = (a - 1) + 1
      BY <2>10
    <3>7. \A i \in 1..(a + 1) - 1 : q.field.json.value[i] = v[i]
      BY <2>10, <3>1, <3>2, <3>5, <3>6
    <3>. QED BY <1>2, <2>1, <2>4, <2>5, <2>8, <2>10, <3>4, <3>5, <3>7 DEF JsonAt
  <2>11. CASE a = Len(v) + 1
    <3>1. c = Quote
      BY <2>1, <2>11
    <3>2. /\ p.field.json.at = "in" /\ Len(p.field.json.value) = Len(v)
          /\ \A i \in 1..Len(v) : p.field.json.value[i] = v[i]
      BY <1>2, <2>1, <2>11 DEF JsonAt
    <3>. HIDE DEF c, q
    <3>3. p.field.json.value = v
      BY <2>1, <2>6, <3>2, SeqEqual
    <3>4. q.field.json = [p.field.json EXCEPT !.at = "end"]
      BY <2>7, <3>1, <3>2, CharAssumption DEF JsonScan
    <3>5. q.field.json.at = "end" /\ q.field.json.value = v
      BY <2>6, <3>3, <3>4 DEF JsonType
    <3>. QED BY <1>2, <2>1, <2>4, <2>5, <2>8, <2>11, <3>5 DEF JsonAt
  <2>. QED BY <2>1, <2>9, <2>10, <2>11
<1>. QED BY <1>1, <1>2

LEMMA JsonEnd ==
  ASSUME NEW f \in FieldType, NEW v \in {Null} \cup Seq(Char), JsonAt(f, v, JsonWidth(v))
  PROVE  JsonDone(Field(f), v)
<1>1. CASE v = Null
  BY <1>1, FieldEnds DEF JsonAt, JsonWidth, JsonDone
<1>2. CASE v # Null
  <2>1. Len(v) \in Nat
    BY <1>2, LenProperties
  <2>2. f.raw[1] = Quote /\ f.json.at = "end" /\ f.json.value = v
    BY <1>2, <2>1 DEF JsonAt, JsonWidth
  <2>3. f.raw # NullMark
    BY <2>2, NullMarkIs, CharAssumption
  <2>. QED BY <1>2, <2>2, <2>3, FieldEnds DEF JsonDone
<1>. QED BY <1>1, <1>2

-----------------------------------------------------------------------------
(* A line of a plain record after a of its texts, and when it is a row.    *)

InLine(p, r, a) ==
  /\ ~p.escaped
  /\ a <= TextWidth(r.text) => p.row = <<>> /\ TextAt(p.field, r.text, a)
  /\ a > TextWidth(r.text) => /\ Len(p.row) = 1 /\ TextDone(p.row[1], r.text)
                              /\ JsonAt(p.field, r.json, a - TextWidth(r.text) - 1)
RowDone(row, r) == Len(row) = 2 /\ TextDone(row[1], r.text) /\ JsonDone(row[2], r.json)

LEMMA LineBegins == ASSUME NEW p \in ScanType, ~p.escaped, p.row = <<>>, p.field = Blank,
                           NEW r \in RecordType
                    PROVE  InLine(p, r, 0)
<1>1. TextWidth(r.text) \in Nat
  BY FieldWidths DEF RecordType
<1>2. TextAt(p.field, r.text, 0)
  BY DEF TextAt, Blank
<1>. QED BY <1>1, <1>2 DEF InLine

LEMMA LineStep ==
  ASSUME NEW p \in ScanType, NEW r \in RecordType, Plain(r), NEW a \in Nat,
         a < Len(Line(r)) - 1, InLine(p, r, a)
  PROVE  LET q == ScanBoth(p, Line(r)[a + 1])
         IN  q \in ScanType /\ q.rows = p.rows /\ InLine(q, r, a + 1)
<1> DEFINE n == TextWidth(r.text)
           m == JsonWidth(r.json)
           q == ScanBoth(p, Line(r)[a + 1])
<1>. SUFFICES q \in ScanType /\ q.rows = p.rows /\ InLine(q, r, a + 1)
  OBVIOUS
<1>0. r.text \in {Null} \cup Seq(Char) /\ r.json \in {Null} \cup Seq(Char)
  BY DEF RecordType
<1>1. n \in Nat /\ m \in Nat \ {0} /\ Len(Line(r)) = n + m + 2 /\ a < n + m + 1
  <2>1. n \in Nat /\ m \in Nat \ {0} /\ Len(Line(r)) = n + m + 2
    BY <1>0, FieldWidths, LineTexts
  <2>. QED BY <2>1
<1>2. ~Special(r.text, {Backslash}) /\ ~Special(r.json, Control \cup {Quote, Backslash})
  BY DEF Plain
<1>3. ~p.escaped /\ p.field \in FieldType /\ p.row \in Seq(FieldType)
  BY DEF InLine, ScanType
<1>4. CASE a < n
  <2>1. p.row = <<>> /\ TextAt(p.field, r.text, a)
    BY <1>1, <1>4 DEF InLine
  <2>2. Line(r)[a + 1] = TextField(r.text)[a + 1]
    <3>1. a + 1 \in 1..n
      BY <1>1, <1>4
    <3>. QED BY <3>1, LineTexts
  <2>3. SameButField(p, q) /\ TextAt(q.field, r.text, a + 1)
    BY <1>0, <1>2, <1>3, <1>4, <2>1, <2>2, TextStep
  <2>. HIDE DEF q
  <2>. QED BY <1>1, <1>4, <2>1, <2>3 DEF InLine, SameButField
<1>5. CASE a = n
  <2>1. p.row = <<>> /\ TextAt(p.field, r.text, n)
    BY <1>1, <1>5 DEF InLine
  <2>2. q = Scan(p, Tab)
    BY <1>5, LineTexts, OneText
  <2>. HIDE DEF q, n
  <2>3. /\ q \in ScanType /\ q.rows = p.rows /\ q.row = Append(p.row, Field(p.field))
        /\ ~q.escaped /\ q.field = Blank
    BY <1>3, <2>2, ScanTab
  <2>4. Len(q.row) = 1 /\ q.row[1] = Field(p.field)
    <3>1. Len(p.row) = 0 /\ Field(p.field) \in FieldType
      BY <1>3, <2>1, FieldEnds, EmptySeq
    <3>2. Len(q.row) = 0 + 1 /\ q.row[0 + 1] = Field(p.field)
      BY <1>3, <2>3, <3>1, AppendType
    <3>. QED BY <3>2
  <2>5. TextDone(q.row[1], r.text)
    BY <1>0, <1>2, <1>3, <2>1, <2>4, TextEnd DEF n
  <2>6. JsonAt(q.field, r.json, 0)
    <3>1. r.json # Null => Len(r.json) \in Nat
      BY <1>0, LenProperties
    <3>. QED BY <2>3, <3>1 DEF JsonAt
  <2>7. a + 1 > n /\ (a + 1) - n - 1 = 0 /\ ~(a + 1 <= n)
    BY <1>1, <1>5
  <2>. QED BY <2>3, <2>4, <2>5, <2>6, <2>7 DEF InLine, n
<1>6. CASE a > n
  <2> DEFINE b == a - n - 1
  <2>1. b \in Nat /\ b < m /\ b + 1 \in 1..m /\ n + 1 + (b + 1) = a + 1
    BY <1>1, <1>6
  <2>2. Len(p.row) = 1 /\ TextDone(p.row[1], r.text) /\ JsonAt(p.field, r.json, b)
    BY <1>6 DEF InLine
  <2>3. Line(r)[a + 1] = JsonField(r.json)[b + 1]
    <3>1. Line(r)[n + 1 + (b + 1)] = JsonField(r.json)[b + 1]
      <4>. HIDE DEF b
      <4>. QED BY <2>1, LineTexts
    <3>2. n + 1 + (b + 1) = a + 1
      BY <2>1
    <3>. HIDE DEF b, n
    <3>. QED BY <3>1, <3>2
  <2>4. SameButField(p, q) /\ JsonAt(q.field, r.json, b + 1)
    <3>1. q = ScanBoth(p, JsonField(r.json)[b + 1])
      BY <2>3
    <3>. HIDE DEF b, q
    <3>. QED BY <1>0, <1>2, <1>3, <2>1, <2>2, <3>1, JsonStep
  <2>5. a + 1 > n /\ ~(a + 1 <= n) /\ (a + 1) - n - 1 = b + 1
    BY <1>1, <1>6
  <2>. HIDE DEF b, q
  <2>. QED BY <2>2, <2>4, <2>5 DEF InLine, SameButField
<1>. QED BY <1>1, <1>4, <1>5, <1>6

LEMMA LineEnd ==
  ASSUME NEW p \in ScanType, NEW r \in RecordType, InLine(p, r, Len(Line(r)) - 1)
  PROVE  LET q == ScanBoth(p, Line(r)[Len(Line(r))])
         IN  /\ q \in ScanType /\ ~q.escaped /\ q.row = <<>> /\ q.field = Blank
             /\ \E row \in Seq(FieldType) : q.rows = Append(p.rows, row) /\ RowDone(row, r)
<1> DEFINE n == TextWidth(r.text)
           m == JsonWidth(r.json)
           q == ScanBoth(p, Line(r)[Len(Line(r))])
           row == Append(p.row, Field(p.field))
<1>0. r.text \in {Null} \cup Seq(Char) /\ r.json \in {Null} \cup Seq(Char)
  BY DEF RecordType
<1>1. n \in Nat /\ m \in Nat \ {0} /\ Len(Line(r)) = n + m + 2 /\ Line(r)[n + m + 2] = <<Newline>>
  BY <1>0, FieldWidths, LineTexts
<1>2. Len(Line(r)) - 1 > n /\ (Len(Line(r)) - 1) - n - 1 = m
  BY <1>1
<1>3. Len(p.row) = 1 /\ TextDone(p.row[1], r.text) /\ JsonAt(p.field, r.json, m) /\ ~p.escaped
  <2>. HIDE DEF m
  <2>. QED BY <1>2 DEF InLine
<1>4. p.field \in FieldType /\ p.row \in Seq(FieldType)
  BY DEF ScanType
<1>5. q = Scan(p, Newline)
  BY <1>1, OneText
<1>6. Field(p.field) \in FieldType /\ JsonDone(Field(p.field), r.json)
  BY <1>0, <1>3, <1>4, FieldEnds, JsonEnd
<1>7. /\ row \in Seq(FieldType) /\ Len(row) = 1 + 1 /\ row[1 + 1] = Field(p.field)
      /\ \A i \in 1..1 : row[i] = p.row[i]
  <2>1. Len(p.row) = 1
    BY <1>3
  <2>2. p.row \in Seq(FieldType) /\ Field(p.field) \in FieldType
    BY <1>4, <1>6
  <2>3. /\ row \in Seq(FieldType) /\ Len(row) = Len(p.row) + 1
        /\ row[Len(p.row) + 1] = Field(p.field) /\ \A i \in 1..Len(p.row) : row[i] = p.row[i]
    BY <2>2, AppendType
  <2>. QED BY <2>1, <2>3
<1>8. RowDone(row, r)
  <2>1. row[1] = p.row[1] /\ row[2] = Field(p.field) /\ Len(row) = 2
    BY <1>7
  <2>. HIDE DEF row
  <2>. QED BY <1>3, <1>6, <2>1 DEF RowDone
<1>9. /\ q \in ScanType /\ q.rows = Append(p.rows, row) /\ q.row = <<>> /\ ~q.escaped
      /\ q.field = Blank
  BY <1>3, <1>5, ScanNewline
<1>. HIDE DEF row, q
<1>. QED BY <1>7, <1>8, <1>9 DEF q

LEMMA RowIsExpected ==
  ASSUME NEW r \in RecordType, NEW row, RowDone(row, r) PROVE Stored(row) = Expected(r)
<1>1. r.text # Null => DOMAIN r.text = 1..Len(r.text)
  BY LenProperties DEF RecordType
<1>2. (IF row[1].null THEN Null ELSE row[1].text) =
        IF r.text = Null THEN Null
        ELSE [i \in DOMAIN r.text |-> IF r.text[i] \in Control THEN Space ELSE r.text[i]]
  BY <1>1 DEF RowDone, TextDone, Blanked
<1>3. (IF row[2].null THEN Null ELSE row[2].json.value) = r.json
  BY DEF RowDone, JsonDone
<1>. QED BY <1>2, <1>3 DEF Stored, Expected

-----------------------------------------------------------------------------
(* The invariant.  start gives the place in the buffer where each line     *)
(* begins; COPY is in line l after a of its texts, and the lines before it *)
(* are the rows of their records.                                          *)
AllPlain == \A i \in DOMAIN records : Plain(records[i])

LinesAt(start) ==
  /\ start \in [1..built + 1 -> Nat] /\ start[1] = 0 /\ start[built + 1] = Len(buf)
  /\ \A l \in 1..built + 1 : start[l] <= Len(buf)
  /\ \A l \in 1..built : /\ start[l + 1] = start[l] + Len(Line(records[l]))
                         /\ \A a \in 1..Len(Line(records[l])) :
                              buf[start[l] + a] = Line(records[l])[a]

ReadAt(start, l, a) ==
  /\ taken = start[l] + a
  /\ l = built + 1 => a = 0
  /\ l <= built => a < Len(Line(records[l])) /\ InLine(scan, records[l], a)
  /\ a = 0 => ~scan.escaped /\ scan.row = <<>> /\ scan.field = Blank
  /\ Len(scan.rows) = l - 1 /\ \A i \in 1..l - 1 : RowDone(scan.rows[i], records[i])

CopyTypes ==
  /\ pc \in {"build", "copy", "loaded", "rejected"} /\ records \in Batches
  /\ built \in 0..Len(records) /\ buf \in Seq(Seq(Char))
  /\ pc = "build" => taken = 0 /\ scan = Start
  /\ pc # "build" => built = Len(records)

CopyInv ==
  /\ CopyTypes
  /\ AllPlain => /\ scan \in ScanType
                 /\ \E start : /\ LinesAt(start)
                               /\ pc = "copy" => \E l \in 1..built + 1, a \in Nat : ReadAt(start, l, a)
                 /\ pc \in {"loaded", "rejected"} =>
                      rows = [i \in DOMAIN records |-> Expected(records[i])]

LEMMA RecordsAre ==
  ASSUME records \in Batches
  PROVE  /\ Len(records) \in Nat \ {0} /\ DOMAIN records = 1..Len(records)
         /\ \A i \in 1..Len(records) : records[i] \in RecordType
<1>1. records \in Seq(RecordType) /\ Len(records) > 0
  BY BatchesAssumption DEF RecordType
<1>. QED BY <1>1, LenProperties, ElementOfSeq

LEMMA CopyInit == Init => CopyInv
<1>. SUFFICES ASSUME Init PROVE CopyInv
  OBVIOUS
<1>1. CopyTypes
  BY RecordsAre, EmptySeq DEF Init, CopyTypes
<1> DEFINE start == [l \in 1..1 |-> 0]
<1>2. LinesAt(start)
  BY EmptySeq DEF Init, LinesAt
<1>3. scan \in ScanType /\ pc = "build"
  BY BlankType DEF Init
<1>. HIDE DEF start
<1>. QED BY <1>1, <1>2, <1>3 DEF CopyInv

LEMMA WriteLineInv == ASSUME CopyInv, WriteLine PROVE CopyInv'
<1> DEFINE r == records[built + 1]
           L == Line(r)
<1>0. /\ pc = "build" /\ pc' = pc /\ records' = records /\ records \in Batches
      /\ built \in Nat /\ built + 1 \in 1..Len(records) /\ built' = built + 1
      /\ buf' = buf \o L /\ buf \in Seq(Seq(Char)) /\ UNCHANGED <<taken, scan, rows>>
      /\ Len(records) \in Nat
  BY RecordsAre DEF CopyInv, CopyTypes, WriteLine
<1>1. L \in Seq(Seq(Char)) /\ Len(L) \in Nat
  <2>1. r \in RecordType
    BY <1>0, RecordsAre
  <2>2. L \in Seq(Seq(Char))
    BY <2>1, LineTexts
  <2>. QED BY <2>2, LenProperties
<1>. HIDE DEF L, r
<1>2. /\ buf' \in Seq(Seq(Char)) /\ Len(buf') = Len(buf) + Len(L) /\ Len(buf) \in Nat
      /\ \A i \in 1..Len(buf) : buf'[i] = buf[i]
      /\ \A i \in 1..Len(L) : buf'[Len(buf) + i] = L[i]
  BY <1>0, <1>1, ConcatParts, LenProperties
<1>3. CopyTypes'
  BY <1>0, <1>2 DEF CopyInv, CopyTypes
<1>4. ASSUME AllPlain' PROVE scan' \in ScanType /\ \E start : LinesAt(start)'
  <2>1. AllPlain
    BY <1>0, <1>4 DEF AllPlain
  <2>2. PICK s : LinesAt(s)
    BY <2>1 DEF CopyInv
  <2>3. /\ s \in [1..built + 1 -> Nat] /\ s[1] = 0 /\ s[built + 1] = Len(buf)
        /\ \A l \in 1..built + 1 : s[l] <= Len(buf)
    BY <2>2 DEF LinesAt
  <2>4. PICK t : /\ t \in [1..built + 2 -> Nat] /\ t[built + 2] = Len(buf) + Len(L)
                 /\ \A l \in 1..built + 1 : t[l] = s[l]
    <3> DEFINE u == [l \in 1..built + 2 |-> IF l = built + 2 THEN Len(buf) + Len(L) ELSE s[l]]
    <3>1. /\ u \in [1..built + 2 -> Nat] /\ u[built + 2] = Len(buf) + Len(L)
          /\ \A l \in 1..built + 1 : u[l] = s[l]
      BY <1>0, <1>1, <1>2, <2>3
    <3>. HIDE DEF u
    <3>. QED BY <3>1
  <2>5. \A l \in 1..built + 2 : t[l] <= Len(buf')
    <3>. SUFFICES ASSUME NEW l \in 1..built + 2 PROVE t[l] <= Len(buf')
      OBVIOUS
    <3>1. CASE l \in 1..built + 1
      <4>1. s[l] \in Nat /\ s[l] <= Len(buf) /\ t[l] = s[l]
        BY <2>3, <2>4, <3>1
      <4>. QED BY <1>1, <1>2, <4>1
    <3>2. CASE l = built + 2
      BY <1>1, <1>2, <2>4, <3>2
    <3>. QED BY <1>0, <3>1, <3>2
  <2>6. ASSUME NEW l \in 1..built + 1
        PROVE  /\ t[l + 1] = t[l] + Len(Line(records[l]))
               /\ \A a \in 1..Len(Line(records[l])) : buf'[t[l] + a] = Line(records[l])[a]
    <3>1. CASE l \in 1..built
      <4>1. /\ s[l + 1] = s[l] + Len(Line(records[l]))
            /\ \A a \in 1..Len(Line(records[l])) : buf[s[l] + a] = Line(records[l])[a]
        BY <2>2, <3>1 DEF LinesAt
      <4>2. l + 1 \in 1..built + 1 /\ l \in 1..built + 1
        BY <1>0, <3>1
      <4>3. t[l] = s[l] /\ t[l + 1] = s[l + 1] /\ s[l + 1] <= Len(buf) /\ s[l] \in Nat /\ s[l + 1] \in Nat
        BY <2>3, <2>4, <4>2
      <4>4. Len(Line(records[l])) \in Nat
        <5>1. records[l] \in RecordType
          BY <1>0, <3>1, RecordsAre
        <5>. QED BY <5>1, LineTexts, LenProperties
      <4> DEFINE k == Len(Line(records[l]))
      <4>5. \A a \in 1..k : s[l] + a \in 1..Len(buf)
        <5>1. s[l + 1] = s[l] + k /\ k \in Nat
          BY <4>1, <4>4
        <5>2. s[l] + k <= Len(buf) /\ s[l] \in Nat /\ Len(buf) \in Nat /\ k \in Nat
          BY <1>2, <4>3, <5>1
        <5>. HIDE DEF k
        <5>. QED BY <5>2
      <4>. QED BY <1>2, <4>1, <4>3, <4>5
    <3>2. CASE l = built + 1
      <4>1. t[l] = Len(buf) /\ t[l + 1] = Len(buf) + Len(L) /\ Line(records[l]) = L
        <5>1. built + 1 \in 1..built + 1 /\ (built + 1) + 1 = built + 2
          BY <1>0
        <5>. QED BY <2>3, <2>4, <3>2, <5>1 DEF L, r
      <4>. QED BY <1>2, <4>1
    <3>3. l \in 1..built \/ l = built + 1
      BY <1>0
    <3>. QED BY <3>1, <3>2, <3>3
  <2>7. LinesAt(t)'
    <3>1. built' = built + 1 /\ built' + 1 = built + 2 /\ 1 \in 1..built + 1
      BY <1>0
    <3>. QED BY <1>0, <1>2, <2>3, <2>4, <2>5, <2>6, <3>1 DEF LinesAt
  <2>8. scan' \in ScanType
    BY <1>0, <2>1 DEF CopyInv
  <2>. QED BY <2>7, <2>8
<1>. QED BY <1>0, <1>3, <1>4 DEF CopyInv

LEMMA StartCopyInv == ASSUME CopyInv, StartCopy PROVE CopyInv'
<1>0. /\ pc = "build" /\ pc' = "copy" /\ UNCHANGED <<records, built, buf, taken, scan, rows>>
      /\ built = Len(records) /\ taken = 0 /\ scan = Start /\ records \in Batches
      /\ Len(records) \in Nat \ {0}
  BY RecordsAre DEF CopyInv, CopyTypes, StartCopy
<1>1. CopyTypes'
  BY <1>0 DEF CopyInv, CopyTypes
<1>2. ASSUME AllPlain'
      PROVE  scan' \in ScanType /\ \E start : /\ LinesAt(start)'
                                              /\ \E l \in 1..built' + 1, a \in Nat : ReadAt(start, l, a)'
  <2>1. scan \in ScanType
    BY <1>0, BlankType
  <2>2. PICK start : LinesAt(start)
    BY <1>0, <1>2 DEF CopyInv, AllPlain
  <2>3. LinesAt(start)'
    BY <1>0, <2>2 DEF LinesAt
  <2>4. ~scan.escaped /\ scan.row = <<>> /\ scan.field = Blank /\ Len(scan.rows) = 0
    BY <1>0, EmptySeq DEF Start
  <2>5. records[1] \in RecordType
    BY <1>0, RecordsAre
  <2>6. InLine(scan, records[1], 0) /\ 0 < Len(Line(records[1]))
    <3>1. Len(Line(records[1])) \in Nat /\ Len(Line(records[1])) >= 2
      <4>1. /\ TextWidth(records[1].text) \in Nat /\ JsonWidth(records[1].json) \in Nat
            /\ Len(Line(records[1])) = TextWidth(records[1].text) + JsonWidth(records[1].json) + 2
        BY <2>5, FieldWidths, LineTexts DEF RecordType
      <4>. QED BY <4>1
    <3>. QED BY <2>1, <2>4, <2>5, <3>1, LineBegins
  <2>7. start[1] = 0
    BY <2>2 DEF LinesAt
  <2>8. ReadAt(start, 1, 0)'
    BY <1>0, <2>4, <2>6, <2>7 DEF ReadAt
  <2>9. 1 \in 1..built' + 1
    BY <1>0
  <2>. QED BY <1>0, <2>1, <2>3, <2>8, <2>9
<1>. QED BY <1>0, <1>1, <1>2 DEF CopyInv

LEMMA ReadTextInv == ASSUME CopyInv, ReadText PROVE CopyInv'
<1>0. /\ pc = "copy" /\ pc' = pc /\ UNCHANGED <<records, built, buf, rows>>
      /\ taken < Len(buf) /\ taken' = taken + 1 /\ scan' = ScanBoth(scan, buf[taken + 1])
      /\ records \in Batches /\ built = Len(records) /\ built \in Nat
  BY RecordsAre DEF CopyInv, CopyTypes, ReadText
<1>1. CopyTypes'
  BY <1>0 DEF CopyInv, CopyTypes
<1>2. ASSUME AllPlain'
      PROVE  scan' \in ScanType /\ \E start : /\ LinesAt(start)'
                                              /\ \E l \in 1..built' + 1, a \in Nat : ReadAt(start, l, a)'
  <2>1. AllPlain /\ scan \in ScanType
    BY <1>0, <1>2 DEF CopyInv, AllPlain
  <2>2. PICK start : /\ LinesAt(start)
                     /\ \E l \in 1..built + 1, a \in Nat : ReadAt(start, l, a)
    BY <1>0, <2>1 DEF CopyInv
  <2>3. PICK l \in 1..built + 1, a \in Nat : ReadAt(start, l, a)
    BY <2>2
  <2>4. LinesAt(start)'
    BY <1>0, <2>2 DEF LinesAt
  <2>5. l \in 1..built
    <3>1. l = built + 1 => taken = Len(buf) + 0
      BY <2>2, <2>3 DEF ReadAt, LinesAt
    <3>2. Len(buf) \in Nat
      BY LenProperties DEF CopyInv, CopyTypes
    <3>. QED BY <1>0, <3>1, <3>2
  <2> DEFINE r == records[l]
             k == Len(Line(r))
             q == ScanBoth(scan, Line(r)[a + 1])
  <2>6. r \in RecordType /\ Plain(r)
    BY <1>0, <2>1, <2>5, RecordsAre DEF AllPlain
  <2>7. /\ taken = start[l] + a /\ a < k /\ k \in Nat /\ InLine(scan, r, a) /\ start[l] \in Nat
        /\ start[l + 1] = start[l] + k /\ \A b \in 1..k : buf[start[l] + b] = Line(r)[b]
        /\ Len(scan.rows) = l - 1 /\ \A i \in 1..l - 1 : RowDone(scan.rows[i], records[i])
    <3>1. k \in Nat
      BY <2>6, LineTexts, LenProperties
    <3>2. l <= built /\ l \in 1..built + 1
      BY <2>5
    <3>. QED BY <2>2, <2>3, <2>5, <3>1, <3>2 DEF ReadAt, LinesAt
  <2>bounds. /\ a \in Nat /\ k \in Nat /\ a < k /\ start[l] \in Nat /\ taken = start[l] + a
        /\ start[l + 1] = start[l] + k /\ l \in Nat /\ built \in Nat /\ 1 <= l /\ l <= built
    BY <1>0, <2>5, <2>7
  <2>8. scan' = q
    <3>. HIDE DEF k
    <3>1. taken + 1 = start[l] + (a + 1) /\ a + 1 \in 1..k
      BY <2>bounds
    <3>2. buf[start[l] + (a + 1)] = Line(r)[a + 1]
      BY <2>7, <3>1
    <3>. HIDE DEF r
    <3>. QED BY <1>0, <3>1, <3>2
  <2>. HIDE DEF r, k, q
  <2>9. CASE a < k - 1
    <3>1. q \in ScanType /\ q.rows = scan.rows /\ InLine(q, r, a + 1)
      BY <2>1, <2>6, <2>7, <2>9, LineStep DEF k, q
    <3>2. a + 1 < k /\ a + 1 # 0 /\ l # built + 1 /\ taken + 1 = start[l] + (a + 1) /\ a + 1 \in Nat
      BY <2>bounds, <2>9
    <3>3. ReadAt(start, l, a + 1)'
      BY <1>0, <2>7, <2>8, <3>1, <3>2 DEF ReadAt, r, k
    <3>. QED BY <1>0, <2>4, <2>8, <3>1, <3>2, <3>3
  <2>10. CASE a = k - 1
    <3>1. /\ q \in ScanType /\ ~q.escaped /\ q.row = <<>> /\ q.field = Blank
          /\ \E row \in Seq(FieldType) : q.rows = Append(scan.rows, row) /\ RowDone(row, r)
      <4>1. a + 1 = k
        BY <2>7, <2>10
      <4>2. q = ScanBoth(scan, Line(r)[Len(Line(r))]) /\ InLine(scan, r, Len(Line(r)) - 1)
        BY <2>7, <2>10, <4>1 DEF q, k
      <4>. QED BY <2>1, <2>6, <4>2, LineEnd
    <3>2. PICK row \in Seq(FieldType) : q.rows = Append(scan.rows, row) /\ RowDone(row, r)
      BY <3>1
    <3>3. /\ Len(q.rows) = Len(scan.rows) + 1 /\ q.rows[Len(scan.rows) + 1] = row
          /\ \A i \in 1..Len(scan.rows) : q.rows[i] = scan.rows[i]
      BY <2>1, <3>2, AppendType DEF ScanType
    <3>4. /\ Len(q.rows) = (l + 1) - 1
          /\ \A i \in 1..(l + 1) - 1 : RowDone(q.rows[i], records[i])
      <4>1. Len(scan.rows) = l - 1 /\ (l - 1) + 1 = l /\ (l + 1) - 1 = l
        BY <2>5, <2>7
      <4>2. \A i \in 1..l : i \in 1..l - 1 \/ i = l
        BY <2>5
      <4>. QED BY <2>7, <3>2, <3>3, <4>1, <4>2 DEF r
    <3>5. taken + 1 = start[l + 1] + 0 /\ l + 1 \in 1..built + 1 /\ (l + 1 <= built => l + 1 \in 1..built)
      BY <2>bounds, <2>10
    <3>6. l + 1 <= built => 0 < Len(Line(records[l + 1])) /\ InLine(q, records[l + 1], 0)
      <4>. SUFFICES ASSUME l + 1 <= built
                    PROVE  0 < Len(Line(records[l + 1])) /\ InLine(q, records[l + 1], 0)
        OBVIOUS
      <4>1. records[l + 1] \in RecordType
        BY <1>0, <3>5, RecordsAre
      <4>2. /\ TextWidth(records[l + 1].text) \in Nat /\ JsonWidth(records[l + 1].json) \in Nat
            /\ Len(Line(records[l + 1])) =
                 TextWidth(records[l + 1].text) + JsonWidth(records[l + 1].json) + 2
        BY <4>1, FieldWidths, LineTexts DEF RecordType
      <4>3. 0 < Len(Line(records[l + 1]))
        BY <4>2
      <4>. QED BY <3>1, <4>1, <4>3, LineBegins
    <3>7. ReadAt(start, l + 1, 0)'
      BY <1>0, <2>8, <3>1, <3>4, <3>5, <3>6 DEF ReadAt
    <3>. QED BY <1>0, <2>4, <2>8, <3>1, <3>5, <3>7
  <2>. QED BY <2>bounds, <2>9, <2>10
<1>. QED BY <1>0, <1>1, <1>2 DEF CopyInv

LEMMA CopyStepInv == ASSUME CopyInv, Copy PROVE CopyInv'
<1>0. /\ pc = "copy" /\ pc' \in {"loaded", "rejected"} /\ taken = Len(buf)
      /\ UNCHANGED <<records, built, buf, taken, scan>>
      /\ records \in Batches /\ built = Len(records) /\ built \in Nat
  BY RecordsAre DEF CopyInv, CopyTypes, Copy
<1>1. CopyTypes'
  BY <1>0 DEF CopyInv, CopyTypes
<1>2. ASSUME AllPlain'
      PROVE  /\ scan' \in ScanType /\ \E start : LinesAt(start)'
             /\ rows' = [i \in DOMAIN records |-> Expected(records[i])]
  <2>1. AllPlain /\ scan \in ScanType
    BY <1>0, <1>2 DEF CopyInv, AllPlain
  <2>2. PICK start : /\ LinesAt(start)
                     /\ \E l \in 1..built + 1, a \in Nat : ReadAt(start, l, a)
    BY <1>0, <2>1 DEF CopyInv
  <2>3. PICK l \in 1..built + 1, a \in Nat : ReadAt(start, l, a)
    BY <2>2
  <2>4. LinesAt(start)'
    BY <1>0, <2>2 DEF LinesAt
  (* COPY is behind the last line.                                         *)
  <2>5. l = built + 1
    <3>. SUFFICES ASSUME l # built + 1 PROVE FALSE
      OBVIOUS
    <3>1. l \in 1..built /\ l \in 1..built + 1 /\ l + 1 \in 1..built + 1 /\ l <= built
      BY <1>0
    <3>2. /\ taken = start[l] + a /\ a < Len(Line(records[l])) /\ start[l] \in Nat
          /\ start[l + 1] = start[l] + Len(Line(records[l])) /\ start[l + 1] <= Len(buf)
      BY <2>2, <2>3, <3>1 DEF ReadAt, LinesAt
    <3>3. Len(Line(records[l])) \in Nat /\ Len(buf) \in Nat
      <4>1. records[l] \in RecordType
        BY <1>0, <3>1, RecordsAre
      <4>. QED BY <4>1, LineTexts, LenProperties DEF CopyInv, CopyTypes
    <3>. QED BY <1>0, <3>2, <3>3
  <2>6. /\ ~scan.escaped /\ scan.row = <<>> /\ scan.field = Blank
        /\ Len(scan.rows) = built /\ \A i \in 1..built : RowDone(scan.rows[i], records[i])
    <3>1. a = 0 /\ l - 1 = built
      BY <1>0, <2>3, <2>5 DEF ReadAt
    <3>. QED BY <2>3, <3>1 DEF ReadAt
  <2>7. DOMAIN scan.rows = 1..built /\ DOMAIN records = 1..built
    BY <1>0, <2>1, <2>6, RecordsAre, LenProperties DEF ScanType
  <2>8. Acceptable(scan)
    <3>1. \A i \in 1..built : /\ Len(scan.rows[i]) = 2
                              /\ scan.rows[i][2].null \/ scan.rows[i][2].json.at = "end"
      BY <2>6 DEF RowDone, JsonDone
    <3>. QED BY <2>6, <2>7, <3>1 DEF Acceptable
  <2>9. \A i \in 1..built : Stored(scan.rows[i]) = Expected(records[i])
    BY <1>0, <2>6, RowIsExpected, RecordsAre
  <2>10. rows' = [i \in DOMAIN scan.rows |-> Stored(scan.rows[i])]
    BY <2>8 DEF Copy
  <2>. QED BY <1>0, <2>1, <2>4, <2>7, <2>9, <2>10
<1>. QED BY <1>0, <1>1, <1>2 DEF CopyInv

LEMMA CopyNext == CopyInv /\ [Next]_vars => CopyInv'
<1>1. ASSUME CopyInv, UNCHANGED vars PROVE CopyInv'
  <2>1. UNCHANGED <<pc, records, built, buf, taken, scan, rows>>
    BY <1>1 DEF vars
  <2>2. /\ CopyTypes' = CopyTypes /\ AllPlain' = AllPlain
        /\ \A start : LinesAt(start)' = LinesAt(start)
        /\ \A start, l, a : ReadAt(start, l, a)' = ReadAt(start, l, a)
    BY <2>1 DEF CopyTypes, AllPlain, LinesAt, ReadAt
  <2>. QED BY <1>1, <2>1, <2>2 DEF CopyInv
<1>. QED BY <1>1, WriteLineInv, StartCopyInv, ReadTextInv, CopyStepInv DEF Next

(* Every batch of plain records becomes rows with their values, whatever   *)
(* else its texts hold and however long they are.                          *)
THEOREM PlainTextArrives == Spec => []PlainBatchesLoad
<1>1. CopyInv => PlainBatchesLoad
  BY DEF CopyInv, AllPlain, PlainBatchesLoad
<1>. QED BY <1>1, CopyInit, CopyNext, PTL DEF Spec
=============================================================================
