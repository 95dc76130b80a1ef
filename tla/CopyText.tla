------------------------------- MODULE CopyText -------------------------------
(***************************************************************************)
(* The COPY text of dags/generic_postgres_writer.py: _build_tsv turns the  *)
(* records of a file into lines, PostgreSQL turns the lines into rows.     *)
(* The conversions are the subject, so texts are sequences of characters:  *)
(* the special ones, the letters an escape uses, and any others that need  *)
(* no escape.  Other meanings of a backslash than these are left out.      *)
(*                                                                         *)
(* A record has a text column and a JSON column.  The JSON value is a      *)
(* string, as extra_metrics holds one per metric; braces, keys and numbers *)
(* need no escapes and are left out.                                       *)
(***************************************************************************)
EXTENDS Naturals, Sequences

CONSTANTS Tab, Newline, Return, Space, Quote, Backslash,  \* special characters
          Letter,                                         \* all other characters
          Null,                                           \* None, NULL
          Batches                                         \* the records of a file

Letters == Letter \cup {"n", "t", "r", "N"}
Char    == {Tab, Newline, Return, Space, Quote, Backslash} \cup Letters
Control == {Tab, Newline, Return}

(* The special characters are different ones, and no letters.              *)
ASSUME CharAssumption ==
  /\ Tab # Newline /\ {Tab, Newline} \cap {Return, Space, Quote, Backslash} = {}
  /\ Return \notin {Space, Quote, Backslash} /\ Space \notin {Quote, Backslash} /\ Quote # Backslash
  /\ {Tab, Newline, Return, Space, Quote, Backslash} \cap Letters = {}
ASSUME BatchesAssumption ==
  \A records \in Batches : records \in Seq([text : {Null} \cup Seq(Char), json : {Null} \cup Seq(Char)])
                           /\ Len(records) > 0

VARIABLES
  pc,       \* "build", "copy", "loaded", "rejected"
  records,  \* data of the file
  built,    \* records written to the buffer
  buf,      \* the buffer: for every character of a value the text it becomes
  taken,    \* how much of it COPY has read
  scan,     \* what COPY has made of that
  rows      \* the rows of the table
vars == <<pc, records, built, buf, taken, scan, rows>>

(* A slip in a single spot of the code, not part of the specification:     *)
(* only the tabs are replaced.                                             *)
TabsOnly(c) == IF c = Tab THEN Space ELSE c

-----------------------------------------------------------------------------
(* _build_tsv.  What json.dumps returns has no tab or newline to replace.  *)

Blanked(c) == IF c \in Control THEN Space ELSE c
NullMark   == <<Backslash, "N">>

(* External: json.dumps of a character, between the quotes of the string.  *)
Escaped(c) == CASE c \in {Quote, Backslash} -> <<Backslash, c>>
                [] c = Newline -> <<Backslash, "n">> [] c = Tab -> <<Backslash, "t">>
                [] c = Return -> <<Backslash, "r">> [] OTHER -> <<c>>
JsonDumps(s) == [i \in 1..Len(s) + 2 |->
                   IF i \in {1, Len(s) + 2} THEN <<Quote>> ELSE Escaped(s[i - 1])]

TextField(v) == IF v = Null THEN <<NullMark>> ELSE [i \in 1..Len(v) |-> <<Blanked(v[i])>>]
JsonField(v) == IF v = Null THEN <<NullMark>> ELSE JsonDumps(v)
Line(r)      == TextField(r.text) \o <<<<Tab>>>> \o JsonField(r.json) \o <<<<Newline>>>>

-----------------------------------------------------------------------------
(* External: PostgreSQL.  A backslash takes away the meaning of a tab or   *)
(* newline after it, n, t and r after it are control characters, any other *)
(* character stands for itself; \N alone is NULL.                          *)
Unescaped(c) == CASE c = "n" -> Newline [] c = "t" -> Tab [] c = "r" -> Return [] OTHER -> c

(* What a JSONB column takes: a quoted string without control characters,  *)
(* quotes and lone backslashes, and the value it stands for.               *)
JsonBegin == [at |-> "begin", value |-> <<>>]
JsonScan(j, c) ==
  CASE j.at = "begin" /\ c = Quote -> [j EXCEPT !.at = "in"]
    [] j.at = "in" /\ c = Quote -> [j EXCEPT !.at = "end"]
    [] j.at = "in" /\ c = Backslash -> [j EXCEPT !.at = "escape"]
    [] j.at = "in" /\ c \notin Control \cup {Quote, Backslash} -> [j EXCEPT !.value = Append(@, c)]
    [] j.at = "escape" /\ c \in {Quote, Backslash, "n", "t", "r"} ->
         [at |-> "in", value |-> Append(j.value, Unescaped(c))]
    [] OTHER -> [j EXCEPT !.at = "bad"]

(* A field is read as text and as JSON: which one counts is the column's.  *)
Blank    == [null |-> FALSE, text |-> <<>>, raw |-> <<>>, json |-> JsonBegin]
Field(f) == [f EXCEPT !.null = f.raw = NullMark]
Means(f, raw, c) == [f EXCEPT !.raw = Append(@, raw), !.text = Append(@, c), !.json = JsonScan(@, c)]

Start == [rows |-> <<>>, row |-> <<>>, field |-> Blank, escaped |-> FALSE]
Scan(p, c) ==
  IF p.escaped THEN [p EXCEPT !.escaped = FALSE, !.field = Means(@, c, Unescaped(c))]
  ELSE IF c = Backslash THEN [p EXCEPT !.escaped = TRUE, !.field.raw = Append(@, c)]
  ELSE IF c = Tab THEN [p EXCEPT !.row = Append(@, Field(p.field)), !.field = Blank]
  ELSE IF c = Newline THEN [p EXCEPT !.rows = Append(@, Append(p.row, Field(p.field))),
                                     !.row = <<>>, !.field = Blank]
  ELSE [p EXCEPT !.field = Means(@, c, c)]
ScanBoth(p, text) == IF Len(text) = 1 THEN Scan(p, text[1]) ELSE Scan(Scan(p, text[1]), text[2])

(* Every line has the two columns and the second one is JSON.              *)
Acceptable(p) == /\ p.row = <<>> /\ p.field = Blank /\ ~p.escaped
                 /\ \A i \in DOMAIN p.rows : /\ Len(p.rows[i]) = 2
                                             /\ p.rows[i][2].null \/ p.rows[i][2].json.at = "end"
Stored(row) == [text |-> IF row[1].null THEN Null ELSE row[1].text,
                json |-> IF row[2].null THEN Null ELSE row[2].json.value]

-----------------------------------------------------------------------------
Init == /\ pc = "build" /\ records \in Batches /\ built = 0 /\ buf = <<>>
        /\ taken = 0 /\ scan = Start /\ rows = <<>>

WriteLine ==
  /\ pc = "build" /\ built < Len(records)
  /\ built' = built + 1 /\ buf' = buf \o Line(records[built + 1])
  /\ UNCHANGED <<pc, records, taken, scan, rows>>

(* buf.seek(0), copy_from.                                                 *)
StartCopy == /\ pc = "build" /\ built = Len(records)
             /\ pc' = "copy" /\ UNCHANGED <<records, built, buf, taken, scan, rows>>

ReadText ==
  /\ pc = "copy" /\ taken < Len(buf)
  /\ taken' = taken + 1 /\ scan' = ScanBoth(scan, buf[taken + 1])
  /\ UNCHANGED <<pc, records, built, buf, rows>>

(* All lines or none become rows.                                          *)
Copy ==
  /\ pc = "copy" /\ taken = Len(buf)
  /\ IF Acceptable(scan)
       THEN pc' = "loaded" /\ rows' = [i \in DOMAIN scan.rows |-> Stored(scan.rows[i])]
       ELSE pc' = "rejected" /\ UNCHANGED rows
  /\ UNCHANGED <<records, built, buf, taken, scan>>

Next == WriteLine \/ StartCopy \/ ReadText \/ Copy

Spec == Init /\ [][Next]_vars

-----------------------------------------------------------------------------
(* Properties.                                                             *)

Special(s, set) == s # Null /\ \E i \in DOMAIN s : s[i] \in set
Plain(r) == ~Special(r.text, {Backslash}) /\ ~Special(r.json, Control \cup {Quote, Backslash})

(* What a record should become: its control characters blanked in the text *)
(* column, the very same value in the JSON column, None as NULL.           *)
Expected(r) ==
  [text |-> IF r.text = Null THEN Null
            ELSE [i \in DOMAIN r.text |-> IF r.text[i] \in Control THEN Space ELSE r.text[i]],
   json |-> r.json]

(* As long as no text has a backslash and no JSON text needs an escape,    *)
(* COPY stores each record as one row with its values: tabs, newlines,     *)
(* None and the letters of \N in the values never shift a column or a row. *)
PlainBatchesLoad ==
  pc \in {"loaded", "rejected"} /\ (\A i \in DOMAIN records : Plain(records[i])) =>
    rows = [i \in DOMAIN records |-> Expected(records[i])]

(* test_staging_output.py says that unknown metrics are preserved in the   *)
(* JSONB column, never dropped: what the load makes of a file has the JSON *)
(* values of its records.                                                  *)
JsonPreserved ==
  pc \in {"loaded", "rejected"} =>
    [i \in DOMAIN rows |-> rows[i].json] = [i \in DOMAIN records |-> records[i].json]
=============================================================================
