------------------------------ MODULE MCCopyText ------------------------------
(***************************************************************************)
(* Instances of CopyText for TLC: every text of at most two characters     *)
(* with every JSON value of at most one, and batches of two records.       *)
(***************************************************************************)
EXTENDS CopyText

Texts(n)  == UNION {[1..k -> Char] : k \in 0..n}
Rec(t, j) == [text |-> t, json |-> j]

OneRecord == {<<Rec(t, j)>> : t \in Texts(2) \cup {Null}, j \in Texts(1) \cup {Null}}
TwoRecords == {<<Rec(t, j), Rec(u, <<"a">>)>> :
                 t \in Texts(1), j \in Texts(1), u \in Texts(1) \cup {Null, <<Backslash, "N">>}}
AllBatches  == OneRecord \cup TwoRecords
JsonBatches == {<<Rec(<<"a">>, j)>> : j \in Texts(2)}
=============================================================================
