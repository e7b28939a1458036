------------------------------ MODULE Document ------------------------------
(***************************************************************************)
(* The JSON bodies that internal/apiformat, internal/inject and            *)
(* internal/proxy walk.  An object is a record with the members that are   *)
(* present.  A member that is only compared (role, type, name, an id) holds*)
(* a string, a usage counter holds a number, a nested object is a record;  *)
(* a member whose shape the code switches on holds one of the values below.*)
(* The elements of an array are objects: an element that is none has no    *)
(* member the code reads, and every walker passes over both alike.         *)
(*                                                                         *)
(* A text is a sequence of tokens: words, the tags of the blocks msc       *)
(* injects, secrets, blanks, and the names of tools.                       *)
(***************************************************************************)
EXTENDS Integers, Sequences, SequencesExt

Text(t)  == [str |-> t]
Array(s) == [arr |-> s]
Null     == [null |-> TRUE]
Number   == [num |-> 0]
Nothing  == [k \in {} |-> k]

Has(o, k)    == k \in DOMAIN o
IsObject(v)  == DOMAIN v \cap {"str", "arr", "null", "num"} = {}
Absent(o, k) == ~Has(o, k) \/ o[k] = Null

\* o[k] as an object, a string and an array, empty when it is none: GetMap,
\* GetString and GetArray.
Member(o, k)   == IF Has(o, k) THEN o[k] ELSE Nothing
Label(o, k)    == IF Has(o, k) THEN o[k] ELSE ""
IsText(o, k)   == Has(Member(o, k), "str")
IsArray(o, k)  == Has(Member(o, k), "arr")
TextAt(o, k)   == IF IsText(o, k) THEN o[k].str ELSE <<>>
Elements(o, k) == IF IsArray(o, k) THEN o[k].arr ELSE <<>>

Put(o, k, v) == [j \in DOMAIN o \cup {k} |-> IF j = k THEN v ELSE o[j]]
Delete(o, k) == [j \in DOMAIN o \ {k} |-> o[j]]

\* What F makes of each element, in order and joined.
Joined(F(_), s) == FlattenSeq([i \in DOMAIN s |-> F(s[i])])

\* strings.TrimSpace.
Blanks == {" ", "\n"}
Trim(t) ==
    LET solid == {i \in DOMAIN t : t[i] \notin Blanks}
    IN IF solid = {} THEN <<>> ELSE SubSeq(t, Min(solid), Max(solid))
=============================================================================
