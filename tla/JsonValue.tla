------------------------------- MODULE JsonValue -------------------------------
(***************************************************************************)
(* JSON values as the programs see them, and how they look at them         *)
(* (include/parson.c, the same file in both programs).                     *)
(*                                                                         *)
(* A text is a sequence of tokens, and white space is left out.  Strings,  *)
(* numbers and literals are one token each.  A value is the token of its   *)
(* text, or <<"object", members>> with members a sequence of <<name,       *)
(* value>>, or <<"array", items>>.                                         *)
(***************************************************************************)
EXTENDS Integers, Sequences

String(s) == <<"string", s>>
Number(n) == <<"number", n>>
Object(members) == <<"object", members>>
Array(elements) == <<"array", elements>>
\* The null pointer where a value is expected.
NoValue == <<>>

HasName(members, name) == \E i \in DOMAIN members : members[i][1] = name

\* json_object_get_value(json_value_get_object(value), name): NULL unless value is an object with the name.
Member(value, name) ==
  IF value # NoValue /\ value[1] = "object" /\ HasName(value[2], name)
  THEN value[2][CHOOSE i \in DOMAIN value[2] : value[2][i][1] = name][2]
  ELSE NoValue

\* json_object_get_string: NULL unless the member is a string.
NoString == "(null)"
StringOf(value, name) ==
  LET member == Member(value, name) IN IF member # NoValue /\ member[1] = "string" THEN member[2] ELSE NoString
=============================================================================
