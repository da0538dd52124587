------------------------------- MODULE JsonText -------------------------------
(***************************************************************************)
(* How parson writes the text of a value, and reads a text                 *)
(* (include/parson.c, the same file in both programs).  Escapes and the    *)
(* digits of a number, which parson writes and reads back, are not         *)
(* modelled, nor are the limit of 2048 nested values and running out of    *)
(* memory.  The definitions follow the values down, and give the constants *)
(* of Messages and LocalFiles that stand for the library their values.     *)
(***************************************************************************)
EXTENDS JsonTree

Mark(c) == <<c>>
Literals == {<<"true">>, <<"false">>, <<"null">>}
IsAtom(token) == token \in Literals \/ token[1] \in {"string", "number"}

(* Writing *)

\* The texts of n members or items with commas between them.
Commas(n, TextOf(_)) ==
  LET upTo[i \in 0..n] == CASE i = 0 -> <<>>
                            [] i = 1 -> TextOf(1)
                            [] i > 1 -> Append(upTo[i - 1], Mark(",")) \o TextOf(i)
  IN  upTo[n]

\* The text of a value; an object's names and values in their order.
RECURSIVE Serialize(_)
Serialize(value) ==
  CASE value[1] = "object" ->
         <<Mark("{")>> \o Commas(Len(value[2]), LAMBDA i :
                            <<String(value[2][i][1]), Mark(":")>> \o Serialize(value[2][i][2])) \o <<Mark("}")>>
    [] value[1] = "array" ->
         <<Mark("[")>> \o Commas(Len(value[2]), LAMBDA i : Serialize(value[2][i])) \o <<Mark("]")>>
    [] OTHER -> <<value>>

(* Reading: the empty set where the parser returns NULL, else the set of the one result. *)

At(text, i, token) == i <= Len(text) /\ text[i] = token

RECURSIVE ValueAt(_, _), MembersAt(_, _, _), ItemsAt(_, _, _)

\* The value that begins at place i of the text, with the place after it.
ValueAt(text, i) ==
  CASE At(text, i, Mark("{")) ->
         IF At(text, i + 1, Mark("}")) THEN {[value |-> Object(<<>>), next |-> i + 2]}
         ELSE MembersAt(text, i + 1, <<>>)
    [] At(text, i, Mark("[")) ->
         IF At(text, i + 1, Mark("]")) THEN {[value |-> Array(<<>>), next |-> i + 2]}
         ELSE ItemsAt(text, i + 1, <<>>)
    [] OTHER -> IF i <= Len(text) /\ IsAtom(text[i]) THEN {[value |-> text[i], next |-> i + 1]} ELSE {}

\* What follows a member or an item: a comma and more, or the end.
Continue(text, next, end, value, More(_)) ==
  IF At(text, next, Mark(",")) THEN More(next + 1)
  ELSE IF At(text, next, end) THEN {[value |-> value, next |-> next + 1]} ELSE {}

\* The members from place i on, after those read so far; a name twice is an error.
MembersAt(text, i, members) ==
  IF ~ (i < Len(text) /\ text[i][1] = "string" /\ text[i + 1] = Mark(":")) THEN {}
  ELSE UNION {LET more == Append(members, <<text[i][2], r.value>>)
              IN  IF HasName(members, text[i][2]) THEN {}
                  ELSE Continue(text, r.next, Mark("}"), Object(more), LAMBDA j : MembersAt(text, j, more))
              : r \in ValueAt(text, i + 2)}

ItemsAt(text, i, elements) ==
  UNION {LET more == Append(elements, r.value)
         IN  Continue(text, r.next, Mark("]"), Array(more), LAMBDA j : ItemsAt(text, j, more))
         : r \in ValueAt(text, i)}

\* json_parse_string: the first value of the text, whatever follows it.
Parse_string(text) ==
  LET found == ValueAt(text, 1) IN IF found = {} THEN NoValue ELSE (CHOOSE r \in found : TRUE).value

\* The value of a text that is one value and no more.
Whole_value(text) ==
  LET ended == Len(text) = 1 \/ text[Len(text)] \in {Mark("}"), Mark("]")}
      found == IF ended THEN {r \in ValueAt(text, 1) : r.next > Len(text)} ELSE {}
  IN  IF found = {} THEN NoValue ELSE (CHOOSE r \in found : TRUE).value

(* Memory *)

\* What the parser builds for a value it reads; the value is the first of the new ones.
RECURSIVE Build(_, _)
Build(heap, value) ==
  CASE value[1] = "object" ->
         LET upTo[i \in 0..Len(value[2])] ==
               IF i = 0 THEN Init_object(heap)
               ELSE Object_add(Build(upTo[i - 1], value[2][i][2]), Len(heap) + 1, value[2][i][1], Len(upTo[i - 1]) + 1)
         IN  upTo[Len(value[2])]
    [] value[1] = "array" ->
         LET upTo[i \in 0..Len(value[2])] ==
               IF i = 0 THEN Init_array(heap)
               ELSE Append_value(Build(upTo[i - 1], value[2][i]), Len(heap) + 1, Len(upTo[i - 1]) + 1)
         IN  upTo[Len(value[2])]
    [] OTHER -> Init_atom(heap, value)
=============================================================================
