------------------------------- MODULE JsonTree -------------------------------
(***************************************************************************)
(* JSON values in memory, as parson builds and frees them                  *)
(* (p2p-client/include/parson.c).  A heap is the sequence of all values    *)
(* allocated; a value is known by its place in it, and 0 is NULL.  Running *)
(* out of memory is not modelled, and an array of names or items with its  *)
(* capacity is a sequence.                                                 *)
(***************************************************************************)
EXTENDS JsonValue, SequencesExt

Null == 0
\* parent is the value that owns this one; frees counts how often it was freed.
NewCell(kind) == [kind |-> kind, names |-> <<>>, kids |-> <<>>, parent |-> Null, frees |-> 0]

\* json_value_init_...: the new value is the last of the heap.
Init_object(heap) == Append(heap, NewCell(<<"object">>))
Init_array(heap)  == Append(heap, NewCell(<<"array">>))
Init_atom(heap, atom) == Append(heap, NewCell(atom))

\* json_object_getn_value: the member of that name, or NULL.
Get_value(heap, object, name) ==
  LET i == SelectInSeq(heap[object].names, LAMBDA other : other = name)
  IN  IF i = 0 THEN Null ELSE heap[object].kids[i]

\* Every value below, and the value itself.
Tree(heap, id) ==
  LET below[i \in DOMAIN heap] == {i} \cup UNION {below[kid] : kid \in ToSet(heap[i].kids)} IN below[id]

\* json_value_free: with all it owns.
Value_free(heap, id) ==
  LET freed[i \in DOMAIN heap] ==
        <<i>> \o FlattenSeq([j \in DOMAIN heap[i].kids |-> freed[heap[i].kids[j]]])
  IN  FoldLeft(LAMBDA h, v : [h EXCEPT ![v].frees = @ + 1], heap, freed[id])

\* json_object_addn: fails when the name is there.
Object_add(heap, object, name, id) ==
  IF Get_value(heap, object, name) # Null THEN heap
  ELSE [heap EXCEPT ![id].parent = object,
                    ![object].names = Append(@, name), ![object].kids = Append(@, id)]

\* json_object_set_value: fails when the value has an owner; an old value is freed and replaced.
Set_value(heap, object, name, id) ==
  LET old == Get_value(heap, object, name)
  IN  IF heap[id].parent # Null THEN heap
      ELSE IF old = Null THEN Object_add(heap, object, name, id)
      ELSE [Value_free(heap, old) EXCEPT ![id].parent = object,
              ![object].kids[SelectInSeq(heap[object].kids, LAMBDA kid : kid = old)] = id]

\* json_object_set_string and json_object_set_number, and json_object_dotset_value of a new array
\* under a name without a dot.
Set_atom(heap, object, name, atom) == Set_value(Init_atom(heap, atom), object, name, Len(heap) + 1)
Set_array(heap, object, name) == Set_value(Init_array(heap), object, name, Len(heap) + 1)

\* json_object_remove: frees the member and puts the last one in its place.
Object_remove(heap, object, name) ==
  LET i == SelectInSeq(heap[object].names, LAMBDA other : other = name)
      Without(seq) == Front(ReplaceAt(seq, i, Last(seq)))
  IN  IF i = 0 THEN heap
      ELSE [Value_free(heap, heap[object].kids[i]) EXCEPT ![object].names = Without(@),
                                                          ![object].kids = Without(@)]

\* json_array_append_value: fails when the value has an owner.
Append_value(heap, array, id) ==
  IF heap[id].parent # Null THEN heap
  ELSE [heap EXCEPT ![id].parent = array, ![array].kids = Append(@, id)]

\* The value that the serializer finds at a place of the heap.
ValueOf(heap, id) ==
  LET value[i \in DOMAIN heap] ==
        CASE heap[i].kind = <<"object">> ->
               Object([k \in DOMAIN heap[i].kids |-> <<heap[i].names[k], value[heap[i].kids[k]]>>])
          [] heap[i].kind = <<"array">> -> Array([k \in DOMAIN heap[i].kids |-> value[heap[i].kids[k]]])
          [] OTHER -> heap[i].kind
  IN  value[id]
=============================================================================
