-------------------------- MODULE MCHecubaSession --------------------------
(* Small programs for HecubaSession. *)
EXTENDS HecubaSession

CONSTANTS o1, o2, o3, prog1, prog2, name1, name2

\* One table for all arrays, or one for each, lazily written, in a keyspace yet to be made.
Settings == {[single_table |-> t, lazy |-> ~t, create_schema |-> t] : t \in BOOLEAN}
NamesSymmetry == Permutations({name1, name2})
OwnerOf == (o1 :> prog1) @@ (o2 :> prog1) @@ (o3 :> prog2)
KindOf == [D |-> "dict", E |-> "dict", S |-> "obj", A |-> "numpy"]
\* E has another type in the column it shares with D, and one column more.
ColumnsOf ==
  [D |-> [keys |-> {"keyname0"}, types |-> [keyname0 |-> "int", valuename0 |-> "int"]],
   E |-> [keys  |-> {"keyname0"},
          types |-> [keyname0 |-> "int", valuename0 |-> "text", valuename1 |-> "text"]],
   S |-> [keys |-> {"storage_id"}, types |-> [storage_id |-> "uuid", attr |-> "int"]],
   A |-> ArrayColumns]
\* Dictionaries of two classes with one name; an object and two arrays.
TwoPrograms ==
  {(o1 :> "D") @@ (o2 :> "D") @@ (o3 :> "E"), (o1 :> "S") @@ (o2 :> "A") @@ (o3 :> "A")}
=============================================================================
