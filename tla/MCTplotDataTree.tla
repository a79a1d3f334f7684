--------------------------- MODULE MCTplotDataTree ---------------------------
(***************************************************************************)
(* A small record for TplotDataTree: a float; a variant "d" of null, an   *)
(* object named "dd" (unlike the field) holding a string, and an int; a   *)
(* fixed array of two enums; a variable array of objects holding an int   *)
(* and an optional float; and a last float.  Arrays of each kind, unions   *)
(* before and inside collapsible nodes, a field after a variable-size one, *)
(* and drops that are kept, refused and fatal all occur.  The items are   *)
(* every encoding with array sizes up to MCMaxLen; a scalar cell holds    *)
(* 100 + its position, so a read of the wrong cell shows.                 *)
(***************************************************************************)
EXTENDS TplotDataTree, TLC

El(type, name, children, fields, size) ==
  [type |-> type, name |-> name, children |-> children, fields |-> fields, size |-> size]
Fd(name, element) == [name |-> name, element |-> element]

MCRecordName == "imu"

MCElements ==
  << El("object", "imu", <<>>, <<Fd("a", 2), Fd("d", 10), Fd("c", 7), Fd("b", 3), Fd("e", 16)>>, 0),
     El("float", "a", <<>>, <<>>, 0),
     El("array", "b", <<4>>, <<>>, 0),
     El("object", "b", <<>>, <<Fd("x", 5), Fd("o", 6)>>, 0),
     El("int", "x", <<>>, <<>>, 0),
     El("union", "o", <<11, 12>>, <<>>, 0),
     El("fixedarray", "c", <<8>>, <<>>, 2),
     El("enum", "c", <<9>>, <<>>, 0),
     El("uint", "c", <<>>, <<>>, 0),
     El("union", "d", <<13, 14, 17>>, <<>>, 0),
     El("null", "o", <<>>, <<>>, 0),
     El("float", "o", <<>>, <<>>, 0),
     El("null", "d", <<>>, <<>>, 0),
     El("object", "dd", <<>>, <<Fd("z", 15)>>, 0),
     El("string", "z", <<>>, <<>>, 0),
     El("float", "e", <<>>, <<>>, 0),
     El("int", "d", <<>>, <<>>, 0) >>

MCMaxLen == 2
MCIndexNames == <<"0", "1">>

\* Every encoding of element e of schema S starting at position p.
RECURSIVE Enc(_, _, _), EncFields(_, _, _, _), EncMany(_, _, _, _)
Enc(S, e, p) ==
  LET el == S[e] IN
  CASE el.type \in {"null", "final"} -> {<<>>}
    [] el.type = "object"     -> EncFields(S, el.fields, 1, p)
    [] el.type = "array"      ->
         UNION {{<<n>> \o s : s \in EncMany(S, el.children[1], n, p + 1)} : n \in 0 .. MCMaxLen}
    [] el.type = "fixedarray" -> EncMany(S, el.children[1], el.size, p)
    [] el.type = "union"      ->
         UNION {{<<i>> \o s : s \in Enc(S, el.children[i + 1], p + 1)} : i \in 0 .. Len(el.children) - 1}
    [] OTHER                  -> {<<100 + p>>}
EncFields(S, fs, i, p) ==
  IF i > Len(fs) THEN {<<>>}
  ELSE UNION {{s \o t : t \in EncFields(S, fs, i + 1, p + Len(s))} : s \in Enc(S, fs[i].element, p)}
EncMany(S, e, n, p) ==
  IF n = 0 THEN {<<>>}
  ELSE UNION {{s \o t : t \in EncMany(S, e, n - 1, p + Len(s))} : s \in Enc(S, e, p)}

MCItems == Enc(MCElements, 1, 1)

=============================================================================
