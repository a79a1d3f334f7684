---------------------------- MODULE TplotDataTree ----------------------------
(***************************************************************************)
(* tplot2's "Data" window and the path from it to the plot               *)
(* (src/utils/tplot2.cc).  TreeView::Render walks one record's item along  *)
(* its schema (VisitElement): every element reads its cells from the item  *)
(* stream, collapsed sub-trees are skipped with Element::Ignore, a union   *)
(* reads its index and forwards to the chosen child, and a leaf offers a  *)
(* drag token built from the chain of Parent frames (RenderToken).  A     *)
(* token dropped on the plot goes to PlotView::AddPlot("", token), whose  *)
(* PlotRetrieve splits off the record name and whose ValueRetrieve turns  *)
(* the rest into a chain of links, then reads every item along it.        *)
(*                                                                         *)
(* An item is a sequence of cells: a scalar or an enum takes one cell, a  *)
(* variable array starts with its size, a union with its index, an object *)
(* is its fields in order, null and final take none.  The formatting of   *)
(* the shown value and the float conversion of the plotted one are left   *)
(* out: both sides are compared on the cell they read.  A token is the    *)
(* sequence of its "."-separated parts; schema names hold no ".", so      *)
(* joining and the Tokenizer's splitting are inverse.                      *)
(***************************************************************************)
EXTENDS Integers, Sequences, FiniteSets

CONSTANTS
  Elements,    \* the schema: id -> [type, name, children, fields, size]
  Root,        \* the schema's root element
  RecordName,  \* FileReader::Record::name
  Items,       \* the encodings of the record's items in the log
  IndexNames,  \* fmt::format("{}", i) of the array indices that occur
  MaxDrops,    \* bound: tokens dropped on the plot
  None         \* a model value: no cell read

ElementTypes == {"final", "null", "bool", "int", "uint", "float", "bytes",
                 "string", "timestamp", "duration", "enum", "object",
                 "array", "fixedarray", "union"}

ASSUME SchemaAssumption ==
  /\ Root \in DOMAIN Elements
  /\ \A e \in DOMAIN Elements : Elements[e].type \in ElementTypes
  /\ Elements[Root].name = RecordName
  /\ Items \subseteq Seq(Int)
  /\ MaxDrops \in Nat

\* The element types that read one cell for their value.
ScalarTypes == {"bool", "int", "uint", "float", "bytes", "string",
                "timestamp", "duration"}
\* The element types ValueRetrieve stops at ("We're done").
TerminalTypes == ScalarTypes \cup {"final", "null", "enum"}
\* The leaves whose plotted value is the cell they hold.
NumericTypes == (ScalarTypes \ {"bytes", "string"}) \cup {"enum"}

VARIABLES
  item,      \* data_[record]: the item the tree shows, <<>> for ""
  expanded,  \* the ImGui tree nodes the user has opened
  plotted,   \* the tokens of the plots AddPlot kept
  crashed    \* tplot2 died in an assertion or an uncaught exception

vars == <<item, expanded, plotted, crashed>>

Last(s) == s[Len(s)]
Front(s) == SubSeq(s, 1, Len(s) - 1)
IndexOf(name) == CHOOSE i \in DOMAIN IndexNames : IndexNames[i] = name

-----------------------------------------------------------------------------
(* Element::Ignore, as VisitElement and ValueRetrieve call it: the       *)
(* position after element e's cells starting at p.  SkipFields skips     *)
(* fields i .. j - 1 of fs, SkipMany n copies of e.                       *)
RECURSIVE Skip(_, _), SkipFields(_, _, _, _), SkipMany(_, _, _)

Skip(e, p) ==
  LET el == Elements[e] IN
  CASE el.type \in ScalarTypes \cup {"enum"} -> p + 1
    [] el.type \in {"final", "null"}          -> p
    [] el.type = "object"     -> SkipFields(el.fields, 1, Len(el.fields) + 1, p)
    [] el.type = "array"      -> SkipMany(el.children[1], item[p], p + 1)
    [] el.type = "fixedarray" -> SkipMany(el.children[1], el.size, p)
    [] el.type = "union"      -> Skip(el.children[item[p] + 1], p + 1)

SkipFields(fs, i, j, p) ==
  IF i >= j THEN p ELSE SkipFields(fs, i + 1, j, Skip(fs[i].element, p))

SkipMany(e, n, p) == IF n = 0 THEN p ELSE SkipMany(e, n - 1, Skip(e, p))

(* Element::maybe_fixed_size, in cells; -1 when the size varies. *)
RECURSIVE FixedSize(_), FixedFields(_, _)
FixedSize(e) ==
  LET el == Elements[e] IN
  CASE el.type \in ScalarTypes \cup {"enum"} -> 1
    [] el.type \in {"final", "null"}          -> 0
    [] el.type = "object"     -> FixedFields(el.fields, 1)
    [] el.type = "fixedarray" -> IF FixedSize(el.children[1]) < 0 THEN -1
                                 ELSE el.size * FixedSize(el.children[1])
    [] OTHER                  -> -1
FixedFields(fs, i) ==
  IF i > Len(fs) THEN 0
  ELSE LET a == FixedSize(fs[i].element)
           b == FixedFields(fs, i + 1)
       IN IF a < 0 \/ b < 0 THEN -1 ELSE a + b

-----------------------------------------------------------------------------
(* TreeView::Parent::RenderToken(child): the parent chain is a sequence  *)
(* of frames [element, index], the outermost first; <<>> is the Parent   *)
(* Render starts with (no parent, no element, array_index -1).           *)
RECURSIVE RenderToken(_, _)

\* Mutant: the root frame renders nothing, so tokens lose the record name.
RenderToken_NoRecord(P, child) ==
  IF P = <<>> THEN <<>>
  ELSE RenderToken(Front(P), Last(P).element) \o
         <<IF Last(P).index >= 0 THEN IndexNames[Last(P).index + 1]
                                 ELSE Elements[child].name>>

\* Mutant: array frames render the element's name instead of the index.
RenderToken_NameOnly(P, child) ==
  IF P = <<>> THEN <<Elements[child].name>>
  ELSE RenderToken(Front(P), Last(P).element) \o <<Elements[child].name>>

RenderToken(P, child) ==
  IF P = <<>> THEN <<Elements[child].name>>
  ELSE RenderToken(Front(P), Last(P).element) \o
         <<IF Last(P).index >= 0 THEN IndexNames[Last(P).index + 1]
                                 ELSE Elements[child].name>>

(* The position after a collapsed node whose own cell is read: objects *)
(* and arrays are skipped "to keep our stream consistent".            *)
\* Mutant: the kArray label is missing, so a collapsed variable array
\* leaves its cells in the stream.
Skipped_NoArray(e, q) ==
  IF Elements[e].type \in {"object", "fixedarray"} THEN Skip(e, q) ELSE q

Skipped(e, q) ==
  IF Elements[e].type \in {"object", "array", "fixedarray"} THEN Skip(e, q) ELSE q

(* TreeView::VisitElement(e) at stream position p with parent chain P.   *)
(* path is the node's place in the tree (field names and indices), which  *)
(* with e is the ImGui id of its node.  Returns the position after e and  *)
(* the rows shown: [key, leaf, token, type, cell].                        *)
RECURSIVE Visit(_, _, _, _), VisitFields(_, _, _, _, _), VisitArray(_, _, _, _, _, _)
Visit(e, p, P, path) ==
  LET el == Elements[e] IN
  IF el.type = "union"
  THEN Visit(el.children[item[p] + 1], p + 1, P, path)
  ELSE
    LET children == (el.children # <<>> \/ el.fields # <<>>) /\ el.type # "enum"
        key == [path |-> path, element |-> e]
        open == ~children \/ key \in expanded
        reads == el.type \in ScalarTypes \cup {"enum"}
        q == IF reads THEN p + 1 ELSE p
        row == [key |-> key, leaf |-> ~children, token |-> RenderToken(P, e),
                type |-> el.type, cell |-> IF reads THEN item[p] ELSE None]
        sub ==
          CASE ~open -> [pos |-> Skipped(e, q), rows |-> <<>>]
            [] open /\ el.type = "object"     -> VisitFields(e, 1, q, P, path)
            [] open /\ el.type = "array"      -> VisitArray(e, 0, item[q], q + 1, P, path)
            [] open /\ el.type = "fixedarray" -> VisitArray(e, 0, el.size, q, P, path)
            [] OTHER                          -> [pos |-> q, rows |-> <<>>]
    IN [pos |-> sub.pos, rows |-> <<row>> \o sub.rows]
\* The fields of an expanded object, each with the parent frame of e.
VisitFields(e, i, p, P, path) ==
  LET fs == Elements[e].fields IN
  IF i > Len(fs) THEN [pos |-> p, rows |-> <<>>]
  ELSE LET r1 == Visit(fs[i].element, p, Append(P, [element |-> e, index |-> -1]),
                       Append(path, fs[i].name))
           r2 == VisitFields(e, i + 1, r1.pos, P, path)
       IN [pos |-> r2.pos, rows |-> r1.rows \o r2.rows]
\* do_array(n): elements i .. n - 1, each with the frame [e, i].
VisitArray(e, i, n, p, P, path) ==
  IF i >= n THEN [pos |-> p, rows |-> <<>>]
  ELSE LET r1 == Visit(Elements[e].children[1], p, Append(P, [element |-> e, index |-> i]),
                       Append(path, IndexNames[i + 1]))
           r2 == VisitArray(e, i + 1, n, r1.pos, P, path)
       IN [pos |-> r2.pos, rows |-> r1.rows \o r2.rows]

(* TreeView::Render for the record: an empty data string is a bare leaf  *)
(* with nothing to drag; otherwise the walk from the schema's root.       *)
Rows == IF item = <<>> THEN <<>> ELSE Visit(Root, 1, <<>>, <<>>).rows
RowSet == {Rows[i] : i \in DOMAIN Rows}

-----------------------------------------------------------------------------
NextTok(t) == IF t = <<>> THEN "" ELSE Head(t)
RestTok(t) == IF t = <<>> THEN <<>> ELSE Tail(t)

(* The ValueRetrieve constructor's loop from element e with the token   *)
(* parts t still to read: [valid, abort, chain].  An object takes the    *)
(* first field named like the next part, an array parses it with         *)
(* std::stoull (which throws on anything but digits), an optional union *)
(* forwards to its second child without taking a part, and any other    *)
(* union fails its MJ_ASSERT.                                            *)
RECURSIVE Resolve(_, _, _)
Resolve(e, t, chain) ==
  LET el == Elements[e]
      fail(abort) == [valid |-> FALSE, abort |-> abort, chain |-> chain]
      named == {i \in DOMAIN el.fields : el.fields[i].name = NextTok(t)}
  IN CASE el.type \in TerminalTypes ->
            [valid |-> TRUE, abort |-> FALSE, chain |-> Append(chain, [link |-> "leaf"])]
       [] el.type = "object" ->
            IF named = {} THEN fail(FALSE)
            ELSE LET f == el.fields[CHOOSE i \in named : \A j \in named : i <= j]
                 IN Resolve(f.element, RestTok(t),
                            Append(chain, [link |-> "element", element |-> f.element]))
       [] el.type \in {"array", "fixedarray"} ->
            IF NextTok(t) \in {IndexNames[i] : i \in DOMAIN IndexNames}
            THEN Resolve(el.children[1], RestTok(t),
                         Append(chain, [link |-> "index", index |-> IndexOf(NextTok(t)) - 1]))
            ELSE fail(TRUE)
       [] el.type = "union" ->
            IF Len(el.children) = 2 /\ Elements[el.children[1]].type = "null"
            THEN Resolve(el.children[2], t, chain)
            ELSE fail(TRUE)

(* PlotRetrieve(reader, log_start, "", token), as AddPlot builds it for a *)
(* dropped token: x is the timestamp; the record is the token's first     *)
(* part and y is ValueRetrieve of what remains ("" again the timestamp).  *)
Getter(token) ==
  IF Tail(token) = <<>>
  THEN [valid |-> TRUE, abort |-> FALSE, timestamp |-> TRUE, chain |-> <<>>]
  ELSE LET r == Resolve(Root, Tail(token), <<>>)
       IN [valid |-> r.valid, abort |-> r.abort, timestamp |-> FALSE, chain |-> r.chain]

(* ValueRetrieve::operator() on the shown item: follow the chain from     *)
(* element e at position p.  An object ignores the fields before the one  *)
(* linked; an array index past the size gives 0, a null NaN, a string 0.  *)
(* The position of element i of an array of c whose elements start at q: *)
(* one stream.ignore when c has a fixed size, else i Ignores.           *)
\* Mutant: the elements before index i are not skipped.
ElementAt_NoSkip(c, i, q) == q

ElementAt(c, i, q) ==
  IF FixedSize(c) >= 0 THEN q + i * FixedSize(c) ELSE SkipMany(c, i, q)

RECURSIVE Read(_, _, _)
Read(e, ch, p) ==
  LET el == Elements[e] IN
  CASE el.type \in {"final", "null"}    -> [kind |-> "nan"]
    [] el.type \in NumericTypes         -> [kind |-> "cell", value |-> item[p]]
    [] el.type \in {"bytes", "string"}  -> [kind |-> "zero"]
    [] el.type = "union" -> Read(el.children[item[p] + 1], ch, p + 1)
    [] el.type = "object" ->
         LET k == CHOOSE i \in DOMAIN el.fields : el.fields[i].element = Head(ch).element
         IN Read(Head(ch).element, Tail(ch), SkipFields(el.fields, 1, k, p))
    [] el.type \in {"array", "fixedarray"} ->
         LET size == IF el.type = "array" THEN item[p] ELSE el.size
             q == IF el.type = "array" THEN p + 1 ELSE p
             i == Head(ch).index
             c == el.children[1]
         IN IF i >= size THEN [kind |-> "zero"]
            ELSE Read(c, Tail(ch), ElementAt(c, i, q))

PlotValue(token) ==
  IF Getter(token).timestamp THEN [kind |-> "time"]
  ELSE Read(Root, Getter(token).chain, 1)

-----------------------------------------------------------------------------
(* A click on the arrow of a shown node with children opens or closes it. *)
Toggle ==
  /\ ~crashed
  /\ \E r \in RowSet :
       /\ ~r.leaf
       /\ expanded' = IF r.key \in expanded THEN expanded \ {r.key}
                                            ELSE expanded \cup {r.key}
  /\ UNCHANGED <<item, plotted, crashed>>

(* TreeView::Update moves data_[record] to another item of the log. *)
NewItem ==
  /\ ~crashed
  /\ \E i \in Items : item' = i
  /\ UNCHANGED <<expanded, plotted, crashed>>

(* A leaf's drag token dropped on the plot: PlotView::Update accepts the *)
(* DND_TLOG payload and calls AddPlot("", token), which keeps the plot   *)
(* when the getter is valid (the log holds the record's items).          *)
Drop ==
  /\ ~crashed
  /\ Cardinality(plotted) < MaxDrops
  /\ \E r \in RowSet :
       /\ r.leaf
       /\ LET g == Getter(r.token) IN
            \/ g.abort /\ crashed' = TRUE /\ UNCHANGED plotted
            \/ ~g.abort /\ ~g.valid /\ UNCHANGED <<plotted, crashed>>
            \/ g.valid /\ plotted' = plotted \cup {r.token} /\ UNCHANGED crashed
  /\ UNCHANGED <<item, expanded>>

Init ==
  /\ item = <<>>
  /\ expanded = {}
  /\ plotted = {}
  /\ crashed = FALSE

Next == Toggle \/ NewItem \/ Drop

Spec == Init /\ [][Next]_vars

-----------------------------------------------------------------------------
(* A reference decoder: every leaf's path and the cell it holds, read    *)
(* straight through the item without skipping.                           *)
RECURSIVE Decode(_, _, _), DecodeFields(_, _, _, _), DecodeMany(_, _, _, _, _)
Decode(e, p, path) ==
  LET el == Elements[e] IN
  CASE el.type \in ScalarTypes \cup {"enum"} -> [pos |-> p + 1, vals |-> {<<path, item[p]>>}]
    [] el.type \in {"final", "null"} -> [pos |-> p, vals |-> {}]
    [] el.type = "object"     -> DecodeFields(el.fields, 1, p, path)
    [] el.type = "array"      -> DecodeMany(el.children[1], 0, item[p], p + 1, path)
    [] el.type = "fixedarray" -> DecodeMany(el.children[1], 0, el.size, p, path)
    [] el.type = "union"      -> Decode(el.children[item[p] + 1], p + 1, path)
DecodeFields(fs, i, p, path) ==
  IF i > Len(fs) THEN [pos |-> p, vals |-> {}]
  ELSE LET r1 == Decode(fs[i].element, p, Append(path, fs[i].name))
           r2 == DecodeFields(fs, i + 1, r1.pos, path)
       IN [pos |-> r2.pos, vals |-> r1.vals \cup r2.vals]
DecodeMany(e, i, n, p, path) ==
  IF i >= n THEN [pos |-> p, vals |-> {}]
  ELSE LET r1 == Decode(e, p, Append(path, IndexNames[i + 1]))
           r2 == DecodeMany(e, i + 1, n, r1.pos, path)
       IN [pos |-> r2.pos, vals |-> r1.vals \cup r2.vals]

ItemValues == IF item = <<>> THEN {} ELSE Decode(Root, 1, <<>>).vals

TypeOK ==
  /\ item \in Items \cup {<<>>}
  /\ expanded \subseteq [path : Seq(STRING), element : DOMAIN Elements]
  /\ plotted \subseteq {t \in Seq(STRING) : t # <<>> /\ t[1] = RecordName}
  /\ crashed \in BOOLEAN

(* Every value the Data window shows is the one the item holds at that   *)
(* node, however the nodes before it are opened or closed: collapsed     *)
(* objects and arrays are skipped with Ignore, unions read their index,  *)
(* and the stream stays aligned with the schema.                          *)
TreeShowsValues ==
  \A r \in RowSet : r.cell # None => <<r.key.path, r.cell>> \in ItemValues

(* Whether the tree path from element e to a node passes through a union *)
(* that is not an optional (a std::variant of more than one type): the    *)
(* walk follows the path's field names and indices down the schema.      *)
RECURSIVE CrossesVariant(_, _)
CrossesVariant(e, path) ==
  LET el == Elements[e] IN
  CASE el.type = "union" ->
         IF Len(el.children) = 2 /\ Elements[el.children[1]].type = "null"
         THEN CrossesVariant(el.children[2], path)
         ELSE TRUE
    [] path = <<>> -> FALSE
    [] el.type = "object" ->
         LET i == CHOOSE i \in DOMAIN el.fields : el.fields[i].name = Head(path)
         IN CrossesVariant(el.fields[i].element, Tail(path))
    [] OTHER -> CrossesVariant(el.children[1], Tail(path))

(* PlotRetrieve accepts the drag token of a numeric leaf exactly when the *)
(* leaf's path crosses no non-optional union: the name RenderToken builds *)
(* from the Parent chain (array indices, union children forwarded with   *)
(* their parent) is the path ValueRetrieve's constructor walks back down, *)
(* and a leaf of a variant, which the constructor does not handle (the    *)
(* comment above line 532), is never plotted from a wrong chain.          *)
DragTokensResolve ==
  \A r \in RowSet :
    r.leaf /\ r.type \in NumericTypes =>
      (Getter(r.token).valid <=> ~CrossesVariant(Root, r.key.path))

(* For every plot made from a dropped leaf, on the item the tree shows   *)
(* now (possibly another one than when it was dropped, with other array  *)
(* sizes and union branches), the plotted value is the cell the tree     *)
(* shows under the same token.                                           *)
PlotMatchesTree ==
  \A t \in plotted, r \in RowSet :
    r.leaf /\ r.token = t /\ r.type \in NumericTypes =>
      PlotValue(t) = [kind |-> "cell", value |-> r.cell]

(* Dropping any leaf the window shows never kills tplot2. *)
NoAbortOnDrop == ~crashed

=============================================================================
