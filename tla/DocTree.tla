------------------------------ MODULE DocTree -------------------------------
(***************************************************************************)
(* How Lua writes into a document and sees it: a root list of maps that    *)
(* carry an id, addressed by id or by position, written with tagged        *)
(* values, and copied into a mirror table that is a frame behind.  A       *)
(* table is a function of its keys, a list a sequence; scalars and names   *)
(* are model values.  Peers change the list between any two steps.         *)
(***************************************************************************)
EXTENDS Naturals, FiniteSets, Sequences, SequencesExt, Functions

CONSTANTS Ids,        \* ids an element may carry
          IdKey, Title, Cards,  \* keys: of an element, and the root's name
          Scalar, Null, \* values; Null removes from a table
          Bad,        \* what cannot be written: nil, a plain table, a function
          MaxLen,     \* bound: elements in the list
          MaxOps      \* bound: writes

\* What the constants have to be
DocTreeConstants ==
  MaxLen \in Nat /\ MaxOps \in Nat /\ Bad \notin Scalar /\ Null \in Scalar /\ Ids \subseteq Scalar

VARIABLES list,    \* the LoroMovableList at the root Cards: maps and scalars
          pending, \* a write failed half way: its ops wait for the next commit
          mirror,  \* the Lua table of the document
          patched, \* no commit since the mirror was patched
          last,    \* what the last step was
          ops
vars == <<list, pending, mirror, patched, last, ops>>

IsMap(e) == e \notin Scalar
Table(e) == [k \in {j \in DOMAIN e : e[j] # Null} |-> e[k]]
\* get_deep_value as Lua would hold it: a Null is no entry
AsTable(l) == [k \in {Cards} |-> [i \in {j \in DOMAIN l : l[j] # Null} |->
                                    IF IsMap(l[i]) THEN Table(l[i]) ELSE l[i]]]

\* child: the table that is there, or a new one
Child(dst, k) == IF k \in DOMAIN dst /\ IsMap(dst[k]) THEN dst[k] ELSE [j \in {} |-> Null]
Sweep(t, keep) == Restrict(t, DOMAIN t \cap keep)
Entries(t) == [k \in {j \in DOMAIN t : t[j] # Null} |-> t[k]]
\* patch_into, a map of scalars, the list, and the root
PatchMap(dst, m) ==
  Sweep(Entries([k \in DOMAIN dst \cup DOMAIN m |-> IF k \in DOMAIN m THEN m[k] ELSE dst[k]]),
        DOMAIN m)
PatchList(dst, l) ==
  Sweep(Entries([k \in DOMAIN dst \cup DOMAIN l |->
           IF k \notin DOMAIN l THEN dst[k]
           ELSE IF IsMap(l[k]) THEN PatchMap(Child(dst, k), l[k]) ELSE l[k]]),
        DOMAIN l)
PatchInto(dst, l) == [k \in {Cards} |-> PatchList(Child(dst, Cards), l)]
-----------------------------------------------------------------------------
(* Values Lua gives: a scalar, Bad, or a table tagged as a map.  place      *)
(* makes the container, fill fills it in any order up to what is refused.   *)

Given == (Scalar \ {Null}) \cup {Bad} \cup
         {[k \in {IdKey} |-> i] : i \in Ids} \cup
         {[k \in {IdKey, Title} |-> IF k = IdKey THEN i ELSE t] : i \in Ids, t \in {Bad} \cup Ids}
Sound(v) == IF v \in Scalar \cup {Bad} THEN v # Bad ELSE Bad \notin Range(v)
\* What may stand at the slot after the write; nothing, if it was not placed.
Filled(v) ==
  IF v \in Scalar THEN {v}
  ELSE IF v = Bad THEN {}
  ELSE IF Sound(v) THEN {v}
  ELSE {Restrict(v, S) : S \in SUBSET {k \in DOMAIN v : v[k] # Bad}}

\* scan_for_id and index_in, from 1
Seg == [id : Ids] \cup [pos : 0..MaxLen]
IsId(seg) == "id" \in DOMAIN seg
HasId(e, id) == IsMap(e) /\ IdKey \in DOMAIN e /\ e[IdKey] = id
Scan(id) == SelectInSeq(list, LAMBDA e : HasId(e, id))
IndexIn(seg) == IF IsId(seg) THEN Scan(seg.id) ELSE seg.pos
\* 0 is "no element with that id" and "list positions start at 1"
Exists(seg) == IndexIn(seg) \in DOMAIN list
-----------------------------------------------------------------------------
Init ==
  /\ list = <<>> /\ pending = FALSE /\ mirror = AsTable(<<>>) /\ patched = TRUE
  /\ last = [op |-> "none", seg |-> [pos |-> 0]] /\ ops = 0

Step(op, seg) ==
  /\ ops < MaxOps /\ ops' = ops + 1
  /\ last' = [op |-> op, seg |-> seg]

\* A write that ends: committed, or left pending where it failed
Wrote(l, ok) ==
  /\ list' = l /\ Len(l) <= MaxLen
  /\ pending' = (~ok /\ (pending \/ l # list))
  /\ patched' = (patched /\ ~ok)
  /\ UNCHANGED mirror

\* :set on the root: cleared, then refilled
SetRoot(vs) ==
  /\ Step("root", [pos |-> 0])
  /\ \E n \in 0..Len(vs) :
       \/ /\ n = Len(vs) /\ (\A i \in 1..n : Sound(vs[i])) /\ Wrote(vs, TRUE)
       \/ /\ n < Len(vs) /\ (\A i \in 1..n : Sound(vs[i])) /\ ~Sound(vs[n + 1])
          /\ \E e \in {<<x>> : x \in Filled(vs[n + 1])}
                      \cup (IF Filled(vs[n + 1]) = {} THEN {<<>>} ELSE {}) :
               Wrote(SubSeq(vs, 1, n) \o e, FALSE)

\* :set on an element: a new container, or a scalar, in its place
SetElement(seg, v) ==
  /\ Step("set", seg) /\ Exists(seg)
  /\ IF Filled(v) = {} THEN Wrote(list, FALSE)
     ELSE \E e \in Filled(v) : Wrote([list EXCEPT ![IndexIn(seg)] = e], Sound(v))

\* :set on a field of an element
SetField(seg, v) ==
  /\ Step("field", seg) /\ Exists(seg) /\ IsMap(list[IndexIn(seg)])
  /\ v \in Scalar \cup {Bad}
  /\ IF v = Bad THEN Wrote(list, FALSE)
     ELSE Wrote([list EXCEPT ![IndexIn(seg)] = (Title :> v) @@ @], TRUE)

\* :insert, at a position or at the end.  Mutant: where the mirror ends
MirrorEnd == Cardinality(DOMAIN mirror[Cards]) + 1
ListEnd == Len(list) + 1
Insert(op, p, v) ==
  /\ Step(op, [pos |-> p]) /\ p \in 1..Len(list) + 1
  /\ IF Filled(v) = {} THEN Wrote(list, FALSE)
     ELSE \E e \in Filled(v) : Wrote(InsertAt(list, p, e), Sound(v))
Push(v) == Insert("append", ListEnd, v)

Delete(seg) ==
  /\ Step("delete", seg) /\ Exists(seg)
  /\ Wrote(RemoveAt(list, IndexIn(seg)), TRUE)

\* :move is one operation.
Moved(l, i, to) == InsertAt(RemoveAt(l, i), to, l[i])
Move(seg, to) ==
  /\ Step("move", seg) /\ Exists(seg) /\ to \in DOMAIN list
  /\ Wrote(Moved(list, IndexIn(seg), to), TRUE)

\* A peer's list arrives; what was pending is committed with it
Import(l) ==
  /\ Step("import", [pos |-> 0]) /\ list' = l /\ Len(l) <= MaxLen
  /\ pending' = FALSE /\ patched' = FALSE /\ UNCHANGED mirror

\* The next frame
View ==
  /\ ~patched /\ patched' = TRUE /\ mirror' = PatchInto(mirror, list)
  /\ last' = [op |-> "view", seg |-> [pos |-> 0]]
  /\ UNCHANGED <<list, pending, ops>>

\* What a peer may have done: one element more, less, or in another place
Peers == {RemoveAt(list, i) : i \in DOMAIN list}
         \cup {InsertAt(list, 1, e) : e \in {Null} \cup {v \in Given : Sound(v)}}
         \cup {Moved(list, i, 1) : i \in DOMAIN list}
Next ==
  \/ View
  \/ \E l \in Peers : Import(l)
  \/ \E v \in Given : Push(v) \/ (\E w \in Given : SetRoot(<<v, w>>))
                      \/ \E p \in 1..MaxLen : Insert("insert", p, v)
  \/ \E seg \in Seg : \/ Delete(seg) \/ \E v \in Given : SetElement(seg, v) \/ SetField(seg, v)
                      \/ \E to \in 1..MaxLen : Move(seg, to)
Spec == Init /\ [][Next]_vars
-----------------------------------------------------------------------------
(* Properties *)

\* The list holds scalars and maps, and never what cannot be written.
TypeOK ==
  /\ Len(list) <= MaxLen /\ ops \in 0..MaxOps /\ pending \in BOOLEAN /\ patched \in BOOLEAN
  /\ \A i \in DOMAIN list : list[i] \in Scalar \/ (list[i] # Bad /\ Bad \notin Range(list[i]))

\* A frame shows the document, whatever the tables of the mirror held before:
\* a map where a list's scalar was, a shorter list, a field taken away.
MirrorShowsTheDocument == (patched /\ ~pending) => mirror = AsTable(list)

Others(l, id) == SelectSeq(l, LAMBDA e : ~HasId(e, id))
\* What is addressed by id touches that element and no other, wherever a peer
\* has moved it since the frame in which the handler's closure was made.
IdHitsItsElement ==
  [][(ops' > ops /\ IsId(last'.seg)
        /\ \A i, j \in DOMAIN list : (HasId(list[i], last'.seg.id) /\ HasId(list[j], last'.seg.id)) => i = j)
       => \/ Others(list', last'.seg.id) = Others(list, last'.seg.id)
          \/ /\ last'.op = "set"
             /\ \A i \in DOMAIN list : list'[i] = list[i] \/ HasId(list[i], last'.seg.id)]_vars

\* A move loses and doubles nothing, and the element ends where it was sent.
MoveKeepsAll ==
  [][(ops' > ops /\ last'.op = "move") =>
       /\ Len(list') = Len(list)
       /\ Range(list') = Range(list)
       /\ \E to \in DOMAIN list : list'[to] = list[IndexIn(last'.seg)]
            /\ RemoveAt(list', to) = RemoveAt(list, IndexIn(last'.seg))]_vars

\* Handlers that write twice before the next frame append in the order they wrote.
AppendsGoLast ==
  [][(ops' > ops /\ last'.op = "append" /\ Len(list') > Len(list))
       => SubSeq(list', 1, Len(list)) = list]_vars
=============================================================================
