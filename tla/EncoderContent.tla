--------------------------- MODULE EncoderContent ---------------------------
(***************************************************************************)
(* What an encode is to write: the content of Encoder compared with the    *)
(* infoset and with the calculations of the schema.                        *)
(***************************************************************************)
EXTENDS Encoder

(* The calculated sibling a calculated sibling needs, and so on: a cycle.  *)
RECURSIVE Needs(_, _, _)
Needs(ids, name, n) ==
  LET at == FindParticle(ids, name, TRUE) IN
  at # 0 /\ Node(at).calc \in {"path", "count", "length", "concat", "substring", "xpath"} /\ (n = 0 \/ Needs(ids, Node(at).of, n - 1))
Cyclic == \E id \in DOMAIN prog.nodes :
  Node(id).kind = "sequence" /\
  \E i \in DOMAIN Node(id).kids : Needs(Node(id).kids, Node(Node(id).kids[i]).name, Len(Node(id).kids))

(* When a sequence starts to be written, every path, count, concatenation  *)
(* and substring among its children gives, over the values about to be written, the value its  *)
(* element has: the order of declaration and values left in the infoset    *)
(* from an earlier decode do not matter, unless the calculations go in a   *)
(* circle.                                                                 *)
CalcsSettled ==
  (stack # <<>> /\ Top.fn = "sequence" /\ Top.i > 0 /\ ~Cyclic) =>
    LET kids == Node(Top.id).kids IN
    \A i \in DOMAIN kids :
      LET n == Node(kids[i])  v == Top.map[n.of]
          is == CASE n.calc = "count" -> Num(CountOf(v))
                  [] n.calc \in {"concat", "substring"} -> IF Chars(n, v) = NoLength THEN NoMap ELSE Pieces(n, v)
                  [] n.add = 0 -> v [] v.t = "int" -> Num(v.n + n.add) [] OTHER -> NoMap IN
      (n.calc \in {"path", "count", "concat", "substring"} /\ n.of \in DOMAIN Top.map /\ is # NoMap)
      => Top.map[n.name] = ForKind(n.kind, is)

(* The data of the infoset in the order of the schema: what an encode is   *)
(* to write.  A choice takes the branch some of whose fields are there.    *)
RECURSIVE FieldsOf(_)
FieldsOf(id) ==
  IF IsElement(Node(id)) THEN {Node(id).name}
  ELSE UNION {FieldsOf(Node(id).kids[i]) : i \in DOMAIN Node(id).kids}

FieldsIn(v) ==
  CASE v.t = "branch" -> IF v.v.t = "map" THEN v.v.f ELSE v.of :> v.v
    [] v.t = "list" -> v.s[1].f [] v.t = "map" -> v.f [] OTHER -> NoFields

RECURSIVE Expected(_, _), ExpectedAll(_, _), ExpectedItems(_, _)
ExpectedAll(ids, map) ==
  IF ids = <<>> THEN <<>> ELSE Expected(Head(ids), map) \o ExpectedAll(Tail(ids), map)
ExpectedItems(id, s) ==
  IF s = <<>> THEN <<>>
  ELSE (IF Node(id).kind # "complex" \/ Head(s) = Null THEN <<<<id, Head(s)>>>>
        ELSE ExpectedAll(Node(id).kids, FieldsIn(Head(s)))) \o ExpectedItems(id, Tail(s))
Expected(id, map) ==
  LET n == Node(id)
      there == {i \in DOMAIN n.kids : FieldsOf(n.kids[i]) \intersect DOMAIN map # {}}
      cut == IF n.count \in DOMAIN map /\ Node(FindParticle(<<Root>>, n.count, TRUE)).calc = "none"
             THEN Cut(map[n.name], CountOf(map[n.count])) ELSE map[n.name] IN
  CASE n.kind = "sequence" -> ExpectedAll(n.kids, map)
    [] n.kind = "choice" -> IF there = {} THEN <<>> ELSE Expected(n.kids[CHOOSE i \in there : TRUE], map)
    [] n.ivc \/ HasCalc(n) \/ n.hidden \/ n.name \notin DOMAIN map -> <<>>
    [] OTHER -> ExpectedItems(id, ItemsOf(cut))

IsData(t) == ~HasCalc(Node(t.id)) /\ ~Node(t.id).hidden /\ t.v.t \notin {"pad", "cut", "prefix"}
Written == LET data == SelectSeq(out, IsData) IN [i \in DOMAIN data |-> <<data[i].id, data[i].v>>]

(* An encode that succeeds has written every field of the infoset once, in *)
(* the order of the schema and with the infoset's value, and no other      *)
(* data: nothing is dropped or taken from another place, unless a frame of *)
(* fixed length has cut its payload.                                       *)
WritesInfoset ==
  (/\ stack = <<>> /\ signal = "ok" /\ (\A i \in DOMAIN out : out[i].v.t # "cut"))
  => Written = ExpectedItems(Root, ItemsOf(Payload(infoset, Node(Root).name)))

=============================================================================
