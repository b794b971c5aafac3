----------------------------- MODULE SyntaxTree -----------------------------
(***************************************************************************)
(* Syntax trees in memory: counted nodes that own the nodes below them,    *)
(* the node after them in their list and the type found for them.  The     *)
(* nodes allocated so far are a sequence, a node is its place in it, and   *)
(* the place 0 is NULL.  The operators take the memory and return it as    *)
(* the builders leave it.                                                  *)
(***************************************************************************)
EXTENDS Integers, SequencesExt

CountLimit == 2 ^ 16      \* retainCount is a uint16_t
NoNode     == 0
NoName     == "no name"

(* fields: the nodes below, in the order in which a traversal visits them. *)
Node(kind, name, fields) ==
    [kind |-> kind, name |-> name, fields |-> fields, next |-> NoNode, type |-> NoNode,
     optional |-> FALSE, mangled |-> <<>>, count |-> 0, live |-> TRUE]

Retain(nodes, id) ==
    IF id = NoNode THEN nodes ELSE [nodes EXCEPT ![id].count = (@ + 1) % CountLimit]

(* The builder of an init expression takes its arguments without retaining *)
(* them.                                                                   *)
Retained(kind, fields) == IF kind = "init" THEN <<fields[1]>> ELSE fields

(* The new node is the last one, Len of the memory returned.               *)
Make(nodes, kind, name, fields) ==
    Append(FoldLeft(Retain, nodes, Retained(kind, fields)), Node(kind, name, fields))

-----------------------------------------------------------------------------
(* Lists under construction: the first and the last node, linked by next.  *)

EmptyList == [head |-> NoNode, last |-> NoNode]

(* Mistake: the first node is retained too, though the owner will do it.   *)
ListAddRetainsAll(nodes, list, item) ==
    IF item = NoNode THEN [nodes |-> nodes, list |-> list]
    ELSE [nodes |-> LET held == Retain(nodes, item) IN
                    IF list.head = NoNode THEN held ELSE [held EXCEPT ![list.last].next = item],
          list  |-> [head |-> IF list.head = NoNode THEN item ELSE list.head, last |-> item]]

(* The first node is left for the owner of the list to retain.             *)
ListAdd(nodes, list, item) ==
    IF item = NoNode THEN [nodes |-> nodes, list |-> list]
    ELSE IF list.head = NoNode
    THEN [nodes |-> nodes, list |-> [head |-> item, last |-> item]]
    ELSE [nodes |-> [Retain(nodes, item) EXCEPT ![list.last].next = item],
          list  |-> [list EXCEPT !.last = item]]

ListClose(nodes, list) ==
    IF list.last = NoNode THEN nodes ELSE [nodes EXCEPT ![list.last].next = NoNode]

RECURSIVE ListFrom(_, _)
ListFrom(nodes, id) ==
    IF id = NoNode THEN <<>> ELSE <<id>> \o ListFrom(nodes, nodes[id].next)

-----------------------------------------------------------------------------
(* Mistake: types are shared, as if nobody linked them into another list.  *)
TypeCopyShares(nodes, id) == [nodes |-> nodes, id |-> id]

(* A type is copied with the types below it and those after it in its list. *)
RECURSIVE TypeCopy(_, _)
TypeCopy(nodes, id) ==
    IF id = NoNode THEN [nodes |-> nodes, id |-> NoNode]
    ELSE LET source == nodes[id]
             parts  == FoldLeft(LAMBDA done, field:
                                    LET part == TypeCopy(done.nodes, field)
                                    IN [nodes |-> part.nodes, ids |-> Append(done.ids, part.id)],
                                [nodes |-> nodes, ids |-> <<>>], source.fields)
             made   == Make(parts.nodes, source.kind, source.name, parts.ids)
             rest   == TypeCopy(made, source.next)
         IN [nodes |-> [Retain(rest.nodes, rest.id) EXCEPT
                            ![Len(made)].next = rest.id,
                            ![Len(made)].optional = source.optional],
             id    |-> Len(made)]

-----------------------------------------------------------------------------
NonNull(ids) == SelectSeq(ids, LAMBDA id: id # NoNode)

(* Mistake: the traversal goes down only.                                  *)
VisitedBelow(node) == NonNull(node.fields)

(* Where a traversal goes from a node: down, then along the list.          *)
Visited(node) == NonNull(Append(node.fields, node.next))

(* What a node releases when it is destroyed.  Lambdas are missing from    *)
(* the cases of the destructor.                                            *)
Released(node) ==
    NonNull((IF node.kind = "lambda" THEN <<>> ELSE node.fields) \o <<node.type, node.next>>)
=============================================================================
