--------------------------- MODULE TypeDefinitions ---------------------------
(***************************************************************************)
(* The type definitions of the extensions become the schemas of the        *)
(* collections: mergeAST of server/src/util/ast.ts folds the extensions of *)
(* a type into its definition, loadCollectionSchemas of server/src/        *)
(* server.ts reads the types marked @collection.  A node is                *)
(*   [name, kind, extends : it is an extension,                            *)
(*    marks : its directives @collection, each its list of indexes or None,*)
(*    fields : a sequence of [name, type, localized, computed],            *)
(*    types : the members of a union]                                      *)
(* and an index [handle, type, fields : a sequence of [name, direction]].  *)
(***************************************************************************)
EXTENDS Naturals, Sequences, FiniteSets, SequencesExt, TLC

CONSTANT None

Extensions(nodes, name) == SelectSeq(nodes, LAMBDA n : n.extends /\ n.name = name)

\* What the nodes have in one of their lists.
All(nodes, part) == FlattenSeq([i \in DOMAIN nodes |-> nodes[i][part]])

\* Of several @collection the first one stays, with the indexes of the others if it
\* and they have a list of them.
MergeDirectives(marks) ==
    IF marks = <<>> THEN <<>>
    ELSE <<IF Head(marks) = None THEN None
           ELSE FlattenSeq(SelectSeq(marks, LAMBDA m : m # None))>>

\* A slip: the fields of the first extension alone are added.
MergedByFirst(node, extensions) ==
    [node EXCEPT !.marks = MergeDirectives(@ \o All(extensions, "marks")),
                 !.fields = @ \o extensions[1].fields,
                 !.types = @ \o All(extensions, "types")]

\* A definition with what its extensions add.
Merged(node, extensions) ==
    [node EXCEPT !.marks = MergeDirectives(@ \o All(extensions, "marks")),
                 !.fields = @ \o All(extensions, "fields"),
                 !.types = @ \o All(extensions, "types")]

\* The definitions, merged, and the extensions of types nobody defines; an
\* interface or a scalar that is extended is lost.
MergeAST(nodes) ==
    LET kept(n) == IF n.extends THEN \A i \in DOMAIN nodes : nodes[i].name = n.name => nodes[i].extends
                   ELSE Extensions(nodes, n.name) = <<>> \/ n.kind \notin {"interface", "scalar"}
        left == SelectSeq(nodes, kept)
    IN  [i \in DOMAIN left |->
            IF left[i].extends \/ Extensions(nodes, left[i].name) = <<>> THEN left[i]
            ELSE Merged(left[i], Extensions(nodes, left[i].name))]

-----------------------------------------------------------------------------
IsCollection(node) == node.kind \in {"object", "union"} /\ ~node.extends /\ node.marks # <<>>

\* getDefNodeByNamedType(): the first node of a name.
Defined(nodes, name) == \E i \in DOMAIN nodes : nodes[i].name = name
Definition(nodes, name) == nodes[CHOOSE i \in DOMAIN nodes : nodes[i].name = name /\
                                 \A j \in 1..(i - 1) : nodes[j].name # name]

Scalars == ("ID" :> "string") @@ ("String" :> "string") @@ ("Int" :> "int") @@ ("Float" :> "float")
           @@ ("Boolean" :> "boolean") @@ ("Date" :> "date") @@ ("DateTime" :> "datetime")

\* The type of a field; one that is another type is an object, related if that is
\* a collection.
FieldType(nodes, type) ==
    IF type \in DOMAIN Scalars THEN Scalars[type]
    ELSE IF Defined(nodes, type) /\ Definition(nodes, type).kind \in {"object", "union"}
            /\ ~Definition(nodes, type).extends THEN "object"
    ELSE "string"

FieldsOf(nodes, node) ==
    LET stored == SelectSeq(node.fields, LAMBDA f : ~f.computed)
    IN  [i \in DOMAIN stored |-> [name |-> stored[i].name, type |-> FieldType(nodes, stored[i].type),
                                  localized |-> stored[i].localized]]

\* reduceUniqueField(): of the fields of one name the first.
Unique(fields) == LET first(i) == \A j \in 1..(i - 1) : fields[j].name # fields[i].name
                  IN  FlattenSeq([i \in DOMAIN fields |-> IF first(i) THEN <<fields[i]>> ELSE <<>>])

\* A union has the fields of its members that are objects.
SchemaOf(nodes, node) ==
    LET members == SelectSeq(node.types, LAMBDA t : Defined(nodes, t) /\
                      Definition(nodes, t).kind = "object" /\ ~Definition(nodes, t).extends)
    IN  [handle |-> node.name,
         fields |-> IF node.kind = "object" THEN FieldsOf(nodes, node)
                    ELSE Unique(FlattenSeq([i \in DOMAIN members |->
                            FieldsOf(nodes, Definition(nodes, members[i]))])),
         indexes |-> FlattenSeq(SelectSeq(node.marks, LAMBDA m : m # None))]

LoadCollectionSchemas(nodes) ==
    LET collections == SelectSeq(nodes, IsCollection)
    IN  [i \in DOMAIN collections |-> SchemaOf(nodes, collections[i])]

-----------------------------------------------------------------------------
(* The reference: what the author of the definitions means.                 *)
Named(nodes, name) == {i \in DOMAIN nodes : nodes[i].name = name}

Declared(nodes, name) == UNION {{f.name : f \in {f \in ToSet(nodes[i].fields) : ~f.computed}} : i \in Named(nodes, name)}

DeclaredMembers(nodes, name) == UNION {ToSet(nodes[i].types) : i \in Named(nodes, name)}

Lists(nodes, name) == UNION {ToSet(nodes[i].marks) : i \in Named(nodes, name)}

\* A type with a definition that is a collection, by it or by an extension, has the
\* fields declared for it or for its members, and the indexes, unless one of its
\* @collection has no list of them.
LoadedAsDeclared(nodes) ==
    LET schemas == LoadCollectionSchemas(MergeAST(nodes)) IN
    \A i \in DOMAIN nodes :
        LET n == nodes[i] IN
        ~n.extends /\ n.kind \in {"object", "union"} /\ Lists(nodes, n.name) # {} =>
            \E s \in ToSet(schemas) :
                /\ s.handle = n.name
                /\ {f.name : f \in ToSet(s.fields)} =
                      UNION {Declared(nodes, t) : t \in {n.name} \cup DeclaredMembers(nodes, n.name)}
                /\ None \notin Lists(nodes, n.name) =>
                      ToSet(s.indexes) = UNION {ToSet(l) : l \in Lists(nodes, n.name)}
=============================================================================
