----------------------------- MODULE MCMigration -----------------------------
(* Configurations that grow, shrink, add locales, localize a field or no longer do, *)
(* name a field twice or a region, and the sequences in which one or two migrators  *)
(* come to them, on a database that is empty or has a table of posts and that of    *)
(* the relations.                                                                   *)
EXTENDS Migration

F(name, type) == [name |-> name, type |-> type, localized |-> FALSE, computed |-> FALSE]
L(name, type) == [F(name, type) EXCEPT !.localized = TRUE]
C(name, type) == [F(name, type) EXCEPT !.computed = TRUE]
Def(name, marks, fields) == [name |-> name, kind |-> "object", extends |-> FALSE,
                             marks |-> marks, fields |-> fields, types |-> <<>>]
Ext(name, marks, fields) == [Def(name, marks, fields) EXCEPT !.extends = TRUE]
Uni(name, marks, types) == [Def(name, marks, <<>>) EXCEPT !.kind = "union", !.types = types]
Enum(name) == [Def(name, <<>>, <<>>) EXCEPT !.kind = "enum"]
On(name, direction) == [name |-> name, direction |-> direction]
Index(c, n, type, fields) == [handle |-> <<c, n>>, type |-> type, fields |-> fields]
To(types, locales) == [types |-> types, locales |-> locales]

PostKey == Index("Post", "id", "primary", <<On("id", "asc")>>)
PostCount == Index("Post", "count", "unique", <<On("count", None)>>)
PostSlug == Index("Post", "slug", "sparse", <<On("slug", "desc"), On("count", "asc")>>)

Post == Def("Post", <<<<PostKey, PostCount>>>>,
            <<F("id", "ID"), L("title", "String"), F("count", "Int"), C("url", "String")>>)
Slug == Ext("Post", <<<<PostSlug>>>>, <<F("slug", "String"), F("kind", "Kind"), F("tag", "Tag")>>)
More == Ext("Post", <<>>, <<F("rate", "Float"), F("on", "Boolean"), F("at", "Date")>>)
Twice == Ext("Post", <<>>, <<F("rate", "Float"), F("rate", "Float")>>)
Tag == Def("Tag", <<None>>, <<F("id", "ID"), L("label", "String")>>)
Page == Def("Page", <<>>, <<F("id", "ID"), F("body", "String")>>)
List == Def("List", <<>>, <<F("id", "ID"), F("size", "Int")>>)
Feed == Uni("Feed", <<>>, <<"Page">>)
FeedToo == [Uni("Feed", <<<<>>>>, <<"List">>) EXCEPT !.extends = TRUE]

Small == To(<<Post>>, <<"en">>)
Plain == To(<<Def("Post", <<<<PostKey>>>>, <<F("id", "ID"), F("title", "String"), F("count", "Int")>>)>>, <<"en">>)
Large == To(<<Slug, Post, Enum("Kind"), Tag>>, <<"en", "fr">>)
Other == To(<<Post, More, Slug, Tag>>, <<"en">>)
Unions == To(<<Page, Feed, List, FeedToo, Tag>>, <<>>)
Region == To(<<Post>>, <<"en", "fr-CA">>)
Doubled == To(<<Post, Twice>>, <<"en">>)

\* Every order of up to four of the nodes in which each extended type and each member
\* of a union is defined.
Nodes == {Post, Slug, More, Tag, Page, List, Feed, FeedToo, Enum("Kind")}
Orders ==
    {nodes \in UNION {[1..n -> Nodes] : n \in 1..4} :
        /\ \A i, j \in DOMAIN nodes : nodes[i] = nodes[j] => i = j
        /\ \A i \in DOMAIN nodes : \A name \in {nodes[i].name} \cup ToSet(nodes[i].types) :
              \E j \in DOMAIN nodes : nodes[j].name = name /\ ~nodes[j].extends}

\* The migrations one after the other, then each of the documents by itself.
MCPlans == {<<<<Small, Small, Large, Large, Large>>, <<>>>>,
            <<<<Large, Large, Large, Small>>, <<Other>>>>,
            <<<<Other, Other, Other, Region, Region>>, <<>>>>,
            <<<<Unions, Unions, Large, Large>>, <<Unions>>>>,
            <<<<Small, Plain, Plain, Plain, Small>>, <<>>>>,
            <<<<Plain, Plain, Large>>, <<Plain>>>>,
            <<<<Small, Doubled>>, <<Small, Large, Large>>>>}
           \cup {<<<<To(nodes, <<"en">>)>>, <<>>>> : nodes \in Orders}

MCMandatory == [handle |-> "Relation", fields |-> <<[name |-> "id", type |-> "string", localized |-> FALSE],
                                                    [name |-> "seq", type |-> "int", localized |-> FALSE]>>,
                indexes |-> <<Index("Relation", "pk", "primary", <<On("id", None)>>)>>]

Col(h, type) == [name |-> <<h>>, type |-> type]
Empty == [c \in Names |-> None]
PostTable == [columns |-> <<Col("id", "TEXT"), [name |-> <<"title", "en">>, type |-> "TEXT"], Col("count", "INTEGER")>>,
              primary |-> {"id"},
              indexes |-> {Index("Post", "count", "unique", <<On("count", "asc")>>)}]
RelationTable == [columns |-> <<Col("id", "TEXT"), Col("seq", "INTEGER")>>, primary |-> {"id"}, indexes |-> {}]

MCDatabases == {Empty, [Empty EXCEPT !["Post"] = PostTable, !["Relation"] = RelationTable]}
=============================================================================
