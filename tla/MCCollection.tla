---------------------------- MODULE MCCollection ----------------------------
EXTENDS Collection

T(en, fr) == ("en" :> en) @@ ("fr" :> fr)
D(en, fr, refs) == [title |-> T(en, fr), refs |-> refs]
Op(op, c, i, d) == [op |-> op, coll |-> c, id |-> i, data |-> d]
Own(op) == [own |-> TRUE, ops |-> <<op>>]
Rel(c, i, t) == [coll |-> c, source |-> i, target |-> t, by |-> None]

MCLocales == <<"en", "fr">>

MCWriters == {1, 2}
MCFinders == {1, 2}

CreatePost == Own(Op("create", "Post", 2, D("b", "a", {"x"})))
ReplacePost == Own(Op("replace", "Post", 1, D("a", "b", {"y"})))
ReplaceOther == Own(Op("replace", "Post", 2, D("a", "a", {"y"})))
DeletePost == Own(Op("delete", "Post", 1, None))
Recreate == [own |-> FALSE, ops |-> <<Op("delete", "Post", 1, None), Op("create", "Post", 1, D("b", "b", {"y"}))>>]
Mixed == [own |-> FALSE, ops |-> <<Op("replace", "Tag", 1, D("a", "b", {"y"})),
                                   Op("create", "Post", 1, D("a", "b", {"y"}))>>]

MCPlans == {<<CreatePost, DeletePost>>, <<Recreate, ReplacePost>>, <<Mixed, ReplaceOther>>,
            <<CreatePost, CreatePost>>}

Is(field, v) == [op |-> "=", field |-> field, values |-> <<v>>]
Not(field, v) == [op |-> "!=", field |-> field, values |-> <<v>>]
Than(op, i) == [op |-> op, field |-> "id", values |-> <<i>>]
Bin(op, a, b) == [op |-> op, args |-> <<a, b>>]
Many(l, fields, cond, limit) == [kind |-> "many", coll |-> "Post", locale |-> l, fields |-> fields,
                                 cond |-> cond, limit |-> limit, id |-> None]
ById(c, i, l, fields) == [kind |-> "byId", coll |-> c, locale |-> l, fields |-> fields,
                          cond |-> None, limit |-> 0, id |-> i]

Either == Many("fr", {}, Bin("or", Is("title", "b"), Bin("and", Not("title", "b"), Than(">=", 2))), 0)
Some == Many(None, {"title"}, Bin("and", [op |-> "in", field |-> "id", values |-> <<2, 1>>], Than("<", 3)), 1)
Xor == Many(None, {}, Bin("xor", Is("title", "b"), Is("id", 1)), 0)
Begins == Many(None, {}, [op |-> "beginsWith", field |-> "title", values |-> <<"b">>], 0)
OnList == Many(None, {}, Is("refs", "x"), 0)
First == [Many("fr", {"refs"}, Is("title", "b"), 0) EXCEPT !.kind = "one"]

Unknown == Many(None, {"id", "body"}, Is("id", 1), 0)

MCAsks == {<<ById("Post", 1, None, {}), ById("Post", 2, None, {"title"})>>,
           <<ById("Post", 1, None, {}), ById("Post", 1, "fr", {"refs"})>>,
           <<ById("Post", 1, None, {}), ById("Post", 2, "xx", {})>>,
           <<ById("Post", 1, None, {"__typename", "title"}), ById("Post", 1, "fr", {})>>,
           <<Either, First>>, <<Some, Xor>>, <<OnList, ById("Tag", 1, "fr", {"title"})>>, <<Unknown, ById("Post", 1, None, {"refs"})>>, <<Begins, ById("Post", 1, "fr", {})>>}

MCDatabases ==
    {[records |-> [c \in {"Post", "Tag"} |-> [i \in {1, 2} |-> IF i = 1 THEN T("a", "b") ELSE None]],
      relations |-> {Rel("Post", 1, "x"), Rel("Tag", 1, "x")}],
     [records |-> [c \in {"Post", "Tag"} |-> [i \in {1, 2} |-> IF c = "Post" THEN T("b", "a") ELSE None]],
      relations |-> {Rel("Post", 2, "x"), Rel("Tag", 2, "y")}]}
=============================================================================
