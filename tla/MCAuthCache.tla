----------------------------- MODULE MCAuthCache -----------------------------
EXTENDS AuthCache, TLC

MCUserOf == 1 :> "u" @@ 2 :> "u"
MCNeeded == 1 :> {"read", "write"} @@ 2 :> {"read"}

To(k, v) == [key |-> k, value |-> v]

MCPlans == {<<To("u", {"h"}), To("g", {})>>, <<To("u", {}), To("u", {"g"})>>,
            <<To("u", None), To("g", {"read", "write"})>>, <<To("u", {"g", "h"}), To("g", None)>>}

\* Bound: one commit or removal that rejects and is still to be told of, or one lookup that did.
OneRejects == Cardinality({w \in Writers : written[w] = "untold"})
                + Cardinality({<<r, k>> \in Requests \X Keys : stage[r][k] = "rejected"}) <= 1

MCDatabases == {"u" :> {"g"} @@ "g" :> {"read"} @@ "h" :> {"super"} @@ Blank :> None}
=============================================================================
