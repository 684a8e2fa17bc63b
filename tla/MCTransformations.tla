-------------------------- MODULE MCTransformations --------------------------
\* Instances of Transformations: answers of up to three clips, and requests of one or two
\* pipelines, those of the program's tests and of genVersioningAggregation among them.
EXTENDS Transformations

Life(created, deleted) ==
    Obj("createdTime" :> Num(created) @@ "deletedTime" :> IF deleted THEN Num(created) ELSE NullValue)

Clip(field, subject, value, version, created, deleted) ==
    "fieldId" :> Str(field) @@ "value" :> value @@ "dataVersion" :> version
        @@ "life" :> Life(created, deleted)
        @@ "properties" :> Obj(IF subject = "" THEN Empty ELSE "subjectId" :> Str(subject))

Samples ==
    {Clip("f", "a", Num(1), Str("v"), 1, FALSE), Clip("f", "a", Num(2), NullValue, 2, FALSE),
     Clip("f", "a", NullValue, NullValue, 2, TRUE), Clip("f", "b", Str("2"), Str("v"), 1, FALSE),
     Clip("g", "", Num(0), Str("v"), 2, FALSE), Clip("g", "a", Str("t"), NullValue, 1, FALSE)}

MCInputs == UNION {[1..n -> Samples] : n \in 0..3}

S == <<"properties", "subjectId">>
V == <<"value">>
F == <<"fieldId">>

Value(v) == [type |-> "VALUE", value |-> v]
Group(keys, skip) == [name |-> "GROUP", keys |-> keys, skip |-> skip]
Collect(keys) == [name |-> "CONCAT", keys |-> keys]
Apart(keys, combinations) == [name |-> "DECONCAT", keys |-> keys, combinations |-> combinations]
Counted(added) == [name |-> "COUNT", added |-> added]
Leave(score, descend) == [name |-> "LEAVEONE", score |-> score, descend |-> descend]
Pick(filters) == [name |-> "FILTER", filters |-> filters]
Spread(keepKey, keepFlattened) ==
    [name |-> "FLATTEN", key |-> "life", keepKey |-> keepKey, keepFlattened |-> keepFlattened]
Parts == [name |-> "DEGROUP", shared |-> {"fieldId"},
          targets |-> <<{"value", "dataVersion"}, {"properties"}>>]
Joins == [name |-> "JOIN"]
Test(formula, condition, value, matches) ==
    [formula |-> formula, condition |-> condition, value |-> value, matches |-> matches]

Entry(key, value) == [key |-> key, value |-> value]
Sum(a, b) == [type |-> "OPERATION", operator |-> "add", children |-> <<a, b>>]
Change(added, rules, removed) ==
    [name |-> "AFFINE", added |-> added, rules |-> rules, removed |-> removed]
Self == [type |-> "SELF"]
Bump == Change(<<Entry(Value(Str("subject")), Lookup(S))>>,
               "value" :> [type |-> "MAP", parameters |-> "t" :> Num(7)], {"dataVersion"})
Strip == Change(<<>>, Empty, {"fieldId", "value", "dataVersion", "properties", "life"})
More == Change(<<>>, "value" :> Sum(Self, Value(Num(1))), {})

Latest(keys, all) == GenVersioningAggregation(keys, all)
Unknown == [name |-> "SORT"]

Singles ==
    {<<>>, <<Group(<<S>>, FALSE), Counted(<<>>)>>, <<Group(<<S, F>>, TRUE), Counted(<<>>)>>,
     <<Group(<<S>>, FALSE), Counted(<<Entry(Lookup(F), Lookup(V))>>)>>,
     <<Group(<<S>>, FALSE), Collect({"value", "life"}), Apart(<<"value", "life">>, FALSE)>>,
     <<Group(<<S>>, FALSE), Collect({"value", "fieldId"}), Apart(<<"value", "fieldId">>, TRUE)>>,
     <<Apart(<<"value">>, TRUE)>>, <<Group(<<S>>, TRUE), Apart(<<"value">>, FALSE)>>,
     <<Parts, Joins>>, <<Spread(FALSE, TRUE), Group(<<S>>, TRUE), Joins>>,
     <<Group(<<S>>, FALSE), Spread(TRUE, FALSE), Leave(Lookup(V), FALSE)>>,
     <<Group(<<F>>, FALSE), Leave(Lookup(V), TRUE), Pick(<<Verify(V, "notNull")>>)>>,
     <<Pick(<<<<Test(Lookup(V), "greater", Num(0), {})>>,
              <<Test(Lookup(F), "regex", NullValue, {"g"}), Test(Lookup(V), "less", Num(1), {})>>>>)>>,
     <<Bump, Group(<<<<"subject">>>>, FALSE), Counted(<<>>)>>, <<More>>,
     <<Leave(Lookup(V), TRUE)>>, <<Joins>>, <<Unknown>>, <<Strip>>}
    \cup {Latest(keys, all) : keys \in {<<>>, <<F, S>>, <<S>>}, all \in BOOLEAN}

MCPlans ==
    {<<p>> : p \in Singles}
        \cup {<<p, q>> : p \in {<<Bump>>, <<More>>, <<Group(<<S>>, FALSE), Joins>>},
                         q \in {<<Parts, Joins>>, Latest(<<F, S>>, FALSE), <<Bump>>}}
=============================================================================
