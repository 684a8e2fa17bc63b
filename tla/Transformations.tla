-------------------------- MODULE Transformations --------------------------
(***************************************************************************)
(* The aggregation of an answer (transformationCore.ts, utilsCore.ts): a    *)
(* request names pipelines of operations, and each is run on the clips of   *)
(* the answer.  The pipelines run one after another on the same objects:    *)
(* AFFINE changes clips in place, where the other pipelines, and the answer *)
(* that is cached, see the change.                                          *)
(*                                                                         *)
(* A JavaScript value is a pair of its type and its content, a clip a       *)
(* function from its keys.  Left out: decimals, texts taken apart or        *)
(* compared by order, and that groups whose key reads as a number come      *)
(* first in JavaScript.                                                     *)
(***************************************************************************)
EXTENDS Integers, SequencesExt

CONSTANTS
    Inputs,  \* the clips of an answer: sequences of functions from keys to values
    Plans    \* sequences of pipelines; a pipeline is a sequence of operations

Pipelines == UNION {ToSet(p) : p \in Plans}

\* What the constants are meant to be.
ConstantsOK ==
    /\ Plans \subseteq Seq(Pipelines)
    /\ Pipelines \subseteq Seq(UNION {ToSet(p) : p \in Pipelines})
    /\ Inputs \subseteq Seq(UNION {ToSet(answer) : answer \in Inputs})

VARIABLES
    plan,     \* the pipelines of the request
    given,    \* the clips as they were answered
    clips,    \* the objects of the answer, as they are now
    todo,     \* operations left of the pipeline under way
    current,  \* what it has made so far
    results,  \* what the pipelines before it have made
    refused   \* an operation threw

aggregation == <<plan, given, clips, todo, current, results, refused>>

-----------------------------------------------------------------------------
(* Values.                                                                 *)

Num(n) == <<"num", n>>
Str(s) == <<"str", s>>
Arr(s) == <<"arr", s>>
Obj(f) == <<"obj", f>>
NullValue == <<"null">>
Undef == <<"undef">>
NaN == <<"nan">>
Throw == <<"throw">>

Is(type, v) == v[1] = type
Falsy(v) == v \in {Undef, NullValue, NaN, Num(0), Str("")}
Empty == [k \in {} |-> Undef]
Get(clip, k) == IF k \in DOMAIN clip THEN clip[k] ELSE Undef

Text(v) == IF Is("str", v) THEN v[2] ELSE IF Is("num", v) THEN ToString(v[2]) ELSE v[1]
ParseInputToNumber(v) ==
    IF Is("num", v) THEN v
    ELSE IF Is("str", v) /\ \E n \in 0..99 : ToString(n) = v[2]
    THEN Num(CHOOSE n \in 0..99 : ToString(n) = v[2]) ELSE NaN
Number(v) == IF v = NullValue THEN Num(0) ELSE ParseInputToNumber(v)

\* An element of an array is a clip of the answer, by its number, or an object made on the
\* way; what an array has where it has nothing is Gone.
Shared(i) == [src |-> i, clip |-> Empty]
Made(clip) == [src |-> 0, clip |-> clip]
Gone == [src |-> -1, clip |-> Empty]
At(objects, e) == IF e.src > 0 THEN objects[e.src] ELSE e.clip
Data(objects, e) == IF e = Gone THEN Undef ELSE Obj(At(objects, e))

-----------------------------------------------------------------------------
(* Formulas and verifiers.                                                 *)

\* A missing key ends the walk, a key of null throws.
Variable(data, path) ==
    LET walk[n \in 0..Len(path)] ==
            IF n = 0 THEN IF data = Undef THEN Throw ELSE data
            ELSE LET v == walk[n - 1] IN
                 IF v \in {Undef, Throw} THEN v
                 ELSE IF v = NullValue THEN Throw
                 ELSE IF Is("obj", v) THEN Get(v[2], path[n]) ELSE Undef
    IN walk[Len(path)]

Add(a, b) ==
    IF Is("num", a) /\ Is("num", b) THEN Num(a[2] + b[2])
    ELSE IF Is("str", a) \/ Is("str", b) THEN Str(Text(a) \o Text(b)) ELSE NaN
Arithmetic(op, a, b) ==
    IF ~Is("num", Number(a)) \/ ~Is("num", Number(b)) THEN NaN
    ELSE Num(IF op = "minus" THEN Number(a)[2] - Number(b)[2] ELSE Number(a)[2] * Number(b)[2])

\* A conversion takes its first child for the type and for the value.
Convert(type) ==
    CASE type = Str("INT") -> NaN [] type = Str("FLOAT") -> NaN
      [] type = Str("STRING") -> type [] OTHER -> Throw

Operation(op, parts) ==
    CASE Contains(parts, Throw) -> Throw
      [] op = "add" -> Add(parts[1], parts[2])
      [] op \in {"minus", "multiply"} -> Arithmetic(op, parts[1], parts[2])
      [] op = "concat" ->
            IF Contains(parts, NullValue) \/ Contains(parts, Undef) THEN Throw
            ELSE LET text[n \in 0..Len(parts)] ==
                         IF n = 0 THEN "" ELSE text[n - 1] \o Text(parts[n])
                 IN Str(text[Len(parts)])
      [] op = "convert" -> Convert(parts[1])
      [] OTHER -> Throw

\* Arithmetic hands its children the number the value reads as.  The nodes of a formula are told apart by the way to them from its root.
IASTHelper(formula, data) ==
    LET node[way \in Seq(Nat)] ==
            IF way = <<>> THEN formula ELSE node[Front(way)].children[Last(way)]
        numeric(root) == root.operator \in {"add", "minus", "multiply"}
        handed(way) == IF \E k \in 1..Len(way) : numeric(node[SubSeq(way, 1, k - 1)])
                       THEN ParseInputToNumber(data) ELSE data
        value[way \in Seq(Nat)] ==
            LET root == node[way] d == handed(way) IN
            CASE root.type = "VALUE" -> root.value
              [] root.type = "SELF" -> d
              [] root.type = "MAP" /\ Is("str", d) ->
                    IF d[2] \in DOMAIN root.parameters THEN root.parameters[d[2]] ELSE d
              [] root.type = "VARIABLE" -> Variable(d, root.path)
              [] root.type = "OPERATION" /\ d[1] \in {"num", "str", "nan"} ->
                    Operation(root.operator,
                              [i \in 1..Len(root.children) |-> value[Append(way, i)]])
              [] OTHER -> Throw
    IN value[<<>>]

Compare(op, a, b) ==
    LET x == Number(a) y == Number(b) IN
    /\ Is("num", x) /\ Is("num", y)
    /\ CASE op = "less" -> x[2] < y[2] [] op = "greater" -> x[2] > y[2]
         [] op = "notLess" -> x[2] >= y[2] [] op = "notGreater" -> x[2] <= y[2]

\* Equality reads the given value as a number, inequality takes it as it is.
Verdict(v, verifier) ==
    LET holds == CASE verifier.condition = "equal" -> v = ParseInputToNumber(verifier.value) /\ v # NaN
                   [] verifier.condition = "notEqual" -> v # verifier.value
                   [] verifier.condition = "regex" -> Text(v) \in verifier.matches
                   [] verifier.condition = "same" -> v = verifier.value
                   [] verifier.condition = "notNull" -> v # NullValue
                   [] verifier.condition = "isNull" -> v = NullValue
                   [] OTHER -> Compare(verifier.condition, v, verifier.value)
    IN IF v = Throw \/ (verifier.condition = "regex" /\ v \in {NullValue, Undef}) THEN "throw"
       ELSE IF holds THEN "true" ELSE "false"
ValidValueWithVerifier(data, verifier) == Verdict(IASTHelper(verifier.formula, data), verifier)

-----------------------------------------------------------------------------
(* The operations.  Each takes the objects of the answer and an array.      *)

\* An array of elements, or of arrays of elements; an empty one passes for both.
Array(items, nested) == [items |-> items, nested |-> nested]
Flat(data) == ~data.nested \/ data.items = <<>>
Nested(data) == data.nested \/ data.items = <<>>

\* What transform gives back; `fails` when an element makes it throw.
Gives(items, nested, objects) ==
    [data |-> Array(items, nested), clips |-> objects, fails |-> FALSE]
Fails == [data |-> Array(<<>>, FALSE), clips |-> <<>>, fails |-> TRUE]

\* One result for each item, and all fail when one does.
Each(data, f(_)) == [i \in 1..Len(data.items) |-> f(data.items[i])]
Meets(data, f(_)) == \E i \in 1..Len(data.items) : f(data.items[i])

\* Another walk along a path: a key of null is null.
FindValue(clip, path) ==
    FoldLeft(LAMBDA v, k : IF v \in {Undef, NullValue} THEN v
                           ELSE IF Is("obj", v) THEN Get(v[2], k) ELSE Undef,
             Obj(clip), path)

GroupKey(clip, keys) ==
    FoldLeft(LAMBDA a, k : a \o "|" \o Text(FindValue(clip, k)), "", keys)

Has(objects, e, keys) ==
    \A i \in 1..Len(keys) : e # Gone /\ FindValue(At(objects, e), keys[i]) # Undef

\* The groups in the order in which their keys appear.
Groups(objects, items, keys) ==
    LET key(e) == GroupKey(At(objects, e), keys)
        names == FoldLeft(LAMBDA a, e : IF Contains(a, key(e)) THEN a ELSE Append(a, key(e)),
                          <<>>, items)
    IN [i \in 1..Len(names) |-> SelectSeq(items, LAMBDA e : key(e) = names[i])]

Grouping(objects, data, p) ==
    LET matched == SelectSeq(data.items, LAMBDA e : Has(objects, e, p.keys))
        unmatched == SelectSeq(data.items, LAMBDA e : ~Has(objects, e, p.keys))
        groups == Groups(objects, matched, p.keys)
    IN IF ~Flat(data) THEN Fails
       ELSE Gives(IF p.skip THEN groups
                  ELSE groups \o [i \in 1..Len(unmatched) |-> <<unmatched[i]>>], TRUE, objects)

\* Keys are added, then values converted, then keys removed.
AffineClip(clip, p) ==
    LET added == FoldLeft(LAMBDA c, r : (Text(IASTHelper(r.key, Obj(c))) :>
                                            IASTHelper(r.value, Obj(c))) @@ c, clip, p.added)
    IN [k \in DOMAIN added \ p.removed |->
           IF k \in DOMAIN p.rules THEN IASTHelper(p.rules[k], added[k]) ELSE added[k]]

Affined(objects, data, after) ==
    LET kept == SelectSeq(data.items, LAMBDA e : after[e] # Empty)
        throws(e) == e = Gone \/ \E k \in DOMAIN after[e] : after[e][k] = Throw
    IN IF Meets(data, throws) THEN Fails
       ELSE Gives([j \in 1..Len(kept) |-> IF kept[j].src > 0 THEN kept[j]
                                          ELSE Made(after[kept[j]])], FALSE,
                  [i \in 1..Len(objects) |-> IF Contains(data.items, Shared(i))
                                             THEN after[Shared(i)] ELSE objects[i]])
Affine(objects, data, p) ==
    IF ~Flat(data) THEN Fails
    ELSE Affined(objects, data, [e \in {data.items[i] : i \in 1..Len(data.items)} |->
                                    AffineClip(At(objects, e), p)])

\* The highest scores, or the lowest; none when one of them is not a number.
Best(scores, descend) ==
    LET numbers == {Number(scores[i]) : i \in 1..Len(scores)}
        best(n) == \A m \in numbers : IF descend THEN m[2] <= n[2] ELSE m[2] >= n[2]
    IN IF \E n \in numbers : ~Is("num", n) THEN {}
       ELSE {i \in 1..Len(scores) : Is("num", scores[i]) /\ best(scores[i])}

LeaveOne(objects, data, p) ==
    LET scores(g) == [i \in 1..Len(g) |-> IASTHelper(p.score, Data(objects, g[i]))]
        left(g) == LET b == Best(scores(g), p.descend) IN
                   IF b = {} THEN Gone ELSE g[CHOOSE i \in b : \A j \in b : i <= j]
        throws(g) == Contains(scores(g), Throw)
    IN IF ~Nested(data) \/ Meets(data, throws) THEN Fails
       ELSE Gives(Each(data, left), FALSE, objects)

\* Of a key that several objects of a group have the last wins.
Joined(objects, group) == FoldLeft(LAMBDA o, e : At(objects, e) @@ o, Empty, group)

\* Mutant of Join: the first object of a group takes the keys of the others.
JoinInPlace(objects, data, p) ==
    LET groups == {data.items[i] : i \in 1..Len(data.items)}
        first(j) == {g \in groups : g # <<>> /\ g[1] = Shared(j)}
    IN IF ~Nested(data) THEN Fails
       ELSE Gives([i \in 1..Len(data.items) |-> IF data.items[i] = <<>> THEN Made(Empty)
                                                ELSE data.items[i][1]], FALSE,
                  [j \in 1..Len(objects) |-> IF first(j) = {} THEN objects[j]
                                             ELSE Joined(objects, CHOOSE g \in first(j) : TRUE)])

Join(objects, data, p) ==
    LET joined(g) == Made(Joined(objects, g))
    IN IF ~Nested(data) THEN Fails ELSE Gives(Each(data, joined), FALSE, objects)

\* Values of the given keys are collected; of other keys the first that is truthy is kept.
Concatenated(objects, group, keys) ==
    LET with(k) == SelectSeq(group, LAMBDA e : k \in DOMAIN At(objects, e))
        values(k) == [i \in 1..Len(with(k)) |-> At(objects, with(k)[i])[k]]
        truthy(k) == SelectSeq(values(k), LAMBDA v : ~Falsy(v))
        all == UNION {DOMAIN At(objects, group[i]) : i \in 1..Len(group)}
    IN [k \in all |-> IF k \in keys THEN Arr(values(k))
                      ELSE IF truthy(k) = <<>> THEN Last(values(k)) ELSE truthy(k)[1]]

Concat(objects, data, p) ==
    LET result(g) == Made(Concatenated(objects, g, p.keys))
        throws(g) == Contains(g, Gone)
    IN IF ~Nested(data) \/ Meets(data, throws) THEN Fails
       ELSE Gives(Each(data, result), FALSE, objects)

Elements(v) == IF Is("arr", v) THEN v[2] ELSE <<>>

\* All choices of an element for each key, the last key changing fastest.
CartesianProduct(lists) ==
    FoldLeft(LAMBDA a, b : FlattenSeq([i \in 1..Len(a) |->
                               [j \in 1..Len(b) |-> Append(a[i], b[j])]]), << <<>> >>, lists)

Sequential(lists) ==
    LET most == CHOOSE n \in {Len(lists[i]) : i \in 1..Len(lists)} :
                    \A i \in 1..Len(lists) : Len(lists[i]) <= n
    IN [i \in 1..most |->
           [j \in 1..Len(lists) |-> IF i <= Len(lists[j]) THEN lists[j][i] ELSE Undef]]

CreateDeconcatObject(clip, keys, values) ==
    [k \in {keys[j] : j \in 1..Len(keys)} |-> values[CHOOSE j \in 1..Len(keys) : keys[j] = k]] @@ clip

\* The one operation that does not look at the shape: of an array it makes an empty one.
Deconcat(objects, data, p) ==
    LET clip(e) == At(objects, e)
        lists(e) == [i \in 1..Len(p.keys) |-> Elements(Get(clip(e), p.keys[i]))]
        choices(e) == IF p.combinations THEN CartesianProduct(lists(e)) ELSE Sequential(lists(e))
        apart(e) == [i \in 1..Len(choices(e)) |->
                        Made(CreateDeconcatObject(clip(e), p.keys, choices(e)[i]))]
        throws(e) == \/ e = Gone
                     \/ p.combinations /\ \E i \in 1..Len(p.keys) :
                            LET v == Get(clip(e), p.keys[i]) IN
                            /\ ~Falsy(v) /\ ~Is("arr", v)
                            /\ \A j \in 1..(i - 1) : lists(e)[j] # <<>>
    IN IF ~Flat(data) THEN Gives([i \in 1..Len(data.items) |-> <<>>], TRUE, objects)
       ELSE IF Meets(data, throws) THEN Fails ELSE Gives(Each(data, apart), TRUE, objects)

\* Filters are tried in turn until one holds, its verifiers until one does not.
IsValidItem(objects, filters, e) ==
    LET decided(verdicts, goOn) ==
            LET others == {i \in 1..Len(verdicts) : verdicts[i] # goOn} IN
            IF others = {} THEN goOn ELSE verdicts[CHOOSE i \in others : \A j \in others : i <= j]
        every(f) == decided([i \in 1..Len(f) |-> ValidValueWithVerifier(Data(objects, e), f[i])], "true")
    IN decided([i \in 1..Len(filters) |-> every(filters[i])], "false")

Filter(objects, data, p) ==
    LET verdict(e) == IsValidItem(objects, p.filters, e)
        valid(s) == SelectSeq(s, LAMBDA e : verdict(e) = "true")
        throws(s) == \E i \in 1..Len(s) : verdict(s[i]) = "throw"
    IN IF Flat(data)
       THEN IF throws(data.items) THEN Fails ELSE Gives(valid(data.items), FALSE, objects)
       ELSE IF Meets(data, throws) THEN Fails ELSE Gives(Each(data, valid), TRUE, objects)

Sized(objects, items) ==
    IF \E i \in 1..Len(items) : \E k \in DOMAIN items[i] : items[i][k] = Throw THEN Fails
    ELSE Gives([i \in 1..Len(items) |-> Made(items[i])], FALSE, objects)
Count(objects, data, p) ==
    LET first(g) == IF g = <<>> THEN Undef ELSE Data(objects, g[1])
        item(g) == FoldLeft(LAMBDA c, r : (Text(IASTHelper(r.key, first(g))) :>
                                              IASTHelper(r.value, first(g))) @@ c,
                            "count" :> Num(Len(g)), p.added)
    IN IF ~Nested(data) THEN Fails ELSE Sized(objects, Each(data, item))

\* Keys the clip lacks are in the new objects too, undefined.
Degroup(objects, data, p) ==
    LET part(e, keys) == Made([k \in p.shared \cup keys |-> Get(At(objects, e), k)])
        parts(e) == [i \in 1..Len(p.targets) |-> part(e, p.targets[i])]
        throws(e) == e = Gone
    IN IF ~Flat(data) \/ Meets(data, throws) THEN Fails
       ELSE Gives(Each(data, parts), TRUE, objects)

\* With keepFlattened the keys of the clip are kept, not those of the object in it.
FlattenItem(objects, e, p) ==
    LET clip == At(objects, e)
        v == Get(clip, p.key)
        flat == IF p.keepFlattened THEN clip @@ v[2] ELSE v[2] @@ clip
    IN IF ~Is("obj", v) THEN e
       ELSE Made([k \in DOMAIN flat \ (IF p.keepKey THEN {} ELSE {p.key}) |-> flat[k]])

Flatten(objects, data, p) ==
    LET flat(s) == [i \in 1..Len(s) |-> FlattenItem(objects, s[i], p)]
        throws(s) == Contains(s, Gone)
    IN IF Flat(data)
       THEN IF throws(data.items) THEN Fails ELSE Gives(flat(data.items), FALSE, objects)
       ELSE IF Meets(data, throws) THEN Fails ELSE Gives(Each(data, flat), TRUE, objects)

-----------------------------------------------------------------------------
(* Pipelines.                                                              *)

TransformationRegistry(op, objects, data) ==
    CASE op.name = "GROUP" -> Grouping(objects, data, op)
      [] op.name = "AFFINE" -> Affine(objects, data, op)
      [] op.name = "LEAVEONE" -> LeaveOne(objects, data, op)
      [] op.name = "CONCAT" -> Concat(objects, data, op)
      [] op.name = "DECONCAT" -> Deconcat(objects, data, op)
      [] op.name = "JOIN" -> Join(objects, data, op)
      [] op.name = "DEGROUP" -> Degroup(objects, data, op)
      [] op.name = "FILTER" -> Filter(objects, data, op)
      [] op.name = "FLATTEN" -> Flatten(objects, data, op)
      [] op.name = "COUNT" -> Count(objects, data, op)
      [] OTHER -> Fails

Lookup(path) == [type |-> "VARIABLE", path |-> path]
Verify(path, condition) == <<[formula |-> Lookup(path), condition |-> condition, value |-> NullValue]>>

\* The pipeline that leaves of clips with the same keys the latest, when it is not a deletion.
GenVersioningAggregation(keys, hasVersioning) ==
    (IF hasVersioning THEN <<>>
     ELSE <<[name |-> "FILTER", filters |-> <<Verify(<<"dataVersion">>, "notNull")>>]>>) \o
    (IF keys = <<>> THEN <<>>
     ELSE <<[name |-> "GROUP", keys |-> keys, skip |-> FALSE],
            [name |-> "LEAVEONE", score |-> Lookup(<<"life", "createdTime">>), descend |-> TRUE],
            [name |-> "FILTER", filters |-> <<Verify(<<"life", "deletedTime">>, "isNull")>>]>>)

Answered(n) == [i \in 1..n |-> Shared(i)]

Init ==
    /\ plan \in Plans /\ given \in Inputs
    /\ clips = given
    /\ todo = IF plan = <<>> THEN <<>> ELSE plan[1]
    /\ current = Array(Answered(Len(given)), FALSE)
    /\ results = <<>>
    /\ refused = FALSE

\* One operation of the pipeline under way; a throw ends the request.
TransformationCompose ==
    /\ ~refused /\ todo # <<>>
    /\ LET r == TransformationRegistry(todo[1], clips, current) IN
       IF r.fails THEN refused' = TRUE /\ UNCHANGED <<clips, todo, current>>
       ELSE /\ current' = r.data /\ clips' = r.clips /\ todo' = Tail(todo)
            /\ UNCHANGED refused
    /\ UNCHANGED <<plan, given, results>>

\* A pipeline has ended: the next one starts from the answer.
TransformationAggregate ==
    /\ ~refused /\ todo = <<>> /\ Len(results) < Len(plan)
    /\ results' = Append(results, current)
    /\ todo' = IF Len(results') < Len(plan) THEN plan[Len(results') + 1] ELSE <<>>
    /\ current' = Array(Answered(Len(given)), FALSE)
    /\ UNCHANGED <<plan, given, clips, refused>>

Next == TransformationCompose \/ TransformationAggregate

Spec == Init /\ [][Next]_aggregation

-----------------------------------------------------------------------------

TypeOK ==
    /\ plan \in Plans /\ given \in Inputs
    /\ Len(clips) = Len(given)
    /\ Len(results) <= Len(plan)
    /\ refused \in BOOLEAN

Affects(pipeline) == \E i \in 1..Len(pipeline) : pipeline[i].name = "AFFINE"
Undisturbed(i) == \A j \in 1..Len(plan) : j # i => ~Affects(plan[j])

Content(objects, data) ==
    [i \in 1..Len(data.items) |->
        IF data.nested THEN [j \in 1..Len(data.items[i]) |-> Data(objects, data.items[i][j])]
        ELSE Data(objects, data.items[i])]

\* What a pipeline makes of the answer, operation by operation, when it is the only one.
Course(pipeline) ==
    LET made[n \in 0..Len(pipeline)] ==
            IF n = 0 THEN Gives(Answered(Len(given)), FALSE, given)
            ELSE LET r == made[n - 1] IN
                 IF r.fails THEN r ELSE TransformationRegistry(pipeline[n], r.clips, r.data)
    IN made
Alone(pipeline) == Course(pipeline)[Len(pipeline)]

\* Pipelines share the objects of the answer: what one makes depends on another only through
\* AFFINE, the operation that changes them.
PipelinesApart ==
    \A i \in 1..Len(results) : Undisturbed(i) =>
        LET alone == Alone(plan[i]) IN
        ~alone.fails /\ Content(clips, results[i]) = Content(alone.clips, alone.data)

\* genVersioningAggregation puts together what the query of getDataByRoles does in the database:
\* of the clips with the same keys, counting unversioned ones or not, the latest unless deleted.
VersioningIsLatest ==
    \A i \in 1..Len(results), keys \in {<<>>} \cup {plan[j][1].keys : j \in
            {k \in 1..Len(plan) : plan[k] # <<>> /\ "keys" \in DOMAIN plan[k][1]}},
       all \in BOOLEAN :
        Undisturbed(i) /\ keys # <<>> /\ plan[i] = GenVersioningAggregation(keys, all) =>
            LET counts(j) == all \/ Get(given[j], "dataVersion") # NullValue
                key(j) == [k \in 1..Len(keys) |-> FindValue(given[j], keys[k])]
                time(j) == given[j]["life"][2]["createdTime"][2]
                later(k, j) == time(k) > time(j) \/ (time(k) = time(j) /\ k < j)
            IN {e.src : e \in {results[i].items[j] : j \in 1..Len(results[i].items)}} =
                  {j \in 1..Len(given) :
                      /\ counts(j) /\ given[j]["life"][2]["deletedTime"] = NullValue
                      /\ \A k \in 1..Len(given) :
                            counts(k) /\ key(k) = key(j) /\ Undef \notin {key(j)[n] : n \in 1..Len(keys)}
                                => ~later(k, j)}

\* Nothing is lost where the operations say so: counts add up to the clips that were grouped,
\* values collected by CONCAT come back in order, parts made by DEGROUP join to the clip.
NothingLost ==
    \A i \in 1..Len(results) : Undisturbed(i) =>
        LET p == plan[i]
            names == [j \in 1..Len(p) |-> p[j].name]
            made == Content(clips, results[i])
        IN /\ names = <<"GROUP", "COUNT">> /\ ~p[1].skip =>
                 FoldLeft(LAMBDA a, c : a + c[2]["count"][2], 0, made) = Len(given)
           /\ names = <<"GROUP", "CONCAT", "DECONCAT">> /\ ~p[3].combinations =>
                 LET groups == Grouping(given, Array(Answered(Len(given)), FALSE), p[1]).data.items
                 IN \A g \in 1..Len(groups), n \in 1..Len(p[3].keys) :
                       LET k == p[3].keys[n] IN
                       k \in p[2].keys /\ (\A j \in 1..Len(groups[g]) : k \in DOMAIN At(given, groups[g][j])) =>
                           [j \in 1..Len(made[g]) |-> made[g][j][2][k]] =
                               [j \in 1..Len(groups[g]) |-> At(given, groups[g][j])[k]]
           /\ names = <<"DEGROUP", "JOIN">> =>
                 made = [j \in 1..Len(given) |->
                            Obj([k \in p[1].shared \cup UNION ToSet(p[1].targets) |-> Get(given[j], k)])]

\* All of it: what an aggregation answers is what it says (transformationCompose).
AggregationsRight == PipelinesApart /\ VersioningIsLatest /\ NothingLost
=============================================================================
