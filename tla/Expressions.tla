----------------------------- MODULE Expressions -----------------------------
(***************************************************************************)
(* The when conditions and the mappings of edges: the linter's grammar     *)
(* (src/src/bpg/compiler/expr_lint.py), the evaluator that parses again at *)
(* run time and computes as it goes (src/src/bpg/runtime/expr.py), the     *)
(* resolution of mappings and the static check of the references in them   *)
(* (src/src/bpg/compiler/validator.py).                                    *)
(*                                                                         *)
(* An expression is a sequence of tokens <<kind, payload>>: the kind is a  *)
(* literal's, "word", "cmp", "(" and so on; the payload of a word is the   *)
(* sequence of its segments, a path's or a function's name.  A state is    *)
(* [input |-> fields, outputs |-> node -> value], and a value is a tagged  *)
(* tuple: strings are numbered in the order they sort, 0 the empty one,    *)
(* and true and false are the numbers 1 and 0, as they are in Python.      *)
(***************************************************************************)
EXTENDS Naturals, SequencesExt

Null == <<"null">>
Num(n) == <<"num", n>>
Str(n) == <<"str", n>>
Dict(fields) == <<"dict", fields>>
List(items) == <<"list", items>>
Bool(b) == Num(IF b THEN 1 ELSE 0)

SyntaxError == <<"syntax">>
DataError == <<"data">>
Failed(v) == v \in {SyntaxError, DataError}

Truthy(v) == CASE v[1] = "null" -> FALSE
               [] v[1] \in {"dict", "list", "text"} -> DOMAIN v[2] # {}
               [] v[1] \in {"num", "str", "bool"} -> v[2] # 0
               [] OTHER -> TRUE

(***************************************************************************)
(* Paths: trigger.in and <node>.out, and fields of either.                 *)
(***************************************************************************)
Index(v, fields) ==
    FoldLeft(LAMBDA x, f : IF Failed(x) \/ x[1] # "dict" THEN DataError
                           ELSE IF f \in DOMAIN x[2] THEN x[2][f] ELSE Null, v, fields)

ResolvePath(path, state, trigger) ==
    IF Len(path) < 2 THEN DataError
    ELSE LET node == IF path[1] = "trigger" THEN trigger ELSE path[1]
             fields == SubSeq(path, 3, Len(path))
         IN IF path[1] = "trigger" /\ path[2] = "in" THEN Index(Dict(state.input), fields)
            ELSE IF path[2] = "out" /\ node \in DOMAIN state.outputs
            THEN Index(state.outputs[node], fields)
            ELSE DataError

(***************************************************************************)
(* The linter.  A rule maps the position it starts at to the one behind    *)
(* what it consumed, or to Reject.                                         *)
(***************************************************************************)
Reject == 0
Functions == {<<"is_null">>, <<"is_present">>}
Is(ts, p, kind) == p \in DOMAIN ts /\ ts[p][1] = kind

RECURSIVE LintOr(_, _), LintPrimary(_, _), LintNot(_, _), LintAnd(_, _)

Closed(ts, p) == IF p # Reject /\ Is(ts, p, ")") THEN p + 1 ELSE Reject

LintPrimary(ts, p) ==
    IF Is(ts, p, "(") THEN Closed(ts, LintOr(ts, p + 1))
    ELSE IF Is(ts, p, "literal") THEN p + 1
    ELSE IF ~Is(ts, p, "word") THEN Reject
    ELSE IF ~Is(ts, p + 1, "(") THEN p + 1
    ELSE IF ts[p][2] \in Functions THEN Closed(ts, LintPrimary(ts, p + 2))
    ELSE Reject

LintCmp(ts, p) ==
    LET q == LintPrimary(ts, p) IN
    IF q # Reject /\ Is(ts, q, "cmp") THEN LintPrimary(ts, q + 1) ELSE q

LintNot(ts, p) == IF Is(ts, p, "!") THEN LintNot(ts, p + 1) ELSE LintCmp(ts, p)

LintAnd(ts, p) ==
    LET q == LintNot(ts, p) IN
    IF q # Reject /\ Is(ts, q, "&&") THEN LintAnd(ts, q + 1) ELSE q

LintOr(ts, p) ==
    LET q == LintAnd(ts, p) IN
    IF q # Reject /\ Is(ts, q, "||") THEN LintOr(ts, q + 1) ELSE q

Lint(ts) == ts # << >> /\ LintOr(ts, 1) = Len(ts) + 1

(***************************************************************************)
(* The evaluator.  A rule gives <<position, value>>; an error ends it, and *)
(* its position does not matter.  c is the context: [state, trigger].      *)
(***************************************************************************)
Raise(error) == <<0, error>>

Compare(op, l, r) ==
    CASE op = "==" -> Bool(l = r)
      [] op = "!=" -> Bool(l # r)
      [] OTHER ->
         IF l[1] # r[1] \/ l[1] \notin {"num", "str"} THEN DataError
         ELSE Bool(CASE op = "<" -> l[2] < r[2] [] op = "<=" -> l[2] <= r[2]
                     [] op = ">" -> l[2] > r[2] [] op = ">=" -> l[2] >= r[2])

RECURSIVE Or(_, _, _), Primary(_, _, _), Not(_, _, _), And(_, _, _)

\* A closing parenthesis is expected behind the result r.
Close(ts, r) == IF Failed(r[2]) THEN r
                ELSE IF Is(ts, r[1], ")") THEN <<r[1] + 1, r[2]>> ELSE Raise(SyntaxError)

Call(name, r) ==
    IF Failed(r[2]) THEN r
    ELSE CASE name = <<"is_null">> -> <<r[1], Bool(r[2] = Null)>>
           [] name = <<"is_present">> -> <<r[1], Bool(r[2] # Null)>>
           [] OTHER -> Raise(SyntaxError)

Primary(ts, p, c) ==
    CASE Is(ts, p, "(") -> Close(ts, Or(ts, p + 1, c))
      [] Is(ts, p, "literal") -> <<p + 1, ts[p][2]>>
      [] Is(ts, p, "word") /\ Is(ts, p + 1, "(") ->
            Call(ts[p][2], Close(ts, Primary(ts, p + 2, c)))
      [] Is(ts, p, "word") /\ ~Is(ts, p + 1, "(") ->
            <<p + 1, ResolvePath(ts[p][2], c.state, c.trigger)>>
      [] OTHER -> Raise(SyntaxError)

Cmp(ts, p, c) ==
    LET l == Primary(ts, p, c) IN
    IF Failed(l[2]) \/ ~Is(ts, l[1], "cmp") THEN l
    ELSE LET r == Primary(ts, l[1] + 1, c) IN
         IF Failed(r[2]) THEN r ELSE <<r[1], Compare(ts[l[1]][2], l[2], r[2])>>

Not(ts, p, c) ==
    IF ~Is(ts, p, "!") THEN Cmp(ts, p, c)
    ELSE LET r == Not(ts, p + 1, c) IN
         IF Failed(r[2]) THEN r ELSE <<r[1], Bool(~Truthy(r[2]))>>

\* Both sides are evaluated, whatever the first one gives.
And(ts, p, c) ==
    LET l == Not(ts, p, c) IN
    IF Failed(l[2]) \/ ~Is(ts, l[1], "&&") THEN l
    ELSE LET r == And(ts, l[1] + 1, c) IN
         IF Failed(r[2]) THEN r ELSE <<r[1], Bool(Truthy(l[2]) /\ Truthy(r[2]))>>

Or(ts, p, c) ==
    LET l == And(ts, p, c) IN
    IF Failed(l[2]) \/ ~Is(ts, l[1], "||") THEN l
    ELSE LET r == Or(ts, l[1] + 1, c) IN
         IF Failed(r[2]) THEN r ELSE <<r[1], Bool(Truthy(l[2]) \/ Truthy(r[2]))>>

\* TRUE, FALSE or an error.
EvalWhen(ts, c) ==
    LET r == Or(ts, 1, c) IN
    IF Failed(r[2]) THEN r[2]
    ELSE IF r[1] = Len(ts) + 1 THEN Bool(Truthy(r[2])) ELSE SyntaxError

(***************************************************************************)
(* Mappings.  A raw value is [form |-> "value"] for what YAML reads as     *)
(* anything but a string, "template" for a string with {{ }}, "ref" for    *)
(* one that looks like a path and "plain" for any other.                   *)
(***************************************************************************)
\* The words true and false, a number, or a string.
Coerce(plain) == CASE plain = "true" -> Bool(TRUE)
                   [] plain = "false" -> Bool(FALSE)
                   [] OTHER -> plain

\* What is null vanishes from the text around it.
Interpolate(parts, c) ==
    LET piece == [i \in DOMAIN parts |->
                    IF parts[i][1] = "path" THEN ResolvePath(parts[i][2], c.state, c.trigger)
                    ELSE parts[i]]
    IN IF \E i \in DOMAIN piece : Failed(piece[i]) THEN DataError
       ELSE <<"text", SelectSeq(piece, LAMBDA x : x # Null)>>

ResolveValue(raw, c) ==
    CASE raw.form = "value" -> raw.value
      [] raw.form = "template" -> Interpolate(raw.value, c)
      [] raw.form = "ref" -> ResolvePath(raw.value, c.state, c.trigger)
      [] raw.form = "plain" -> Coerce(raw.value)

ResolveMapping(mapping, c) == [k \in DOMAIN mapping |-> ResolveValue(mapping[k], c)]

Conflict == <<"conflict">>

\* The input of a node: the mappings of its firing edges, one after the other.
Merge(mappings, c) ==
    FoldLeft(LAMBDA input, m :
                LET part == ResolveMapping(m, c) IN
                CASE input \in {Conflict, DataError} -> input
                  [] \E k \in DOMAIN part : Failed(part[k]) -> DataError
                  [] \E k \in DOMAIN part \cap DOMAIN input[2] : part[k] # input[2][k] -> Conflict
                  [] OTHER -> Dict(part @@ input[2]),
             Dict(<< >>), mappings)

(***************************************************************************)
(* The static checks.  types[n] = [in, out], the fields of a node's types, *)
(* no fields for a type that is not an object of declared ones.            *)
(***************************************************************************)
Target(path, trigger) == IF path[1] = "trigger" THEN trigger ELSE path[1]
Declared(fields, path) == Len(path) < 3 \/ fields = {} \/ path[3] \in fields

MappingRefValid(path, types, trigger) ==
    LET node == Target(path, trigger) IN
    /\ node \in DOMAIN types
    /\ path[2] \in {"in", "out"} => Declared(types[node][path[2]], path)

OutputRefValid(path, types, trigger) ==
    LET node == Target(path, trigger) IN
    /\ node \in DOMAIN types
    /\ path[2] = "out"
    /\ Declared(types[node].out, path)
=============================================================================
