--------------------------- MODULE ExpressionChecks ---------------------------
(***************************************************************************)
(* What the linter, the evaluator and the resolution of references promise *)
(* each other, over every short expression, tree and path of a small       *)
(* vocabulary.  TLC evaluates the assumptions.                             *)
(***************************************************************************)
LOCAL INSTANCE Expressions

literal == <<"literal", Num(1)>>
Word(path) == <<"word", path>>
Mark(kind) == <<kind, "">>
Op(op) == <<"cmp", op>>

(***************************************************************************)
(* The grammar in the comment of src/src/bpg/runtime/expr.py, as the sets  *)
(* of expressions of each length.                                          *)
(***************************************************************************)
MaxLength == 6
names == {Word(<<"n", "out">>), Word(<<"is_null">>), Word(<<"other">>)}
Token == names \cup {literal, Op("<")}
               \cup {Mark(k) : k \in {"(", ")", "!", "&&", "||"}}

RECURSIVE Expr(_), Prims(_), Nots(_), Ands(_)
Cat(S, T) == {s \o t : s \in S, t \in T}
Joined(S(_), T(_), mark, n) ==
    UNION {Cat(S(i), Cat({<<mark>>}, T(n - 1 - i))) : i \in 1..(n - 2)}
Prims(n) ==
    IF n < 1 THEN {}
    ELSE IF n = 1 THEN {<<t>> : t \in names \cup {literal}}
    ELSE Cat({<<Mark("(")>>}, Cat(Expr(n - 2), {<<Mark(")")>>}))
         \cup Cat({<<Word(<<"is_null">>), Mark("(")>>}, Cat(Prims(n - 3), {<<Mark(")")>>}))
Cmps(n) == Prims(n) \cup Joined(Prims, Prims, Op("<"), n)
Nots(n) == IF n < 1 THEN {}
                 ELSE Cmps(n) \cup Cat({<<Mark("!")>>}, Nots(n - 1))
Ands(n) == IF n < 1 THEN {} ELSE Nots(n) \cup Joined(Nots, Ands, Mark("&&"), n)
Expr(n) == IF n < 1 THEN {} ELSE Ands(n) \cup Joined(Ands, Expr, Mark("||"), n)
Grammar == UNION {Expr(n) : n \in 1..MaxLength}

Short == UNION {[1..n -> Token] : n \in 0..5}
context == [trigger |-> "t", state |-> [input |-> << >>,
                    outputs |-> [n |-> Dict([f |-> Num(1), g |-> Str(1), h |-> Null])]]]

\* The linter accepts what the grammar derives and nothing else.
LintIsGrammar == /\ \A s \in Grammar : Lint(s)
                 /\ \A s \in Short : Lint(s) <=> s \in Grammar
ASSUME LintIsGrammar

\* What the linter accepted never fails to parse at run time, and what it refuses never
\* evaluates to a value: the two parsers agree.
ParsersAgree ==
    /\ \A s \in Grammar : EvalWhen(s, context) # SyntaxError
    /\ \A s \in Short : ~Lint(s) => Failed(EvalWhen(s, context))
ASSUME ParsersAgree

(***************************************************************************)
(* Trees: <<op, left, right>>, or a token for a leaf.                      *)
(***************************************************************************)
leaf == {literal, Word(<<"n", "out", "g">>), Word(<<"n", "out", "h">>),
               Word(<<"skipped", "out", "f">>)}
Tree1 == {<<op, x, y>> : op \in {"&&", "||", "==", "<"}, x \in leaf, y \in leaf}
               \cup {<<"!", x, x>> : x \in leaf} \cup {<<"is_present", x, x>> : x \in leaf}
IsLeaf(x) == x[1] \in {"literal", "word"}

RECURSIVE Printed(_), Meaning(_)
Around(s) == <<Mark("(")>> \o s \o <<Mark(")")>>
Printed(x) ==
    IF IsLeaf(x) THEN <<x>>
    ELSE CASE x[1] = "!" -> Around(<<Mark("!")>> \o Printed(x[2]))
           [] x[1] = "is_present" -> Around(<<Word(<<x[1]>>)>> \o Around(Printed(x[2])))
           [] x[1] \in {"==", "<"} -> Around(Printed(x[2]) \o <<Op(x[1])>> \o Printed(x[3]))
           [] OTHER -> Around(Printed(x[2]) \o <<Mark(x[1])>> \o Printed(x[3]))
Meaning(x) ==
    IF IsLeaf(x)
    THEN IF x[1] = "literal" THEN x[2] ELSE ResolvePath(x[2], context.state, "t")
    ELSE LET l == Meaning(x[2])
             r == Meaning(x[3])
         IN IF DataError \in {l, r} THEN DataError
            ELSE CASE x[1] = "&&" -> Bool(Truthy(l) /\ Truthy(r))
                   [] x[1] = "||" -> Bool(Truthy(l) \/ Truthy(r))
                   [] x[1] = "!" -> Bool(~Truthy(l))
                   [] x[1] = "is_present" -> Bool(l # Null)
                   [] OTHER -> Compare(x[1], l, r)
Outcome(v) == IF Failed(v) THEN v ELSE Bool(Truthy(v))

\* A condition means what its tree means, and it fails as soon as any of its paths does:
\* neither && nor || nor is_present shields the reader of a node that did not run.
ValueIsStrict ==
    /\ \A x \in Tree1 : EvalWhen(Printed(x), context) = Outcome(Meaning(x))
    /\ \A x \in Tree1, y \in leaf, op \in {"&&", "||", "=="} :
          LET z == <<op, y, x>> IN EvalWhen(Printed(z), context) = Outcome(Meaning(z))
ASSUME ValueIsStrict

\* The marks bind as the grammar says, without parentheses.
Precedence ==
    \A x, y, z \in leaf :
        LET Means(s, tree) == EvalWhen(s, context) = Outcome(Meaning(tree)) IN
        /\ Means(<<x, Mark("||"), y, Mark("&&"), z>>, <<"||", x, <<"&&", y, z>>>>)
        /\ Means(<<x, Mark("&&"), y, Mark("||"), z>>, <<"||", <<"&&", x, y>>, z>>)
        /\ Means(<<Mark("!"), x, Op("=="), y, Mark("&&"), z>>,
                 <<"&&", <<"!", <<"==", x, y>>, x>>, z>>)
ASSUME Precedence

(***************************************************************************)
(* References.                                                             *)
(***************************************************************************)
paths == UNION {[1..n -> {"trigger", "n", "in", "out", "f", "g"}] : n \in 2..3}
types == [t |-> [in |-> {"f"}, out |-> {"f"}], n |-> [in |-> {}, out |-> {"f", "g"}]]
Values == {Null, Num(0), Num(1), Str(1)}
Outputs(fields) == {Dict(v) : v \in UNION {[S -> Values] : S \in SUBSET fields}}
Contexts == {[trigger |-> "t", state |-> [input |-> [f |-> Num(1)], outputs |-> [t |-> a, n |-> b]]] :
                     a \in Outputs(types.t.out), b \in Outputs(types.n.out)}

\* A reference that validation accepts resolves once every node has an output of its
\* type: an output reference always, a mapping's unless it reads the input of a node other
\* than the trigger, or a segment that validation does not look at.
AcceptedRefsResolve ==
    \A c \in Contexts, p \in paths :
        LET Fails == Failed(ResolvePath(p, c.state, c.trigger)) IN
        /\ OutputRefValid(p, types, "t") => ~Fails
        /\ MappingRefValid(p, types, "t") =>
              (Fails <=> p[2] # "out" /\ ~(p[1] = "trigger" /\ p[2] = "in"))
ASSUME AcceptedRefsResolve

mappings == UNION {[S -> {[form |-> "ref", value |-> <<"n", "out", f>>] : f \in {"f", "g"}}
                               \cup {[form |-> "plain", value |-> v] : v \in {"true", "false"}}] :
                         S \in SUBSET {"x", "y"}}

\* The input of a node does not depend on the order of the edges that fire, and two edges
\* that set a field differently never both have their way.
MergeIsOrderless ==
    \A p, q \in mappings :
        LET m == Merge(<<p, q>>, context)
            left == ResolveMapping(p, context)
            right == ResolveMapping(q, context)
        IN  /\ m = Merge(<<q, p>>, context)
            /\ m = Conflict <=> \E k \in DOMAIN p \cap DOMAIN q : left[k] # right[k]
            /\ m # Conflict => /\ DOMAIN m[2] = DOMAIN p \cup DOMAIN q
                               /\ \A k \in DOMAIN p : m[2][k] = left[k]
ASSUME MergeIsOrderless
=============================================================================
