---------------------------- MODULE MCOptimizer ----------------------------
(***************************************************************************)
(* A finite instance of Optimizer for TLC: tables of up to three rows in   *)
(* any order of their keys, and queries with every kind of predicate.      *)
(***************************************************************************)
EXTENDS Optimizer

\* Two of the three keys share the value of the second column.
ModelTables ==
    LET value == <<2, 1, 2>>
    IN  {[i \in DOMAIN keys |-> <<keys[i], value[keys[i]]>>] :
            keys \in {s \in SeqOf(1 .. 3, 3) : IsInjective(s)}}

Num(n) == Const(Integer(n))
Compare(op, l, r) == Operation("comparison", op, <<l, r>>)
Logic(op, l, r) == Operation("logical", op, <<l, r>>)
Calc(op, l, r) == Operation("arithmetic", op, <<l, r>>)
Not(e) == Operation("logical", "not", <<e>>)

True == Compare("=", Num(1), Num(1))
False == Compare("<>", Num(1), Num(1))

Comparisons ==
    {Compare(op, Column(c), Num(2)) : op \in {"=", "<>", "<", "<=", ">", ">="}, c \in {0, 1}}

ModelPredicates ==
    LET key == Compare(">", Column(0), Num(1))
        value == Compare("=", Column(1), Num(2))
        sum == Calc("%", Calc("-", Calc("*", Calc("+", Num(1), Num(1)), Num(3)), Num(1)), Num(3))
        unknown == Compare("=", Column(0), Const(Null))
    IN  Comparisons
        \cup {Compare("=", Column(0), sum),
              Compare("=", Column(0), Calc("/", Num(1), Num(0))),
              Compare("<", Num(2), Column(0)),
              unknown, Not(Logic("and", False, unknown)), Logic("or", value, Const(Null)),
              Not(key), Logic("and", key, value), Logic("or", Not(value), key)}
        \cup {Logic(op, e, key) : op \in {"and", "or"}, e \in {True, False}}
        \cup {Logic(op, value, e) : op \in {"and", "or"}, e \in {True, False}}

ModelProjections == {<<Column(0), Column(1)>>, <<Column(1), Column(0)>>, <<Column(1)>>}

By(c, asc) == [column |-> c, asc |-> asc]

ModelOrders == {<<By(0, TRUE)>>, <<By(0, FALSE)>>, <<By(1, TRUE)>>, <<By(1, FALSE), By(0, TRUE)>>}
=============================================================================
