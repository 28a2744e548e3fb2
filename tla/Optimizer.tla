----------------------------- MODULE Optimizer -----------------------------
(***************************************************************************)
(* The optimizer (src/src/optimizer) on queries over one table, and the    *)
(* executors that run its plans (src/src/executor).  RuleExecutor rewrites *)
(* the plan of the planner node by node, from the scan up, with every rule *)
(* at every node; a step of this module is one rule at one node, so that   *)
(* the plan between any two rewrites can be run and compared with the plan *)
(* the planner made.  A rule calls itself on the children of its node too, *)
(* where it has been before and finds nothing new.                         *)
(*                                                                         *)
(* Without joins a plan is a chain, kept from its root to its scan:        *)
(* LIMIT, ORDER_BY, PROJECTION, FILTER, SEQ_SCAN, where all but PROJECTION *)
(* and SEQ_SCAN are optional.  The rules for joins do nothing here, and    *)
(* are left out, as is aggregation.                                        *)
(*                                                                         *)
(* Columns are integers, as the first column, the key of the index, has to *)
(* be.  The index is in step with the heap (Statements is about that).     *)
(***************************************************************************)
EXTENDS Integers, Sequences, FiniteSets, SequencesExt

CONSTANTS
    Width,          \* number of columns of the table
    Table,          \* the contents of a table, as sequences of rows in the order of the heap
    Predicate,      \* the expressions of WHERE clauses
    Projection,     \* the expression lists of SELECT clauses
    Order,          \* the lists of ORDER BY clauses
    Count           \* the numbers of LIMIT and OFFSET clauses

ASSUME OptimizerAssumption ==
    /\ Width \in Nat \ {0} /\ Count \subseteq Nat
    /\ \A t \in Table : \A i, j \in DOMAIN t : t[i][1] = t[j][1] => i = j

VARIABLES
    heap,       \* the rows of the table
    planned,    \* the plan as the planner made it
    plan,       \* the plan as it has been rewritten
    pos,        \* the node RuleExecutor::optimize is at, 0 when it has returned
    rule        \* the rule it applies next

vars == <<heap, planned, plan, pos, rule>>

(***************************************************************************)
(* Values and expressions.  A value is a type with a number.               *)
(***************************************************************************)
Integer(n) == <<"int", n>>
Boolean(b) == <<"bool", IF b THEN 1 ELSE 0>>
Null == <<"null", 0>>
Error == <<"error", 0>>     \* evaluate throws
Absent == <<"absent", 0>>   \* no expression

Const(v) == [kind |-> "const", op |-> "", value |-> v, args |-> <<>>]
Column(i) == [kind |-> "column", op |-> "", value |-> Integer(i), args |-> <<>>]
Operation(kind, op, args) == [kind |-> kind, op |-> op, value |-> Null, args |-> args]

\* The operands of arithmetic and comparisons are integers, none of them negative.
Arithmetic(op, x, y) ==
    IF op \in {"/", "%"} /\ y[2] = 0 THEN Error
    ELSE Integer(CASE op = "+" -> x[2] + y[2]
                   [] op = "-" -> x[2] - y[2]
                   [] op = "*" -> x[2] * y[2]
                   [] op = "/" -> x[2] \div y[2]
                   [] op = "%" -> x[2] % y[2])

Comparison(op, x, y) ==
    Boolean(CASE op = "=" -> x[2] = y[2]
              [] op = "<>" -> x[2] # y[2]
              [] op = "<" -> x[2] < y[2]
              [] op = "<=" -> x[2] <= y[2]
              [] op = ">" -> x[2] > y[2]
              [] op = ">=" -> x[2] >= y[2])

\* LogicalExpression: NOT has one operand.  Both operands are evaluated, and NULL
\* is the result whatever the other one is.
Logical(op, vs) ==
    Boolean(CASE op = "not" -> vs[1][2] = 0
              [] op = "and" -> vs[1][2] = 1 /\ vs[2][2] = 1
              [] op = "or" -> vs[1][2] = 1 \/ vs[2][2] = 1)

\* An exception of an operand is one of the expression, and NULL goes up likewise.
RECURSIVE Evaluate(_, _)
Evaluate(e, row) ==
    LET vs == [i \in DOMAIN e.args |-> Evaluate(e.args[i], row)]
    IN  CASE e.kind = "const" -> e.value
          [] e.kind = "column" -> IF e.value[2] < Len(row) THEN Integer(row[e.value[2] + 1]) ELSE Error
          [] OTHER -> IF Error \in Range(vs) THEN Error
                      ELSE IF Null \in Range(vs) THEN Null
                      ELSE CASE e.kind = "arithmetic" -> Arithmetic(e.op, vs[1], vs[2])
                             [] e.kind = "comparison" -> Comparison(e.op, vs[1], vs[2])
                             [] e.kind = "logical" -> Logical(e.op, vs)

RECURSIVE Columns(_)
Columns(e) ==
    IF e.kind = "column" THEN {e.value[2]} ELSE UNION {Columns(e.args[i]) : i \in DOMAIN e.args}

(***************************************************************************)
(* Plans.  A node has the fields of all types; pred and limits may be      *)
(* absent.  columns is the output schema of a scan, which the executors do *)
(* not look at: they read the rows with the schema of the table.           *)
(***************************************************************************)
NoPredicate == Const(Absent)

Node(type) ==
    [type |-> type, pred |-> NoPredicate, exprs |-> <<>>, order |-> <<>>,
     limit |-> Absent, offset |-> Absent, columns |-> <<>>]

AllColumns == [i \in 1 .. Width |-> i - 1]

\* planSelect.
PlanSelect(where, select, order, limit, offset) ==
    (IF limit = Absent /\ offset = Absent THEN <<>>
        ELSE <<[Node("LIMIT") EXCEPT !.limit = limit, !.offset = offset]>>)
    \o (IF order = <<>> THEN <<>> ELSE <<[Node("ORDER_BY") EXCEPT !.order = order]>>)
    \o <<[Node("PROJECTION") EXCEPT !.exprs = select]>>
    \o (IF where = NoPredicate THEN <<>> ELSE <<[Node("FILTER") EXCEPT !.pred = where]>>)
    \o <<[Node("SEQ_SCAN") EXCEPT !.columns = AllColumns]>>

(***************************************************************************)
(* Execution.  An outcome is the rows an executor returns, or the          *)
(* exception it ends with.  TopKExecutor leaves the order of rows with the *)
(* same sort key to its heap, so that a plan may have several outcomes.    *)
(***************************************************************************)
Rows(rs) == [error |-> FALSE, rows |-> rs]
Failure == [error |-> TRUE, rows |-> <<>>]

\* The rows after the first offset, up to the limit; what an absent limit means
\* differs among the executors.
Slice(rs, limit, offset) ==
    SubSeq(rs, offset + 1, IF limit = Absent \/ offset + limit[2] > Len(rs)
                             THEN Len(rs) ELSE offset + limit[2])

OffsetOf(node) == node.offset[2]    \* 0 if absent

Passes(pred, row) == pred = NoPredicate \/ Evaluate(pred, row) = Boolean(TRUE)

\* The rows behind the last one that a LIMIT asks for are taken to be evaluated too.
Throws(pred, rs) == pred # NoPredicate /\ \E i \in DOMAIN rs : Evaluate(pred, rs[i]) = Error

SeqScan(node) ==
    IF Throws(node.pred, heap) THEN Failure
    ELSE Rows(Slice(SelectSeq(heap, LAMBDA r : Passes(node.pred, r)), node.limit, OffsetOf(node)))

\* The rows in the order of the index, whose keys are unique.
ByKey == SortSeq(heap, LAMBDA r, s : r[1] < s[1])

\* The scan starts at the constant or at the first key, and ends at the first row
\* that fails =, < or <=.  The constant has to be an integer.
IndexScan(node) ==
    LET op == node.pred.op
        key == node.pred.args[2].value
        start == SelectSeq(ByKey, LAMBDA r : op \in {"<", "<="} \/ r[1] >= key[2])
        fails == {i \in DOMAIN start : ~Passes(node.pred, start[i])}
        last == IF op \in {"=", "<", "<="} /\ fails # {} THEN Min(fails) - 1 ELSE Len(start)
    IN  IF key[1] # "int" THEN Failure
        ELSE Rows(Slice(SelectSeq(SubSeq(start, 1, last), LAMBDA r : Passes(node.pred, r)),
                        node.limit, OffsetOf(node)))

\* Whether the first row sorts before the second, and whether they tie.
SortKey(order, row) == [i \in DOMAIN order |-> Evaluate(Column(order[i].column), row)[2]]

Before(order, r, s) ==
    \E i \in DOMAIN order :
        LET x == SortKey(order, r)[i]
            y == SortKey(order, s)[i]
        IN  /\ \A j \in 1 .. i - 1 : SortKey(order, r)[j] = SortKey(order, s)[j]
            /\ IF order[i].asc THEN x < y ELSE x > y

\* The arrangements of rows that are sorted; with stable, the one that keeps the
\* order of rows that tie.
Sorted(rs, order, stable) ==
    {[i \in DOMAIN rs |-> rs[f[i]]] : f \in
        {g \in [DOMAIN rs -> DOMAIN rs] :
            \A i, j \in DOMAIN rs : i < j =>
                /\ g[i] # g[j]
                /\ ~Before(order, rs[g[j]], rs[g[i]])
                /\ stable /\ g[i] > g[j] => Before(order, rs[g[i]], rs[g[j]])}}

\* The comparator is first called with two rows; a column the rows do not have
\* makes it throw.
Unsortable(rs, order) ==
    Len(rs) > 1 /\ \E i \in DOMAIN order : order[i].column >= Len(rs[1])

Project(node, rs) ==
    LET values == [i \in DOMAIN rs |-> [j \in DOMAIN node.exprs |-> Evaluate(node.exprs[j], rs[i])]]
    IN  IF \E i \in DOMAIN rs : \E v \in Range(values[i]) : v[1] # "int" THEN Failure
        ELSE Rows([i \in DOMAIN rs |-> [j \in DOMAIN node.exprs |-> values[i][j][2]]])

\* LIMIT and TOP_K take an absent limit for 0.
LimitOf(node) == IF node.limit = Absent THEN Integer(0) ELSE node.limit

Execute(node, rs) ==
    CASE node.type = "FILTER" ->
            IF Throws(node.pred, rs) THEN {Failure}
            ELSE {Rows(SelectSeq(rs, LAMBDA r : Passes(node.pred, r)))}
      [] node.type = "PROJECTION" -> {Project(node, rs)}
      [] node.type = "LIMIT" -> {Rows(Slice(rs, LimitOf(node), OffsetOf(node)))}
      [] node.type = "ORDER_BY" ->
            IF Unsortable(rs, node.order) THEN {Failure}
            ELSE {Rows(s) : s \in Sorted(rs, node.order, TRUE)}
      [] node.type = "TOP_K" ->
            IF LimitOf(node)[2] > 0 /\ Unsortable(rs, node.order) THEN {Failure}
            ELSE {Rows(Slice(s, LimitOf(node), OffsetOf(node))) : s \in Sorted(rs, node.order, FALSE)}

RECURSIVE Outcomes(_)
Outcomes(p) ==
    LET node == Head(p)
    IN  CASE node.type = "SEQ_SCAN" -> {SeqScan(node)}
          [] node.type = "INDEX_SCAN" -> {IndexScan(node)}
          [] OTHER -> UNION {IF o.error THEN {o} ELSE Execute(node, o.rows) : o \in Outcomes(Tail(p))}

(***************************************************************************)
(* ConstantFoldingRule.                                                    *)
(***************************************************************************)
IsConst(e) == e.kind = "const"

\* safeEvaluate: an exception becomes NULL.
SafeEvaluate(e) == IF Evaluate(e, <<>>) = Error THEN Null ELSE Evaluate(e, <<>>)

\* Mutant of AbsorbConst: an AND with TRUE, or an OR with FALSE, is that constant.
AbsorbConstAlways(op, v, other, otherwise) ==
    IF v = Null THEN otherwise ELSE Const(v)

\* One operand v of an AND or an OR is known and the other is not: v is the result
\* if it decides, and the other operand if it does not.
AbsorbConst(op, v, other, otherwise) ==
    IF v = Null THEN otherwise
    ELSE IF v = Boolean(op = "or") THEN Const(v)
    ELSE other

RECURSIVE FoldExpression(_)
FoldExpression(e) ==
    LET args == [i \in DOMAIN e.args |-> FoldExpression(e.args[i])]
        folded == [e EXCEPT !.args = args]
    IN  IF args = <<>> THEN e
        ELSE IF \A i \in DOMAIN args : IsConst(args[i]) THEN Const(SafeEvaluate(folded))
        ELSE IF e.kind # "logical" \/ e.op = "not" THEN folded
        ELSE IF IsConst(args[1]) THEN AbsorbConst(e.op, args[1].value, args[2], folded)
        ELSE IF IsConst(args[2]) THEN AbsorbConst(e.op, args[2].value, args[1], folded)
        ELSE folded

FoldNode(node) ==
    [node EXCEPT !.pred = FoldExpression(@), !.exprs = [i \in DOMAIN @ |-> FoldExpression(@[i])]]

ConstantFolding(p, at) == [p EXCEPT ![at] = FoldNode(@)]

(***************************************************************************)
(* The other rules.  Each gets the plan and the node it is applied at, and *)
(* changes the chain from there on only.                                   *)
(***************************************************************************)

\* PredicatePushdownRule: a filter right above a sequential scan goes into it.
PredicatePushdown(p, at) ==
    IF p[at].type = "FILTER" /\ p[at + 1].type = "SEQ_SCAN"
      THEN LET old == p[at + 1].pred
               new == IF old = NoPredicate THEN p[at].pred
                      ELSE Operation("logical", "and", <<old, p[at].pred>>)
           IN  [RemoveAt(p, at) EXCEPT ![at].pred = new]
      ELSE p

\* ProjectionPruningRule: the columns the nodes above the scan need.  The nodes of
\* the chain above the projection do not count, since it asks for its own.
Required(p, at) ==
    LET projections == {i \in at .. Len(p) : p[i].type = "PROJECTION"}
        below == {i \in at .. Len(p) : \A j \in projections : i > j}
    IN  (IF projections = {} THEN 0 .. Width - 1
           ELSE UNION {UNION {Columns(e) : e \in Range(p[i].exprs)} : i \in projections})
        \cup UNION {Columns(p[i].pred) : i \in below}

\* Columns are found by their place in the old schema, which may be pruned already.
\* A scan that loses columns is made anew, without limit and offset.
ProjectionPruning(p, at) ==
    LET scan == Last(p)
        kept == SelectSeq([i \in DOMAIN scan.columns |-> i], LAMBDA i : i - 1 \in Required(p, at))
        columns == IF kept = <<>> THEN <<scan.columns[1]>>
                   ELSE [i \in DOMAIN kept |-> scan.columns[kept[i]]]
    IN  IF Len(columns) = Len(scan.columns) THEN p
        ELSE [p EXCEPT ![Len(p)] = [scan EXCEPT !.columns = columns, !.limit = Absent, !.offset = Absent]]

\* IndexScanRule: a comparison of the first column with a constant.
Indexable(pred) ==
    /\ pred.kind = "comparison" /\ pred.op \in {"=", "<", "<=", ">", ">="}
    /\ pred.args[1] = Column(0) /\ IsConst(pred.args[2])

IndexScanRule(p, at) ==
    IF Last(p).type = "SEQ_SCAN" /\ Indexable(Last(p).pred)
      THEN [p EXCEPT ![Len(p)] = [@ EXCEPT !.type = "INDEX_SCAN", !.limit = Absent, !.offset = Absent]]
      ELSE p

\* TopKOptimizationRule: a limit right above an ORDER BY.
TopK(p, at) ==
    IF p[at].type = "LIMIT" /\ p[at + 1].type = "ORDER_BY"
      THEN [RemoveAt(p, at + 1) EXCEPT ![at].type = "TOP_K", ![at].order = p[at + 1].order]
      ELSE p

\* The column of the scan that a column of the output of node i is, -1 if none.
RECURSIVE Source(_, _, _)
Source(p, i, column) ==
    CASE p[i].type = "PROJECTION" ->
            IF column < Len(p[i].exprs) /\ p[i].exprs[column + 1].kind = "column"
              THEN Source(p, i + 1, p[i].exprs[column + 1].value[2]) ELSE -1
      [] p[i].type = "FILTER" -> Source(p, i + 1, column)
      [] p[i].type = "INDEX_SCAN" -> column
      [] OTHER -> -1

\* Mutant of SortRedundant: the direction of the sort is not looked at.
SortRedundantBothWays(p, i) ==
    /\ p[i].type = "ORDER_BY" /\ Len(p[i].order) = 1
    /\ Source(p, i + 1, p[i].order[1].column) = 0

\* SortLimitRule: an ascending sort by the key of an index scan below.
SortRedundant(p, i) ==
    /\ p[i].type = "ORDER_BY" /\ Len(p[i].order) = 1 /\ p[i].order[1].asc
    /\ Source(p, i + 1, p[i].order[1].column) = 0

\* SortLimitRule: a limit with projections and filters only above the scan.
LimitReachesScan(p, i) ==
    /\ p[i].type = "LIMIT"
    /\ \A j \in i + 1 .. Len(p) - 1 : p[j].type \in {"PROJECTION", "FILTER"}

SortLimit(p, at) ==
    IF SortRedundant(p, at) THEN RemoveAt(p, at)
    ELSE IF LimitReachesScan(p, at)
      THEN RemoveAt([p EXCEPT ![Len(p)].limit = p[at].limit, ![Len(p)].offset = p[at].offset], at)
    ELSE p

(***************************************************************************)
(* RuleExecutor::optimize.                                                 *)
(***************************************************************************)
Rules == <<"PredicatePushdown", "ProjectionPruning", "ConstantFolding", "IndexScan", "TopK", "SortLimit">>

Init ==
    /\ heap \in Table
    /\ \E where \in Predicate \cup {NoPredicate}, select \in Projection, order \in Order \cup {<<>>},
          limit, offset \in {Integer(n) : n \in Count} \cup {Absent} :
         planned = PlanSelect(where, select, order, limit, offset)
    /\ plan = planned /\ pos = Len(planned) /\ rule = 1

Apply(name, rewritten) ==
    /\ pos > 0 /\ Rules[rule] = name
    /\ plan' = rewritten
    /\ rule' = IF rule = Len(Rules) THEN 1 ELSE rule + 1
    /\ pos' = IF rule = Len(Rules) THEN pos - 1 ELSE pos
    /\ UNCHANGED <<heap, planned>>

Next ==
    \/ Apply("PredicatePushdown", PredicatePushdown(plan, pos))
    \/ Apply("ProjectionPruning", ProjectionPruning(plan, pos))
    \/ Apply("ConstantFolding", ConstantFolding(plan, pos))
    \/ Apply("IndexScan", IndexScanRule(plan, pos))
    \/ Apply("TopK", TopK(plan, pos))
    \/ Apply("SortLimit", SortLimit(plan, pos))

Spec == Init /\ [][Next]_vars

(***************************************************************************)
(* Properties.                                                             *)
(***************************************************************************)

\* The parts of the plan of the planner.
NodesOf(p, type) == {p[i] : i \in {j \in DOMAIN p : p[j].type = type}}

Where(p) == UNION {{n.pred} : n \in NodesOf(p, "FILTER")}

\* What the query asks for: the projected rows that satisfy its predicate, sorted
\* if it says so and otherwise in any order, and of them those from the offset to
\* the limit.
Answers ==
    LET passed == SelectSeq(heap, LAMBDA r : \A e \in Where(planned) : Passes(e, r))
        projected == UNION {{Project(n, passed).rows} : n \in NodesOf(planned, "PROJECTION")}
        order == UNION {Range(n.order) : n \in NodesOf(planned, "ORDER_BY")}
        orders == IF order = {} THEN {<<>>} ELSE {n.order : n \in NodesOf(planned, "ORDER_BY")}
        arranged == UNION {Sorted(rs, o, FALSE) : rs \in projected, o \in orders}
        limits == NodesOf(planned, "LIMIT")
    IN  IF limits = {} THEN arranged
        ELSE {Slice(rs, n.limit, OffsetOf(n)) : rs \in arranged, n \in limits}

RECURSIVE HasNull(_)
HasNull(e) == e = Const(Null) \/ \E i \in DOMAIN e.args : HasNull(e.args[i])

\* The queries on which the executors themselves are at odds: a NULL in the
\* predicate, or a constant that folding makes NULL because it throws, is an
\* exception for an index scan and no row for a sequential scan, and an offset
\* without a limit leaves nothing for LIMIT and TOP_K and everything behind the
\* offset for a scan.
Disputed ==
    \/ \E e \in Where(planned) : HasNull(e) \/ HasNull(FoldExpression(e))
    \/ \E n \in NodesOf(planned, "LIMIT") : n.limit = Absent

\* After every single rewrite the plan still answers the query: whatever runs
\* without an exception as the planner made it runs without one, and returns rows
\* that the query asks for, in an order it asks for (RuleExecutor::optimize and
\* the rules; SeqScanExecutor, IndexScanExecutor, TopKExecutor, LimitExecutor).
RewritesAnswer ==
    ~Disputed /\ Failure \notin Outcomes(planned) =>
        Outcomes(plan) \subseteq {Rows(rs) : rs \in Answers}

\* Where the predicate of the query is TRUE or FALSE of a row, the predicate of
\* the plan, in a filter or in the scan, is the same of it, however often it has
\* been folded, moved and merged, and also in queries with NULL.  (Where it is
\* NULL or throws, folding may make it TRUE or FALSE:
\* ConstantFoldingRule::foldExpression.)
PredicateKept ==
    \A e \in Where(planned) : \A r \in Range(heap) :
        Evaluate(e, r)[1] = "bool" =>
            \E i \in DOMAIN plan :
                plan[i].pred # NoPredicate /\ Evaluate(plan[i].pred, r) = Evaluate(e, r)
=============================================================================
