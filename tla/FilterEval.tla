----------------------------- MODULE FilterEval -----------------------------
(***************************************************************************)
(* Evaluation of a parsed filter condition, src/filter/eval.go and the     *)
(* WhereCondition(s) of src/filter/ast.go.                                 *)
(*                                                                         *)
(* A value is <<type, v>>: string, int64, uint64, float64 (v counts units  *)
(* of float64EqualityThreshold), bool, regex or nil.  Nodes are            *)
(* [node: "bin", op, lhs, rhs], [node: "paren", param], [node: "lit", v],  *)
(* [node: "ident", name], [node: "list", items] (items: the values of the  *)
(* elements) and [node: "other"] for what the grammar accepts and eval     *)
(* does not.  A WhereCondition is [node: "where", conds], and an empty     *)
(* statement is [node: "nil"].  data is a function from field names.       *)
(***************************************************************************)
EXTENDS Integers, Sequences

CONSTANTS
    Matches(_, _),    \* regexp.MatchString(regex, string)
    StrRank(_)        \* rank of a string in lexicographic order

nilVal == <<"nil", 0>>

Comparisons == {"GTE", "GT", "LT", "LTE", "NEQ", "EQ"}

almostEqual(a, b) == a - b \in -1..1

\* cmpint, cmpstr and cmpfloat.
Compare(op, l, r) ==
    CASE op = "GTE" -> l >= r
      [] op = "LTE" -> l <= r
      [] op = "LT"  -> l < r
      [] op = "GT"  -> l > r

\* A value compared with a regular expression: only strings are.
RegexEval(op, lhs, re) ==
    /\ lhs[1] = "string"
    /\ CASE op \in {"EQ", "MATCH"} -> Matches(re, lhs[2])
         [] op = "NOT_MATCH"       -> ~ Matches(re, lhs[2])
         [] OTHER                  -> op = "NEQ"

\* Two literals of one type, or any literal and nil.
binEval(op, lhs, rhs) ==
    IF rhs[1] = "regex" THEN RegexEval(op, lhs, rhs[2])
    ELSE /\ op \in Comparisons
         /\ rhs[1] \in {"nil", lhs[1]}
         /\ LET same == lhs[1] = rhs[1] IN
            CASE op = "EQ"  -> same /\ IF lhs[1] = "float64" THEN almostEqual(lhs[2], rhs[2])
                                       ELSE lhs[2] = rhs[2]
              [] op = "NEQ" -> ~ same \/ lhs[2] # rhs[2]
              [] OTHER -> CASE ~ same -> FALSE
                            [] lhs[1] = "string" -> Compare(op, StrRank(lhs[2]), StrRank(rhs[2]))
                            [] lhs[1] \in {"int64", "float64"} -> Compare(op, lhs[2], rhs[2])
                            [] OTHER -> FALSE

\* The elements of a list that eval supports.
Elements(list) == SelectSeq(list.items, LAMBDA v : v[1] # "other")

\* field <op> [...].  A missing field is IN a list whose first element is nil.
ListEval(op, name, list, data) ==
    LET arr == Elements(list)
        has == name \in DOMAIN data
        Hit(i) == IF has THEN binEval("EQ", data[name], arr[i]) ELSE binEval("EQ", arr[i], nilVal)
    IN  CASE op \in {"MATCH", "NOT_MATCH"} ->
                 has /\ data[name][1] = "string"
                     /\ \E i \in DOMAIN arr : binEval(op, data[name], arr[i])
          [] op = "IN"     -> IF has THEN \E i \in DOMAIN arr : Hit(i) ELSE arr # <<>> /\ Hit(1)
          [] op = "NOT_IN" -> \A i \in DOMAIN arr : ~ Hit(i)
          [] OTHER         -> FALSE

\* field <op> literal: a missing field is compared as nil.
FieldEval(op, name, lit, data) ==
    /\ op \in Comparisons
    /\ IF name \in DOMAIN data THEN binEval(op, data[name], lit) ELSE binEval(op, lit, nilVal)

singleEval(e, data) ==
    CASE e.rhs.node = "list" /\ e.lhs.node = "ident" -> ListEval(e.op, e.lhs.name, e.rhs, data)
      [] e.rhs.node = "lit" /\ e.lhs.node = "ident"  -> FieldEval(e.op, e.lhs.name, e.rhs.v, data)
      [] e.rhs.node = "lit" /\ e.lhs.node = "lit"    -> e.lhs.v[1] # "regex" /\ binEval(e.op, e.lhs.v, e.rhs.v)
      [] OTHER -> FALSE

Evaluable(n) == n.node \in {"bin", "paren"}

\* Eval of BinaryExpr and ParenExpr; doEval rejects the arithmetic operators.
RECURSIVE Eval(_, _)
Eval(e, data) ==
    CASE e.node = "paren" -> Evaluable(e.param) /\ Eval(e.param, data)
      [] e.op = "AND" -> /\ Evaluable(e.lhs) /\ Evaluable(e.rhs)
                         /\ Eval(e.lhs, data) /\ Eval(e.rhs, data)
      [] e.op = "OR"  -> /\ Evaluable(e.lhs) /\ Evaluable(e.rhs)
                         /\ Eval(e.lhs, data) \/ Eval(e.rhs, data)
      [] e.op \in Comparisons \cup {"IN", "NOT_IN", "MATCH", "NOT_MATCH"} -> singleEval(e, data)
      [] OTHER -> FALSE

\* (*WhereCondition).Eval: every condition is a BinaryExpr that holds.
WhereConditionEval(w, data) ==
    \A i \in DOMAIN w.conds : w.conds[i].node = "bin" /\ Eval(w.conds[i], data)

\* WhereConditions.Eval: index of the first condition that holds, from 0.  A
\* nil condition ends the search.
WhereConditionsEval(ws, data) ==
    LET Stops(i) == ws[i].node = "nil" \/ WhereConditionEval(ws[i], data)
        I == {i \in DOMAIN ws : Stops(i) /\ \A j \in 1..i - 1 : ~ Stops(j)}
    IN  IF \E i \in I : ws[i].node # "nil" THEN (CHOOSE i \in I : TRUE) - 1 ELSE -1

=============================================================================
