------------------------------ MODULE DialRules ------------------------------
(***************************************************************************)
(* What the dial tests of src/dialtesting have in common: the variables of *)
(* a task, the templates they are put into, and the success rules.         *)
(*                                                                         *)
(* A text of a task definition is a literal or a template that is one      *)
(* variable.  Texts are compared, searched and matched: CONSTANT Holds     *)
(* says which text contains which, and is matched by which as a pattern.   *)
(* A compiled pattern is the text it was compiled from, "" when there is   *)
(* none.                                                                   *)
(***************************************************************************)
EXTENDS Naturals, Sequences, FiniteSets, SequencesExt

CONSTANTS
    Holds,        \* the pairs <<text, part or pattern>>
    BadPatterns,  \* the texts regexp.Compile refuses
    Durations     \* the texts time.ParseDuration accepts, with what they mean

Lit(v) == [lit |-> v, var |-> ""]
Ref(name) == [lit |-> "", var |-> name]

Okay(v) == [ok |-> TRUE, val |-> v]
Err(v) == [ok |-> FALSE, val |-> v]

\* Results one by one, and results that go into the fields of a record: any that
\* fails counts.
Gather(rs) == [ok |-> \A i \in DOMAIN rs : rs[i].ok, val |-> [i \in DOMAIN rs |-> rs[i].val]]
Each(Op(_), s) == Gather([i \in DOMAIN s |-> Op(s[i])])
Fill(t, rs) ==
    [ok |-> \A f \in DOMAIN rs : rs[f].ok,
     val |-> [f \in DOMAIN t |-> IF f \in DOMAIN rs THEN rs[f].val ELSE t[f]]]
Then(r, Next(_)) == IF r.ok THEN Next(r.val) ELSE r

\* A template names a function of fm, or it does not parse.
GetParsedString(text, fm) ==
    IF text.var = "" THEN Okay(text.lit)
    ELSE IF text.var \in DOMAIN fm THEN Okay(fm[text.var])
    ELSE Err("")

-----------------------------------------------------------------------------
(* Variables                                                               *)

ConfigVar(name, value, id, secure) ==
    [Name |-> name, Value |-> value, ID |-> id, Secure |-> secure]

\* A global variable (it has an ID) takes the value of the moment, and keeps the
\* one it had when the variable is gone.
Resolve(v, globals) ==
    IF v.ID # "" /\ v.ID \in DOMAIN globals
    THEN [v EXCEPT !.Value = globals[v.ID].Value, !.Secure = globals[v.ID].Secure]
    ELSE v

ResolveAll(vs, globals) == [i \in DOMAIN vs |-> Resolve(vs[i], globals)]

\* Of several variables with a name the last is used.
FuncMap(vs) ==
    [name \in {vs[i].Name : i \in DOMAIN vs} |->
        LET i == CHOOSE i \in DOMAIN vs :
                    /\ vs[i].Name = name
                    /\ \A j \in DOMAIN vs : vs[j].Name = name => j <= i
        IN  vs[i].Value]

\* The config_vars of GetResults.
ReportedVars(vs) == [i \in DOMAIN vs |-> IF vs[i].Secure THEN "" ELSE vs[i].Value]

\* The keys and the values of a map.  The raw key is deleted from the map and the
\* rendered one is set: a key rendered before, from other values, stays.
SetPairs(map, pairs) ==
    [k \in DOMAIN map \cup {pairs[i].k : i \in DOMAIN pairs} |->
        IF \E i \in DOMAIN pairs : pairs[i].k = k
        THEN pairs[CHOOSE i \in DOMAIN pairs : pairs[i].k = k].v ELSE map[k]]

renderMap(raws, dest, fm) ==
    Then(Each(LAMBDA p : Fill(p, [k |-> GetParsedString(p.k, fm), v |-> GetParsedString(p.v, fm)]),
              raws),
         LAMBDA pairs : Okay(SetPairs(dest, pairs)))

\* A duration that is not there leaves the one that was parsed before.
ParseDuration(text, old) ==
    IF text = "" THEN Okay(old)
    ELSE IF text \in DOMAIN Durations THEN Okay(Durations[text]) ELSE Err(old)

-----------------------------------------------------------------------------
(* SuccessOption                                                           *)

OptionTexts == {"Is", "IsNot", "MatchRegex", "NotMatchRegex", "Contains", "NotContains"}

\* The option as it is unmarshalled: texts not rendered, nothing compiled.
Option(which, text) ==
    [f \in OptionTexts |-> IF f = which THEN text ELSE Lit("")]

\* Every text is rendered from the raw option; one that fails ends the
\* rendering of the task.
renderSuccessOption(raw, dest, fm) ==
    Fill(dest, [f \in OptionTexts |-> GetParsedString(raw[f], fm)])

renderOptions(raws, dests, fm) ==
    Gather([i \in DOMAIN raws |-> renderSuccessOption(raws[i], dests[i], fm)])

Blank == [f \in OptionTexts \cup {"matchRe", "notMatchRe"} |-> ""]

\* A pattern that is no longer there leaves the compiled one in place.
genReg(o) ==
    IF o.MatchRegex \in BadPatterns \/ o.NotMatchRegex \in BadPatterns THEN Err(o)
    ELSE Okay([o EXCEPT !.matchRe = IF o.MatchRegex # "" THEN o.MatchRegex ELSE @,
                        !.notMatchRe = IF o.NotMatchRegex # "" THEN o.NotMatchRegex ELSE @])

\* SuccessOption.check: TRUE stands for a nil error.
check(o, val) ==
    IF o.Is # "" THEN o.Is = val
    ELSE IF o.IsNot # "" THEN o.IsNot # val
    ELSE /\ o.matchRe # "" => <<val, o.matchRe>> \in Holds
         /\ o.notMatchRe # "" => <<val, o.notMatchRe>> \notin Holds
         /\ o.Contains # "" => <<val, o.Contains>> \in Holds
         /\ o.NotContains # "" => <<val, o.NotContains>> \notin Holds

\* ValueSuccess.check.
checkValue(v, val) ==
    CASE v.Op = "eq" -> val = v.Target
      [] v.Op = "lt" -> val < v.Target
      [] v.Op = "leq" -> val <= v.Target
      [] v.Op = "gt" -> val > v.Target
      [] v.Op = "geq" -> val >= v.Target
      [] OTHER -> TRUE

\* How getResults judges a run: `verdicts' holds TRUE for every rule that was
\* met and FALSE for every reason.
Judge(logic, verdicts, reqError) ==
    IF logic = "or" THEN TRUE \in verdicts /\ ~reqError
    ELSE FALSE \notin verdicts /\ ~reqError

=============================================================================
