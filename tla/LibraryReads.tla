---------------------------- MODULE LibraryReads ----------------------------
(***************************************************************************)
(* The reads of the STIG library that take more than one statement: the    *)
(* rules of a revision, one rule of it, a rule by its id and a CCI.  Each  *)
(* statement runs on the rows committed when it starts, with no            *)
(* transaction around them, so an import may commit between any two.       *)
(***************************************************************************)
EXTENDS Revisions

CONSTANTS Readers,
          Asks        \* what they ask for

\* str is NULL for "latest"; ccis: the projection asks for them.
Ask == [kind : {"rules", "rule", "byId", "cci"}, bench : Benchmarks \cup {NULL},
        str : RevisionStrs \cup {NULL}, rule : Rules \cup {NULL},
        cci : Ccis \cup {NULL}, ccis : BOOLEAN]

\* A rule that is looked up by its id alone may be of any revision.
ASSUME AsksAssumption ==
    /\ Asks \subseteq Ask
    /\ NULL \notin Asks
    /\ \A a \in Asks : /\ a.kind = "byId" => a.bench = NULL /\ a.str = NULL
                       /\ a.kind \in {"rules", "rule"} => a.bench \in Benchmarks
                       /\ a.kind \in {"rule", "byId"} => a.rule \in Rules

VARIABLES
    stage,      \* the statement each reader is about to run
    ask,
    found,      \* the revision_id that it holds, 0 for none
    rules,      \* the rules that it has read
    ccis,       \* and the CCIs of each
    refs,       \* the revisions that a CCI is referred to by
    status      \* the answer's status, 0 until there is one

readVars == <<stage, ask, found, rules, ccis, refs, status>>

NoCcis == [x \in Rules |-> {}]
Answers == {0, 200, 404}

ReadsType ==
    /\ stage \in [Readers -> {"idle", "resolve", "rules", "ccis", "cci", "refs", "done"}]
    /\ ask \in [Readers -> Asks \cup {NULL}]
    /\ found \in [Readers -> Nat]
    /\ rules \in [Readers -> SUBSET Rules]
    /\ ccis \in [Readers -> [Rules -> SUBSET Ccis]]
    /\ refs \in [Readers -> SUBSET (Benchmarks \X RevisionStrs)]
    /\ status \in [Readers -> Answers]

ReadsInit ==
    /\ stage = [r \in Readers |-> "idle"]
    /\ ask = [r \in Readers |-> NULL]
    /\ found = [r \in Readers |-> 0]
    /\ rules = [r \in Readers |-> {}]
    /\ ccis = [r \in Readers |-> NoCcis]
    /\ refs = [r \in Readers |-> {}]
    /\ status = [r \in Readers |-> 0]

Goto(r, here, there) == stage[r] = here /\ stage' = [stage EXCEPT ![r] = there]
Finish(r, here, s) == Goto(r, here, "done") /\ status' = [status EXCEPT ![r] = s]

\* A request arrives that has the scope, and the library has a database.
Receive(r, a) ==
    /\ Goto(r, "idle", CASE a.kind = "cci" -> "cci" [] a.kind = "byId" -> "rules"
                         [] OTHER -> "resolve")
    /\ ask' = [ask EXCEPT ![r] = a]
    /\ UNCHANGED <<found, rules, ccis, refs, status>>

\* resolveRevisionID: the revision asked for, or none.
Named(a) == IF a.str = NULL THEN LastImported(a.bench)
            ELSE {i \in Of(a.bench) : book[i].str = a.str}
Resolve(r) ==
    /\ stage[r] = "resolve"
    /\ IF Named(ask[r]) = {}
       THEN Finish(r, "resolve", 404) /\ UNCHANGED found
       ELSE /\ \E i \in Named(ask[r]) : found' = [found EXCEPT ![r] = i]
            /\ Goto(r, "resolve", "rules") /\ UNCHANGED status
    /\ UNCHANGED <<ask, rules, ccis, refs>>

\* The rules of a revision_id that has gone meanwhile are none.
Rows(i) == IF i \in live THEN RulesOf(i) ELSE {}

\* What follows a statement that has read rules S: no rule is an empty list or
\* a 404; the CCIs are read if the projection asks for them.
Taken(r, S, emptyStatus) ==
    /\ rules' = [rules EXCEPT ![r] = S]
    /\ IF S # {} /\ ask[r].ccis
       THEN Goto(r, "rules", "ccis") /\ UNCHANGED status
       ELSE Finish(r, "rules", IF S = {} THEN emptyStatus ELSE 200)

\* The second statement of ListRulesByRevision.
ReadRules(r) ==
    /\ stage[r] = "rules" /\ ask[r].kind = "rules"
    /\ Taken(r, Rows(found[r]), 200)
    /\ UNCHANGED <<ask, found, ccis, refs>>

\* The second statement of GetRuleByRevision.
ReadRule(r) ==
    /\ stage[r] = "rules" /\ ask[r].kind = "rule"
    /\ Taken(r, Rows(found[r]) \cap {ask[r].rule}, 404)
    /\ UNCHANGED <<ask, found, ccis, refs>>

\* The first statement of GetRuleByRuleID: of all revisions that have the rule
\* the last imported one.
Having(x) == First({i \in live : x \in RulesOf(i)}, LAMBDA i, j : i > j)
ReadRuleById(r) ==
    /\ stage[r] = "rules" /\ ask[r].kind = "byId"
    /\ Taken(r, {x \in {ask[r].rule} : Having(x) # {}}, 404)
    /\ found' = [found EXCEPT ![r] = IF Having(ask[r].rule) = {} THEN 0
                                     ELSE CHOOSE i \in Having(ask[r].rule) : TRUE]
    /\ UNCHANGED <<ask, ccis, refs>>

\* Mutant of CcisOf: the CCIs are joined by rule_id instead of by rule_pk.
CcisByRuleId(i, S) ==
    [x \in Rules |-> IF x \in S THEN UNION {book[j].rules[x].ccis : j \in Having(x)} ELSE {}]
\* The CCIs of the rules S of a revision, by their rule_pk.
CcisOf(i, S) == [x \in Rules |-> IF x \in Rows(i) \cap S THEN book[i].rules[x].ccis ELSE {}]

\* The last statement of the three.
ReadCcis(r) ==
    /\ Finish(r, "ccis", 200)
    /\ ccis' = [ccis EXCEPT ![r] = CcisOf(found[r], rules[r])]
    /\ UNCHANGED <<ask, found, rules, refs>>

\* GetCCI: a CCI stays in its table when its rules go.
ReadCci(r) ==
    /\ stage[r] = "cci"
    /\ IF \E i \in DOMAIN book, x \in Rules : x \in RulesOf(i) /\ ask[r].cci \in book[i].rules[x].ccis
       THEN Goto(r, "cci", "refs") /\ UNCHANGED status
       ELSE Finish(r, "cci", 404)
    /\ UNCHANGED <<ask, found, rules, ccis, refs>>
ReadRefs(r) ==
    /\ Finish(r, "refs", 200)
    /\ refs' = [refs EXCEPT ![r] =
           {<<book[i].bench, book[i].str>> :
               i \in {j \in live : \E x \in RulesOf(j) : ask[r].cci \in book[j].rules[x].ccis}}]
    /\ UNCHANGED <<ask, found, rules, ccis>>

Read(r, A) ==
    \/ \E a \in A : Receive(r, a)
    \/ Resolve(r) \/ ReadRules(r) \/ ReadRule(r) \/ ReadRuleById(r)
    \/ ReadCcis(r) \/ ReadCci(r) \/ ReadRefs(r)

-----------------------------------------------------------------------------
\* Of reader r: the revision that it holds is of the benchmark and revision
\* string that were asked for; the rules that were asked for; their CCIs.
Known(r) ==
    /\ found[r] \in DOMAIN book
    /\ ask[r].bench # NULL => book[found[r]].bench = ask[r].bench
    /\ ask[r].str # NULL => book[found[r]].str = ask[r].str
All(r) == IF ask[r].kind = "rules" THEN RulesOf(found[r]) ELSE {ask[r].rule}
AllCcis(r) == [x \in Rules |-> IF x \in rules[r] THEN book[found[r]].rules[x].ccis ELSE {}]

Whole(r) ==
    /\ Known(r)
    /\ rules[r] \in {All(r), {}}
    /\ rules[r] \subseteq RulesOf(found[r])
    /\ ccis[r] \in {AllCcis(r), NoCcis}
    /\ ~ask[r].ccis => ccis[r] = NoCcis
    /\ found[r] \in live => /\ rules[r] = All(r)
                            /\ ask[r].ccis => ccis[r] = AllCcis(r)

\* The answer to a reader is that of one revision, whatever is imported while
\* it reads: the revision that it resolved, of the benchmark and revision
\* string that were asked for, with all its rules, and with all the CCIs of
\* these rules or with none of them.  A list is empty, and CCIs are missing,
\* only if the revision has been replaced meanwhile.
ReadsAreWhole == \A r \in Readers : status[r] = 200 /\ ask[r].kind # "cci" => Whole(r)
=============================================================================
