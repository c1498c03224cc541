---------------------------- MODULE Reports_proofs ----------------------------
(***************************************************************************)
(* Proofs about Reports: for any library, any number of imports and of     *)
(* readers.                                                                *)
(***************************************************************************)
EXTENDS Reports, FiniteSetTheorems, FunctionTheorems, TLAPS

\* A file lists rules, and has a row of stig_rule for each.
LEMMA FileRules ==
  ASSUME NEW f \in File
  PROVE  /\ f.bench \in Benchmarks /\ f.str \in RevisionStrs
         /\ \A x \in Rules : f.rules[x] # NULL => f.rules[x] \in StigRule /\ f.rules[x].ccis \in SUBSET Ccis
BY DEF File, StigRule

\* What a reader has at each of its stages: nothing before it reads, then the
\* revision it asked for, then all the rules of this one.
ReaderInv(r) ==
  /\ stage[r] # "idle" => ask[r] \in Asks
  /\ stage[r] # "done" => status[r] = 0 /\ ccis[r] = NoCcis
  /\ stage[r] \in {"idle", "resolve", "rules"} => rules[r] = {}
  /\ stage[r] = "resolve" => ask[r].kind \in {"rules", "rule"}
  /\ stage[r] = "rules" => /\ ask[r].kind # "cci"
                           /\ ask[r].kind # "byId" => Known(r)
  /\ stage[r] = "ccis" => /\ ask[r].kind # "cci" /\ ask[r].ccis
                          /\ Known(r)
                          /\ rules[r] = All(r) /\ rules[r] \subseteq RulesOf(found[r])
  /\ stage[r] \in {"cci", "refs"} => ask[r].kind = "cci"
  /\ status[r] = 200 /\ ask[r].kind # "cci" => Whole(r)

Inv == TypeOK /\ \A r \in Readers : ReaderInv(r)

\* The library and the tables start as they should.
LEMMA InitInv == Init => Inv
<1> SUFFICES ASSUME Init PROVE Inv
  OBVIOUS
<1>1. LibraryType
  BY RevisionsAssumption DEF Init, LibraryInit, LibraryType
<1>2. MetricsType
  BY ReportsAssumption DEF Init, MetricsType
<1>3. ReadsType
  BY DEF Init, ReadsInit, ReadsType, NoCcis, Answers
<1>4. \A r \in Readers : ReaderInv(r)
  BY DEF Init, ReadsInit, ReaderInv
<1> QED
  BY <1>1, <1>2, <1>3, <1>4 DEF Inv, TypeOK, Init

\* An import adds a revision under a new id; the others stay what they were.
LEMMA ImportKeeps ==
  ASSUME LibraryType, NEW f \in Files, Import(f)
  PROVE  /\ LibraryType'
         /\ \A i \in DOMAIN book : i \in DOMAIN book' /\ book'[i] = book[i]
         /\ \A i \in DOMAIN book : i \in live' => i \in live
<1>1. /\ f \in File /\ book \in Seq(File) /\ live \subseteq DOMAIN book
      /\ book' = Append(book, f)
  BY RevisionsAssumption DEF LibraryType, Import
<1>2. /\ book' \in Seq(File) /\ Len(book') = Len(book) + 1
      /\ Len(book) \in Nat /\ DOMAIN book = 1..Len(book) /\ DOMAIN book' = 1..Len(book')
      /\ book'[Len(book')] = f
      /\ \A i \in DOMAIN book : book'[i] = book[i]
  BY <1>1
<1>3. /\ live' = {i \in live : book[i].bench # f.bench \/ book[i].str # f.str} \cup {Len(book')}
      /\ live' \subseteq DOMAIN book'
  BY <1>1, <1>2 DEF Import
<1>4. \A i \in DOMAIN book : i \in DOMAIN book' /\ (i \in live' => i \in live)
  BY <1>2, <1>3
<1>5. ASSUME NEW i \in live', NEW j \in live',
             book'[i].bench = book'[j].bench, book'[i].str = book'[j].str
      PROVE  i = j
  <2>1. CASE i \in live /\ j \in live
    BY <2>1, <1>1, <1>2, <1>5 DEF LibraryType
  <2>2. CASE i \notin live \/ j \notin live
    BY <2>2, <1>1, <1>2, <1>3, <1>5
  <2> QED
    BY <2>1, <2>2
<1> QED
  BY <1>2, <1>3, <1>4, <1>5 DEF LibraryType

\* What a reader has is true after an import as well.
LEMMA ReaderAfterImport ==
  ASSUME Inv, NEW f \in Files, Import(f), UNCHANGED readVars, NEW r \in Readers
  PROVE  ReaderInv(r)'
<1> USE DEF readVars
<1>1. /\ \A i \in DOMAIN book : i \in DOMAIN book' /\ book'[i] = book[i]
      /\ \A i \in DOMAIN book : i \in live' => i \in live
  BY ImportKeeps DEF Inv, TypeOK
<1>2. ReaderInv(r)
  BY DEF Inv
<1>3. Known(r) => /\ Known(r)' /\ All(r)' = All(r) /\ AllCcis(r)' = AllCcis(r)
                  /\ RulesOf(found[r])' = RulesOf(found[r])
  BY <1>1 DEF Known, All, AllCcis, RulesOf
<1>4. Whole(r) => Whole(r)'
  BY <1>1, <1>3 DEF Whole, Known
<1> QED
  BY <1>2, <1>3, <1>4 DEF ReaderInv

-----------------------------------------------------------------------------
\* What a reader's own step changes: its own entries, and only these.
Own(r) ==
  /\ stage' = [stage EXCEPT ![r] = stage'[r]] /\ ask' = [ask EXCEPT ![r] = ask'[r]]
  /\ found' = [found EXCEPT ![r] = found'[r]] /\ rules' = [rules EXCEPT ![r] = rules'[r]]
  /\ ccis' = [ccis EXCEPT ![r] = ccis'[r]] /\ refs' = [refs EXCEPT ![r] = refs'[r]]
  /\ status' = [status EXCEPT ![r] = status'[r]]

\* The other readers have what they had.
LEMMA OtherReaders ==
  ASSUME Inv, NEW r \in Readers, NEW q \in Readers, q # r, Own(r), UNCHANGED libraryVars
  PROVE  ReaderInv(q)'
<1>1. /\ stage'[q] = stage[q] /\ ask'[q] = ask[q] /\ found'[q] = found[q]
      /\ rules'[q] = rules[q] /\ ccis'[q] = ccis[q] /\ status'[q] = status[q]
  BY DEF Inv, TypeOK, ReadsType, Own
<1>2. ReaderInv(q)
  BY DEF Inv
<1>3. Known(q)' = Known(q) /\ All(q)' = All(q) /\ Whole(q)' = Whole(q)
      /\ RulesOf(found[q])' = RulesOf(found[q])
  BY <1>1 DEF libraryVars, Known, All, AllCcis, Whole, RulesOf
<1> QED
  BY <1>1, <1>2, <1>3 DEF ReaderInv

\* What touches neither the library nor a reader.
LEMMA Untouched ==
  ASSUME Inv, UNCHANGED <<libraryVars, readVars, set>>
  PROVE  LibraryType' /\ ReadsType' /\ set' \in Settings /\ \A r \in Readers : ReaderInv(r)'
<1> USE DEF libraryVars, readVars
<1>1. LibraryType' /\ ReadsType' /\ set' \in Settings
  BY DEF Inv, TypeOK, LibraryType, ReadsType
<1>2. ASSUME NEW r \in Readers PROVE ReaderInv(r)'
  <2>1. ReaderInv(r)
    BY DEF Inv
  <2>2. Known(r)' = Known(r) /\ All(r)' = All(r) /\ Whole(r)' = Whole(r)
        /\ RulesOf(found[r])' = RulesOf(found[r])
    BY DEF Known, All, AllCcis, Whole, RulesOf
  <2> QED
    BY <2>1, <2>2 DEF ReaderInv
<1> QED
  BY <1>1, <1>2

\* A statement finds revisions that are live.
LEMMA NamedIsLive ==
  ASSUME LibraryType, NEW a \in Asks
  PROVE  /\ \A i \in Named(a) : i \in live /\ book[i].bench = a.bench
                                /\ (a.str # NULL => book[i].str = a.str)
         /\ \A x \in Rules : \A i \in Having(x) : i \in live /\ x \in RulesOf(i)
BY DEF Named, LastImported, Of, First, Having

\* A live revision is in the book, with rules.
LEMMA LiveIds ==
  ASSUME LibraryType, NEW i \in live
  PROVE  /\ i \in DOMAIN book /\ i \in Nat /\ RulesOf(i) \subseteq Rules
         /\ \A x \in RulesOf(i) : book[i].rules[x] \in StigRule
BY FileRules DEF LibraryType, RulesOf

\* What follows the statement that has read the rules S.
LEMMA AfterRules ==
  ASSUME Inv, NEW r \in Readers, NEW S, NEW e, Taken(r, S, e), UNCHANGED libraryVars,
         UNCHANGED <<ask, ccis, refs>>,
         found' = [found EXCEPT ![r] = found'[r]], found'[r] \in Nat,
         stage[r] = "rules", S \subseteq Rules, e \in {200, 404},
         S # {} \/ e = 200 => /\ Known(r)' /\ S \in {All(r)', {}}
                              /\ S \subseteq RulesOf(found[r])'
                              /\ found'[r] \in live => S = All(r)',
         S # {} => S = All(r)',
         e = 200 => ask[r].kind = "rules"
  PROVE  ReadsType' /\ ReaderInv(r)' /\ Own(r)
<1>1. ReadsType /\ ReaderInv(r)
  BY DEF Inv, TypeOK
<1>2. /\ rules' = [rules EXCEPT ![r] = S] /\ rules'[r] = S
      /\ ask' = ask /\ ccis' = ccis /\ refs' = refs
      /\ ccis[r] = NoCcis /\ status[r] = 0 /\ ask[r] \in Asks /\ ask[r].kind # "cci"
  BY <1>1 DEF ReadsType, ReaderInv, Taken
<1>3. CASE S # {} /\ ask[r].ccis
  <2>1. stage' = [stage EXCEPT ![r] = "ccis"] /\ status' = status
    BY <1>3 DEF Taken, Goto
  <2>2. ReadsType' /\ Own(r)
    BY <1>1, <1>2, <2>1 DEF ReadsType, Own
  <2>3. ReaderInv(r)'
    BY <1>1, <1>2, <1>3, <2>1 DEF ReadsType, ReaderInv
  <2> QED
    BY <2>2, <2>3
<1>4. CASE ~(S # {} /\ ask[r].ccis)
  <2>1. /\ stage' = [stage EXCEPT ![r] = "done"]
        /\ status' = [status EXCEPT ![r] = IF S = {} THEN e ELSE 200]
    BY <1>4 DEF Taken, Goto, Finish
  <2>2. ReadsType' /\ Own(r)
    BY <1>1, <1>2, <2>1 DEF ReadsType, Own, Answers
  <2>3. stage'[r] = "done" /\ status'[r] = IF S = {} THEN e ELSE 200
    BY <1>1, <2>1 DEF ReadsType
  <2>4. status'[r] = 200 => Whole(r)'
    <3> SUFFICES ASSUME status'[r] = 200 PROVE Whole(r)'
      OBVIOUS
    <3>1. S # {} \/ e = 200
      BY <2>3
    <3>2. S = {} => AllCcis(r)' = NoCcis
      BY <1>2 DEF AllCcis, NoCcis
    <3>3. /\ Known(r)' /\ S \in {All(r)', {}} /\ S \subseteq RulesOf(found[r])'
          /\ found'[r] \in live => S = All(r)'
      BY <3>1
    <3>4. /\ rules'[r] = S /\ ccis'[r] = NoCcis /\ ask'[r] = ask[r] /\ live' = live
          /\ NoCcis' = NoCcis
      BY <1>2 DEF libraryVars, NoCcis
    <3>5. ask[r].ccis => AllCcis(r)' = NoCcis
      BY <1>4, <3>2
    <3> QED
      BY <3>3, <3>4, <3>5 DEF Whole
  <2>5. ReaderInv(r)'
    BY <1>2, <2>3, <2>4 DEF ReaderInv
  <2> QED
    BY <2>2, <2>5
<1> QED
  BY <1>3, <1>4

-----------------------------------------------------------------------------
\* A reader's own step leaves it with what it should have.
LEMMA OwnStep ==
  ASSUME Inv, NEW r \in Readers, NEW A \in SUBSET Asks, Read(r, A), UNCHANGED libraryVars
  PROVE  ReadsType' /\ ReaderInv(r)' /\ Own(r)
<1> USE DEF Own
<1>1. /\ ReadsType /\ LibraryType /\ ReaderInv(r)
      /\ book' = book /\ live' = live
  BY DEF Inv, TypeOK, libraryVars
<1>2. ASSUME NEW a \in A, Receive(r, a) PROVE ReadsType' /\ ReaderInv(r)' /\ Own(r)
  <2>1. /\ stage'[r] \in {"cci", "rules", "resolve"}
        /\ stage'[r] = "cci" <=> a.kind = "cci"
        /\ stage'[r] = "rules" <=> a.kind = "byId"
        /\ stage' = [stage EXCEPT ![r] = stage'[r]]
        /\ stage[r] = "idle" /\ ask' = [ask EXCEPT ![r] = a]
        /\ UNCHANGED <<found, rules, ccis, refs, status>>
    BY <1>1, <1>2 DEF Receive, Goto, ReadsType
  <2>2. a \in Asks /\ a.kind \in {"rules", "rule", "byId", "cci"}
    BY <1>2, AsksAssumption DEF Ask
  <2>3. ReadsType' /\ Own(r)
    BY <1>1, <2>1, <2>2 DEF ReadsType
  <2>4. ReaderInv(r)'
    BY <1>1, <2>1, <2>2 DEF ReadsType, ReaderInv
  <2> QED
    BY <2>3, <2>4
<1>3. ASSUME Resolve(r) PROVE ReadsType' /\ ReaderInv(r)' /\ Own(r)
  <2>1. stage[r] = "resolve" /\ ask[r] \in Asks /\ ask[r].kind \in {"rules", "rule"}
    BY <1>1, <1>3 DEF ReaderInv, Resolve
  <2>2. CASE Named(ask[r]) = {}
    <3>1. /\ stage' = [stage EXCEPT ![r] = "done"] /\ status' = [status EXCEPT ![r] = 404]
          /\ UNCHANGED <<ask, found, rules, ccis, refs>>
      BY <1>3, <2>2 DEF Resolve, Finish, Goto
    <3>2. ReadsType' /\ Own(r)
      BY <1>1, <3>1 DEF ReadsType, Answers
    <3>3. ReaderInv(r)'
      BY <1>1, <2>1, <3>1 DEF ReadsType, ReaderInv
    <3> QED
      BY <3>2, <3>3
  <2>3. CASE Named(ask[r]) # {}
    <3>1. PICK i \in Named(ask[r]) :
             /\ found' = [found EXCEPT ![r] = i] /\ stage' = [stage EXCEPT ![r] = "rules"]
             /\ UNCHANGED <<ask, rules, ccis, refs, status>>
      BY <1>3, <2>3 DEF Resolve, Goto
    <3>2. /\ i \in live /\ i \in DOMAIN book /\ i \in Nat
          /\ book[i].bench = ask[r].bench /\ (ask[r].str # NULL => book[i].str = ask[r].str)
      BY <1>1, <2>1, NamedIsLive, LiveIds
    <3>3. ReadsType' /\ Own(r)
      BY <1>1, <3>1, <3>2 DEF ReadsType
    <3>4. Known(r)'
      BY <1>1, <3>1, <3>2 DEF ReadsType, Known
    <3>5. ReaderInv(r)'
      BY <1>1, <2>1, <3>1, <3>4 DEF ReadsType, ReaderInv
    <3> QED
      BY <3>3, <3>5
  <2> QED
    BY <2>2, <2>3
<1>4. ASSUME ReadRules(r) PROVE ReadsType' /\ ReaderInv(r)' /\ Own(r)
  <2>1. /\ stage[r] = "rules" /\ ask[r].kind = "rules" /\ Taken(r, Rows(found[r]), 200)
        /\ UNCHANGED <<ask, found, ccis, refs>>
    BY <1>4 DEF ReadRules
  <2>2. Known(r)' /\ found' = [found EXCEPT ![r] = found'[r]] /\ found'[r] \in Nat
    BY <1>1, <2>1 DEF ReaderInv, Known, ReadsType
  <2>3. /\ Rows(found[r]) \in {All(r)', {}} /\ Rows(found[r]) \subseteq RulesOf(found[r])'
        /\ Rows(found[r]) \subseteq Rules
        /\ found'[r] \in live => Rows(found[r]) = All(r)'
    <3>1. RulesOf(found[r])' = RulesOf(found[r]) /\ All(r)' = RulesOf(found[r])
      BY <1>1, <2>1 DEF All, RulesOf
    <3>2. found[r] \in live => RulesOf(found[r]) \subseteq Rules
      BY <1>1, LiveIds
    <3> QED
      BY <2>1, <3>1, <3>2 DEF Rows
  <2> QED
    BY <2>1, <2>2, <2>3, AfterRules
<1>5. ASSUME ReadRule(r) PROVE ReadsType' /\ ReaderInv(r)' /\ Own(r)
  <2> DEFINE S == Rows(found[r]) \cap {ask[r].rule}
  <2>1. /\ stage[r] = "rules" /\ ask[r].kind = "rule" /\ Taken(r, S, 404)
        /\ UNCHANGED <<ask, found, ccis, refs>>
    BY <1>5 DEF ReadRule
  <2>2. Known(r)' /\ found' = [found EXCEPT ![r] = found'[r]] /\ found'[r] \in Nat
    BY <1>1, <2>1 DEF ReaderInv, Known, ReadsType
  <2>3. /\ S # {} => S = All(r)' /\ S \subseteq RulesOf(found[r])'
        /\ S \subseteq Rules
    <3>1. RulesOf(found[r])' = RulesOf(found[r]) /\ All(r)' = {ask[r].rule}
      BY <1>1, <2>1 DEF All, RulesOf
    <3>2. found[r] \in live => RulesOf(found[r]) \subseteq Rules
      BY <1>1, LiveIds
    <3> QED
      BY <2>1, <3>1, <3>2 DEF Rows
  <2> HIDE DEF S
  <2> QED
    BY <2>1, <2>2, <2>3, AfterRules
<1>6. ASSUME ReadRuleById(r) PROVE ReadsType' /\ ReaderInv(r)' /\ Own(r)
  <2> DEFINE S == {x \in {ask[r].rule} : Having(x) # {}}
             i == IF Having(ask[r].rule) = {} THEN 0
                  ELSE CHOOSE j \in Having(ask[r].rule) : TRUE
  <2>1. /\ stage[r] = "rules" /\ ask[r].kind = "byId" /\ Taken(r, S, 404)
        /\ found' = [found EXCEPT ![r] = i]
        /\ UNCHANGED <<ask, ccis, refs>>
    BY <1>6 DEF ReadRuleById
  <2>2. ask[r] \in Asks /\ ask[r].rule \in Rules /\ ask[r].bench = NULL /\ ask[r].str = NULL
    BY <1>1, <2>1, AsksAssumption DEF ReaderInv
  <2>3. S # {} => i \in Having(ask[r].rule)
    OBVIOUS
  <2>4. S # {} => i \in live /\ i \in DOMAIN book /\ ask[r].rule \in RulesOf(i)
    BY <1>1, <2>2, <2>3, NamedIsLive, LiveIds
  <2>5. i \in Nat
    <3>1. CASE Having(ask[r].rule) = {}
      BY <3>1
    <3>2. CASE Having(ask[r].rule) # {}
      BY <1>1, <2>4, <3>2, LiveIds
    <3> QED
      BY <3>1, <3>2
  <2>6. S \subseteq {ask[r].rule}
    OBVIOUS
  <2> HIDE DEF S, i
  <2>7. found'[r] = i /\ ask' = ask /\ found' = [found EXCEPT ![r] = found'[r]]
    BY <1>1, <2>1 DEF ReadsType
  <2>8. S # {} => Known(r)' /\ S = All(r)' /\ S \subseteq RulesOf(found[r])'
    BY <1>1, <2>1, <2>2, <2>4, <2>6, <2>7 DEF Known, All, RulesOf
  <2>9. S \subseteq Rules
    BY <2>2, <2>6
  <2> QED
    <3>1. S # {} \/ 404 = 200 =>
             /\ Known(r)' /\ S \in {All(r)', {}}
             /\ S \subseteq RulesOf(found[r])'
             /\ found'[r] \in live => S = All(r)'
      BY <2>8
    <3>2. found'[r] \in Nat
      BY <2>5, <2>7
    <3>3. S # {} => S = All(r)'
      BY <2>8
    <3>4. stage[r] = "rules" /\ Taken(r, S, 404) /\ UNCHANGED <<ask, ccis, refs>>
      BY <2>1
    <3>5. found' = [found EXCEPT ![r] = found'[r]]
      BY <2>7
    <3> QED
      BY <3>1, <3>2, <3>3, <3>4, <3>5, <2>9, AfterRules
<1>7. ASSUME ReadCcis(r) PROVE ReadsType' /\ ReaderInv(r)' /\ Own(r)
  <2>1. /\ stage[r] = "ccis" /\ stage' = [stage EXCEPT ![r] = "done"]
        /\ status' = [status EXCEPT ![r] = 200]
        /\ ccis' = [ccis EXCEPT ![r] = CcisOf(found[r], rules[r])]
        /\ UNCHANGED <<ask, found, rules, refs>>
    BY <1>7 DEF ReadCcis, Finish, Goto
  <2>2. /\ ask[r] \in Asks /\ ask[r].ccis /\ Known(r)
        /\ rules[r] = All(r) /\ rules[r] \subseteq RulesOf(found[r])
    BY <1>1, <2>1 DEF ReaderInv
  <2>3. \A x \in RulesOf(found[r]) : book[found[r]].rules[x].ccis \in SUBSET Ccis
    BY <1>1, <2>2, FileRules DEF LibraryType, Known, RulesOf
  <2>4. /\ CcisOf(found[r], rules[r]) \in [Rules -> SUBSET Ccis]
        /\ found[r] \in live => CcisOf(found[r], rules[r]) = AllCcis(r)
        /\ found[r] \notin live => CcisOf(found[r], rules[r]) = NoCcis
    BY <2>2, <2>3 DEF CcisOf, Rows, AllCcis, NoCcis
  <2>5. ReadsType' /\ Own(r)
    BY <1>1, <2>1, <2>4 DEF ReadsType, Answers
  <2>6. Known(r)' = Known(r) /\ All(r)' = All(r) /\ AllCcis(r)' = AllCcis(r)
        /\ RulesOf(found[r])' = RulesOf(found[r]) /\ NoCcis' = NoCcis
    BY <1>1, <2>1 DEF Known, All, AllCcis, RulesOf, NoCcis
  <2>7. ccis'[r] = CcisOf(found[r], rules[r]) /\ stage'[r] = "done"
    BY <1>1, <2>1 DEF ReadsType
  <2>8. Whole(r)'
    BY <1>1, <2>1, <2>2, <2>4, <2>6, <2>7 DEF Whole
  <2>9. ReaderInv(r)'
    BY <2>1, <2>2, <2>7, <2>8 DEF ReaderInv
  <2> QED
    BY <2>5, <2>9
<1>8. ASSUME ReadCci(r) \/ ReadRefs(r) PROVE ReadsType' /\ ReaderInv(r)' /\ Own(r)
  <2>1. /\ stage[r] \in {"cci", "refs"} /\ ask[r].kind = "cci" /\ ask[r] \in Asks
        /\ UNCHANGED <<ask, found, rules, ccis>>
        /\ stage'[r] \in {"refs", "done"} /\ stage' = [stage EXCEPT ![r] = stage'[r]]
        /\ status'[r] \in Answers /\ status' = [status EXCEPT ![r] = status'[r]]
        /\ stage'[r] = "refs" => status' = status
    BY <1>1, <1>8 DEF ReaderInv, ReadCci, ReadRefs, Goto, Finish, ReadsType, Answers
  <2>2. /\ refs' = [refs EXCEPT ![r] = refs'[r]]
        /\ refs'[r] \in SUBSET (Benchmarks \X RevisionStrs)
    <3>1. CASE ReadCci(r)
      BY <1>1, <3>1 DEF ReadCci, ReadsType
    <3>2. CASE ReadRefs(r)
      <4>1. \A j \in live : book[j].bench \in Benchmarks /\ book[j].str \in RevisionStrs
        BY <1>1, FileRules DEF LibraryType
      <4> QED
        BY <1>1, <3>2, <4>1 DEF ReadRefs, ReadsType
    <3> QED
      BY <1>8, <3>1, <3>2
  <2>3. ReadsType' /\ Own(r)
    BY <1>1, <2>1, <2>2, ZenonT(60) DEF ReadsType
  <2>4. ReaderInv(r)'
    BY <1>1, <2>1 DEF ReaderInv, NoCcis
  <2> QED
    BY <2>3, <2>4
<1> QED
  BY <1>2, <1>3, <1>4, <1>5, <1>6, <1>7, <1>8 DEF Read

\* Every step keeps the invariant.
LEMMA NextInv == Inv /\ [Next]_vars => Inv'
<1> SUFFICES ASSUME Inv, [Next]_vars PROVE Inv'
  OBVIOUS
<1>1. ASSUME NEW k \in DOMAIN review, NEW rv \in set.reviews, PutReview(k, rv) PROVE Inv'
  <2>1. review \in [Assets \X Rules -> Review \cup {NULL}] /\ rv \in Review
    BY ReportsAssumption DEF Inv, TypeOK, MetricsType
  <2>2. MetricsType'
    BY <1>1, <2>1 DEF Inv, TypeOK, MetricsType, PutReview
  <2>3. UNCHANGED <<libraryVars, readVars, set>>
    BY <1>1 DEF PutReview
  <2> QED
    BY <2>2, <2>3, Untouched DEF Inv, TypeOK
<1>2. ASSUME NEW k \in DOMAIN review, DeleteReview(k) PROVE Inv'
  <2>1. MetricsType'
    BY <1>2 DEF Inv, TypeOK, MetricsType, DeleteReview
  <2>2. UNCHANGED <<libraryVars, readVars, set>>
    BY <1>2 DEF DeleteReview
  <2> QED
    BY <2>1, <2>2, Untouched DEF Inv, TypeOK
<1>3. ASSUME NEW f \in Files, Import(f), UNCHANGED <<reviewedVars, readVars, set>> PROVE Inv'
  <2>1. LibraryType'
    BY <1>3, ImportKeeps DEF Inv, TypeOK
  <2>2. MetricsType' /\ ReadsType' /\ set' \in Settings
    BY <1>3 DEF Inv, TypeOK, MetricsType, ReadsType, reviewedVars, readVars
  <2>3. \A r \in Readers : ReaderInv(r)'
    BY <1>3, ReaderAfterImport
  <2> QED
    BY <2>1, <2>2, <2>3 DEF Inv, TypeOK
<1>4. ASSUME NEW r \in Readers, Read(r, set.asks), UNCHANGED <<libraryVars, reviewedVars, set>>
      PROVE  Inv'
  <2>1. set.asks \in SUBSET Asks
    BY ReportsAssumption DEF Inv, TypeOK
  <2>2. ReadsType' /\ ReaderInv(r)' /\ Own(r)
    BY <1>4, <2>1, OwnStep
  <2>3. LibraryType' /\ MetricsType' /\ set' \in Settings
    BY <1>4 DEF Inv, TypeOK, LibraryType, MetricsType, libraryVars, reviewedVars
  <2>4. \A q \in Readers : ReaderInv(q)'
    BY <1>4, <2>2, OtherReaders
  <2> QED
    BY <2>2, <2>3, <2>4 DEF Inv, TypeOK
<1>5. CASE UNCHANGED vars
  BY <1>5, Untouched DEF Inv, TypeOK, vars, reviewedVars, MetricsType
<1> QED
  BY <1>1, <1>2, <1>3, <1>4, <1>5 DEF Next

\* The invariant that the theorems below read their property from.
THEOREM Invariance == Spec => []Inv
BY InitInv, NextInv, PTL DEF Spec

-----------------------------------------------------------------------------
\* Every variable keeps its type; in particular no two revisions in the library
\* have the same benchmark and revision string, whatever is imported.
THEOREM TypeCorrect == Spec => []TypeOK
BY Invariance, PTL DEF Inv

\* ListRulesByRevision, GetRuleByRevision and GetRuleByRuleID answer from one
\* revision, though an import may commit between any two of their statements.
THEOREM ReadsWhole == Spec => []ReadsAreWhole
<1>1. Inv => ReadsAreWhole
  BY DEF Inv, ReaderInv, ReadsAreWhole
<1> QED
  BY <1>1, Invariance, PTL

-----------------------------------------------------------------------------
(* The reports as functions of the tables.                                   *)

\* A row of the universe: an enabled asset of the collection that the filter
\* lets through, a benchmark of it, and a rule of the revision released last.
IsRow(j, c, f) ==
    /\ j = Row(j.asset, j.bench, j.rev, j.rule)
    /\ j.asset \in TargetAssets(c, f)
    /\ j.bench \in asset[j.asset].stigs /\ Among(j.bench, f.benches)
    /\ j.rev \in LastReleased(j.bench) /\ j.rule \in RulesOf(j.rev)

\* effective_revisions, rule_universe and joined are these rows.
LEMMA RowsOfJoined ==
  ASSUME TypeOK, NEW c, NEW f
  PROVE  /\ \A j \in Joined(c, f) : IsRow(j, c, f)
         /\ \A a \in TargetAssets(c, f) : \A b \in asset[a].stigs : Among(b, f.benches) =>
               \A i \in LastReleased(b) : \A x \in RulesOf(i) :
                  Row(a, b, i, x) \in Joined(c, f) /\ x \in Rules
<1>1. \A a \in Assets : asset[a].stigs \subseteq Benchmarks
  BY DEF TypeOK, MetricsType, Asset
<1>2. ASSUME NEW j \in Joined(c, f) PROVE IsRow(j, c, f)
  <2>1. PICK k \in Checklists(c, f) : \E i \in LastReleased(k[2]) : \E x \in RulesOf(i) : j = Row(k[1], k[2], i, x)
    BY <1>2 DEF Joined
  <2>2. PICK i \in LastReleased(k[2]) : \E x \in RulesOf(i) : j = Row(k[1], k[2], i, x)
    BY <2>1
  <2>5. PICK x \in RulesOf(i) : j = Row(k[1], k[2], i, x)
    BY <2>2
  <2>3. /\ k[1] \in TargetAssets(c, f) /\ k[2] \in asset[k[1]].stigs /\ Among(k[2], f.benches)
    BY DEF Checklists
  <2>4. j.asset = k[1] /\ j.bench = k[2] /\ j.rev = i /\ j.rule = x
    BY <2>5 DEF Row
  <2> QED
    BY <2>5, <2>3, <2>4 DEF IsRow
<1>3. ASSUME NEW a \in TargetAssets(c, f), NEW b \in asset[a].stigs, Among(b, f.benches),
             NEW i \in LastReleased(b), NEW x \in RulesOf(i)
      PROVE  Row(a, b, i, x) \in Joined(c, f) /\ x \in Rules
  <2>1. a \in Assets /\ b \in Benchmarks
    BY <1>1 DEF TargetAssets
  <2>2. <<a, b>> \in Checklists(c, f)
    BY <1>3, <2>1 DEF Checklists
  <2>3. Row(a, b, i, x) \in Joined(c, f)
    BY <2>2 DEF Joined
  <2>4. i \in live
    BY DEF LastReleased, First, Of
  <2> QED
    BY <2>3, <2>4, LiveIds DEF TypeOK
<1> QED
  BY <1>2, <1>3

\* There are finitely many rows to assess.
LEMMA FiniteJoined ==
  ASSUME TypeOK, NEW c, NEW f
  PROVE  IsFiniteSet(Joined(c, f))
<1> DEFINE J == Joined(c, f)
           Ids == DOMAIN book
           Place == (Assets \X Benchmarks) \X (Ids \X Rules)
           h == [j \in J |-> <<<<j.asset, j.bench>>, <<j.rev, j.rule>>>>]
<1>1. IsFiniteSet(Place)
  <2>1. DOMAIN book = 1..Len(book) /\ Len(book) \in Nat
    BY DEF TypeOK, LibraryType
  <2>2. IsFiniteSet(Ids) /\ IsFiniteSet(Rules)
    BY <2>1, MetricsAssumption, FS_Interval
  <2>3. IsFiniteSet(Assets \X Benchmarks)
    BY MetricsAssumption, FS_Product
  <2> HIDE DEF Ids
  <2>4. IsFiniteSet(Ids \X Rules)
    BY <2>2, FS_Product
  <2> QED
    BY <2>3, <2>4, FS_Product
<1>2. \A j \in J : h[j] = <<<<j.asset, j.bench>>, <<j.rev, j.rule>>>>
  OBVIOUS
<1>3. \A j \in J : IsRow(j, c, f)
  BY RowsOfJoined
<1>4. h \in [J -> Place]
  <2>1. ASSUME NEW j \in J
        PROVE  j.asset \in Assets /\ j.bench \in Benchmarks /\ j.rev \in Ids /\ j.rule \in Rules
    <3>1. j.asset \in Assets /\ j.bench \in asset[j.asset].stigs
      BY <1>3 DEF IsRow, TargetAssets
    <3>2. j.bench \in Benchmarks
      BY <3>1 DEF TypeOK, MetricsType, Asset
    <3>3. j.rev \in live /\ j.rule \in RulesOf(j.rev)
      BY <1>3 DEF IsRow, LastReleased, First, Of
    <3>4. j.rev \in DOMAIN book /\ j.rule \in Rules
      BY <3>3, LiveIds DEF TypeOK
    <3> QED
      BY <3>1, <3>2, <3>4
  <2> HIDE DEF J, Ids
  <2>2. \A j \in J : <<<<j.asset, j.bench>>, <<j.rev, j.rule>>>> \in Place
    BY <2>1
  <2> HIDE DEF Place
  <2> QED
    BY <2>2
<1> HIDE DEF h, J, Place
<1>5. \A x, y \in J : h[x] = h[y] => x = y
  <2> SUFFICES ASSUME NEW x \in J, NEW y \in J, h[x] = h[y] PROVE x = y
    OBVIOUS
  <2>1. x.asset = y.asset /\ x.bench = y.bench /\ x.rev = y.rev /\ x.rule = y.rule
    BY <1>2
  <2>2. x = Row(x.asset, x.bench, x.rev, x.rule) /\ y = Row(y.asset, y.bench, y.rev, y.rule)
    BY <1>3 DEF IsRow
  <2> QED
    BY <2>1, <2>2
<1>6. h \in Injection(J, Place)
  BY <1>4, <1>5, Fun_IsInj
<1> QED
  BY <1>1, <1>6, FS_Injection DEF J

\* Where the dates of the library agree, so do the orders of metrics and of
\* review lists.
LEMMA SameOrder ==
  ASSUME TypeOK, \A i \in live : book[i].dated = book[i].released /\ book[i].dated # 0, NEW b
  PROVE  LastReleased(b) = LastDated(b)
<1>1. Of(b) \subseteq live
  BY DEF Of
<1>2. \A i \in Of(b) : Dated(i) = book[i].released
  BY <1>1 DEF Dated
<1> QED
  BY <1>2 DEF LastReleased, LastDated, First

\* ReviewRepo.List with rules=default and the metrics of the same collection
\* tell of the same reviews, where the dates let them.
THEOREM ListedIsCounted == Spec => []ListedIsAssessed
<1>1. Inv => ListedIsAssessed
  <2> SUFFICES ASSUME Inv, \A i \in live : book[i].dated = book[i].released /\ book[i].dated # 0,
                      NEW c \in Colls
               PROVE  ListReviews(c, "default")
                         = {<<j.asset, j.rule>> : j \in {i \in Joined(c, NoFilter) : HasReview(i)}}
    BY DEF ListedIsAssessed
  <2>1. TypeOK /\ \A b : LastReleased(b) = LastDated(b)
    BY SameOrder DEF Inv
  <2>2. \A a : a \in TargetAssets(c, NoFilter) <=> a \in Assets /\ asset[a].coll = c /\ asset[a].enabled
    BY DEF TargetAssets, NoFilter, Among
  <2>3. \A b : Among(b, NoFilter.benches)
    BY DEF NoFilter, Among
  <2>4. ASSUME NEW k \in ListReviews(c, "default")
        PROVE  \E j \in Joined(c, NoFilter) : HasReview(j) /\ k = <<j.asset, j.rule>>
    <3>1. /\ k \in Assets \X Rules /\ asset[k[1]].coll = c /\ asset[k[1]].enabled
          /\ review[k] # NULL /\ ByDefault(k)
      BY DEF ListReviews, RulesFilter
    <3>2. PICK b \in asset[k[1]].stigs : \E i \in LastDated(b) : k[2] \in RulesOf(i)
      BY <3>1 DEF ByDefault, DefaultRevs
    <3>5. PICK i \in LastDated(b) : k[2] \in RulesOf(i)
      BY <3>2
    <3>3. Row(k[1], b, i, k[2]) \in Joined(c, NoFilter)
      BY <2>1, <2>2, <2>3, <3>1, <3>2, <3>5, RowsOfJoined
    <3>4. k = <<k[1], k[2]>>
      BY <3>1
    <3> QED
      BY <3>1, <3>3, <3>4 DEF Row, HasReview
  <2>5. ASSUME NEW j \in Joined(c, NoFilter), HasReview(j)
        PROVE  <<j.asset, j.rule>> \in ListReviews(c, "default")
    <3>1. IsRow(j, c, NoFilter)
      BY <2>1, RowsOfJoined
    <3>2. /\ j.asset \in Assets /\ asset[j.asset].coll = c /\ asset[j.asset].enabled
          /\ j.bench \in asset[j.asset].stigs /\ j.rev \in LastDated(j.bench) /\ j.rule \in RulesOf(j.rev)
      BY <2>1, <2>2, <3>1 DEF IsRow
    <3>3. j.review = review[<<j.asset, j.rule>>]
      BY <3>1 DEF IsRow, Row
    <3>4. j.rule \in Rules
      <4>1. j.rev \in live
        BY <3>2 DEF LastDated, First, Of
      <4> QED
        BY <2>1, <3>2, <4>1, LiveIds DEF TypeOK
    <3>5. ByDefault(<<j.asset, j.rule>>)
      BY <3>2 DEF ByDefault, DefaultRevs
    <3> QED
      BY <2>5, <3>2, <3>3, <3>4, <3>5 DEF ListReviews, RulesFilter, HasReview
  <2> QED
    BY <2>4, <2>5
<1> QED
  BY <1>1, Invariance, PTL

-----------------------------------------------------------------------------
(* The POA&M.                                                                *)

\* The place of a row of the universe.
PlaceOf(j) == [asset |-> j.asset, rule |-> j.rule, rev |-> j.rev]

\* What a row of the universe says of its rule is what its place says.
LEMMA SaysTheSame ==
  ASSUME NEW j
  PROVE  /\ StigRuleOf(j).severity = SeverityAt(PlaceOf(j))
         /\ \A agg : AggKey(agg, j) = KeyAt(agg, PlaceOf(j))
BY DEF StigRuleOf, SeverityAt, AggKey, KeyAt, GroupAt, PlaceOf

\* The failures are the reviews asked for, each at all of its places and at no
\* other.
LEMMA FailuresAreAsked ==
  ASSUME TypeOK, NEW c, NEW f, f.labels = {}, ~f.unlabeled, NEW acceptedOnly
  PROVE  LET S == Failures(c, f, acceptedOnly)
             P == Fails(c, f, acceptedOnly)
         IN  /\ \A j \in S : /\ PlaceOf(j) \in P
                             /\ j.bench = book[j.rev].bench
                             /\ StigRuleOf(j) \in StigRule
             /\ \A p \in P : \E j \in S : PlaceOf(j) = p
<1> DEFINE S == Failures(c, f, acceptedOnly)
           P == Fails(c, f, acceptedOnly)
<1>1. \A a : a \in TargetAssets(c, f) <=>
             a \in Assets /\ asset[a].coll = c /\ asset[a].enabled /\ Among(a, f.assets)
  BY DEF TargetAssets
<1>2. DOMAIN review = Assets \X Rules
  BY DEF TypeOK, MetricsType
<1>3. ASSUME NEW j \in S
      PROVE  PlaceOf(j) \in P /\ j.bench = book[j.rev].bench /\ StigRuleOf(j) \in StigRule
  <2> DEFINE k == <<j.asset, j.rule>>
  <2>1. IsRow(j, c, f) /\ Failing(j) /\ (acceptedOnly => j.review.status = "accepted")
    BY <1>3, RowsOfJoined DEF Failures
  <2>2. /\ j.asset \in Assets /\ asset[j.asset].coll = c /\ asset[j.asset].enabled /\ Among(j.asset, f.assets)
        /\ j.bench \in asset[j.asset].stigs /\ Among(j.bench, f.benches)
        /\ j.rev \in LastReleased(j.bench) /\ j.rule \in RulesOf(j.rev)
        /\ j.review = review[k]
    BY <1>1, <2>1 DEF IsRow, Row
  <2>3. j.rev \in live /\ book[j.rev].bench = j.bench
    BY <2>2 DEF LastReleased, First, Of
  <2>4. j.rule \in Rules /\ StigRuleOf(j) \in StigRule
    BY <2>2, <2>3, LiveIds DEF TypeOK, StigRuleOf
  <2>5. k \in Reviewed /\ k[1] = j.asset /\ k[2] = j.rule
    BY <1>2, <2>1, <2>2, <2>4 DEF Reviewed, Failing, HasReview
  <2>6. Asked(k, c, f, acceptedOnly)
    BY <2>1, <2>2, <2>5 DEF Asked, Failing
  <2> HIDE DEF k
  <2>7. j.rev \in Places(k, f)
    BY <2>2, <2>5 DEF Places
  <2>8. PlaceOf(j) \in P
    BY <2>5, <2>6, <2>7 DEF Fails, PlaceOf
  <2> QED
    BY <2>3, <2>4, <2>8
<1>4. ASSUME NEW p \in P
      PROVE  \E j \in S : PlaceOf(j) = p
  <2>1. PICK k \in Reviewed : /\ Asked(k, c, f, acceptedOnly)
                              /\ p \in {[asset |-> k[1], rule |-> k[2], rev |-> i] : i \in Places(k, f)}
    BY <1>4 DEF Fails
  <2>2. PICK i \in Places(k, f) : p = [asset |-> k[1], rule |-> k[2], rev |-> i]
    BY <2>1
  <2>3. PICK b \in asset[k[1]].stigs : Among(b, f.benches) /\ i \in LastReleased(b) /\ k[2] \in RulesOf(i)
    BY DEF Places
  <2>4. k \in Assets \X Rules /\ k = <<k[1], k[2]>> /\ review[k] # NULL
    BY <1>2 DEF Reviewed
  <2> DEFINE j == Row(k[1], b, i, k[2])
  <2>5. j \in Joined(c, f)
    BY <1>1, <2>1, <2>3, <2>4, RowsOfJoined DEF Asked
  <2>6. j.asset = k[1] /\ j.rule = k[2] /\ j.rev = i /\ j.review = review[k]
    BY <2>4 DEF Row
  <2> HIDE DEF j
  <2>7. j \in S
    BY <2>1, <2>4, <2>5, <2>6 DEF Failures, Failing, HasReview, Asked
  <2>8. PlaceOf(j) = p
    BY <2>2, <2>6 DEF PlaceOf
  <2> QED
    BY <2>7, <2>8
<1> QED
  BY <1>3, <1>4

\* Of the failures of a key.
OfKey(S, agg, k) == {j \in S : AggKey(agg, j) = k}

\* A finding is that of a key, with what its failures have.
LEMMA FindingsByKey ==
  ASSUME NEW c, NEW f, NEW acceptedOnly, NEW agg
  PROVE  LET S == Failures(c, f, acceptedOnly)
             F == GetFindings(c, f, acceptedOnly, agg)
         IN  /\ \A j \in S : Finding(OfKey(S, agg, AggKey(agg, j)), AggKey(agg, j)) \in F
             /\ \A g \in F : /\ g = Finding(OfKey(S, agg, g.key), g.key)
                             /\ \E j \in S : g.key = AggKey(agg, j)
                             /\ g.severity = Worst(OfKey(S, agg, g.key))
                             /\ g.assets = {j.asset : j \in OfKey(S, agg, g.key)}
                             /\ g.rules = {j.rule : j \in OfKey(S, agg, g.key)}
                             /\ g.stigs = {j.bench : j \in OfKey(S, agg, g.key)}
<1> DEFINE S == Failures(c, f, acceptedOnly)
           F == GetFindings(c, f, acceptedOnly, agg)
<1>1. F = {Finding(OfKey(S, agg, k), k) : k \in {AggKey(agg, j) : j \in S}}
  BY DEF GetFindings, OfKey
<1> HIDE DEF S, F
<1>2. ASSUME NEW g \in F
      PROVE  /\ g = Finding(OfKey(S, agg, g.key), g.key)
             /\ \E j \in S : g.key = AggKey(agg, j)
  <2>1. PICK k \in {AggKey(agg, j) : j \in S} : g = Finding(OfKey(S, agg, k), k)
    BY <1>1
  <2>2. g.key = k
    BY <2>1 DEF Finding
  <2> QED
    BY <2>1, <2>2
<1>3. \A g \in F : /\ g.severity = Worst(OfKey(S, agg, g.key))
                   /\ g.assets = {j.asset : j \in OfKey(S, agg, g.key)}
                   /\ g.rules = {j.rule : j \in OfKey(S, agg, g.key)}
                   /\ g.stigs = {j.bench : j \in OfKey(S, agg, g.key)}
  BY <1>2 DEF Finding
<1>4. \A j \in S : Finding(OfKey(S, agg, AggKey(agg, j)), AggKey(agg, j)) \in F
  BY <1>1
<1> QED
  BY <1>2, <1>3, <1>4 DEF S, F

\* The worst severity is that of one of them and no lower than any.
LEMMA WorstIsWorst ==
  ASSUME NEW S, NEW j \in S, \A i \in S : StigRuleOf(i).severity \in Severities
  PROVE  /\ Worst(S) \in NoLower(StigRuleOf(j).severity)
         /\ Worst(S) \in {StigRuleOf(i).severity : i \in S}
<1> DEFINE has(s) == \E i \in S : StigRuleOf(i).severity = s
<1>1. /\ has("high") => Worst(S) = "high"
      /\ ~has("high") /\ has("medium") => Worst(S) = "medium"
      /\ ~has("high") /\ ~has("medium") /\ has("low") => Worst(S) = "low"
      /\ ~has("high") /\ ~has("medium") /\ ~has("low") => Worst(S) = "unknown"
  BY DEF Worst
<1>2. \A i \in S : StigRuleOf(i).severity \in {"high", "medium", "low", "unknown"}
  BY DEF Severities
<1>3. Worst(S) \in {StigRuleOf(i).severity : i \in S}
  BY <1>1, <1>2
<1>4. Worst(S) \in NoLower(StigRuleOf(j).severity)
  BY <1>1, <1>2 DEF NoLower, Severities
<1> QED
  BY <1>3, <1>4

\* A workbook has as many rows as there are findings.
LEMMA RowPerFinding ==
  ASSUME NEW F, IsFiniteSet(F), \A g, h \in F : g.key = h.key => g = h
  PROVE  Cardinality(Workbook(F)) = Cardinality(F)
<1> DEFINE w(g) == [checks |-> g.key, severity |-> g.severity, category |-> Category(g.severity),
                    assets |-> g.assets, comments |-> g.ccis]
           book1 == [g \in F |-> w(g)]
<1>1. book1 \in Surjection(F, Workbook(F))
  BY DEF Workbook, Surjection
<1>2. \A g \in F : book1[g].checks = g.key
  OBVIOUS
<1>3. book1 \in Injection(F, Workbook(F))
  BY <1>1, <1>2 DEF Injection, IsInjective, Surjection
<1> HIDE DEF book1
<1> QED
  BY <1>1, <1>3, FS_Surjection

\* Where the metrics count a high finding the POA&M has a high row, and only
\* there: both go by the row of stig_rule.
LEMMA HighIsCounted ==
  ASSUME TypeOK, NEW c, NEW f, NEW acceptedOnly, NEW agg
  PROVE  HighInBoth(c, f, acceptedOnly, agg)
<1> SUFFICES ASSUME ~acceptedOnly PROVE HighInBoth(c, f, acceptedOnly, agg)
  BY DEF HighInBoth
<1> DEFINE J == Joined(c, f)
           S == Failures(c, f, acceptedOnly)
           F == GetFindings(c, f, acceptedOnly, agg)
           m == <<"findings", "high">>
           high(j) == Failing(j) /\ StigRuleOf(j).severity = "high"
           of(k) == {j \in {i \in J : <<i.asset, i.bench>> = k} : Counted(j, m)}
<1>1. S = {j \in J : Failing(j)}
  BY DEF Failures
<1>2. (\E g \in F : g.severity = "high") <=> \E j \in J : high(j)
  <2>1. /\ \A j \in S : Finding(OfKey(S, agg, AggKey(agg, j)), AggKey(agg, j)) \in F
        /\ \A g \in F : g.severity = Worst(OfKey(S, agg, g.key))
    BY FindingsByKey
  <2>2. \A T : Worst(T) = "high" <=> \E j \in T : StigRuleOf(j).severity = "high"
    BY DEF Worst
  <2>3. ASSUME NEW g \in F, g.severity = "high" PROVE \E j \in J : high(j)
    BY <1>1, <2>1, <2>2, <2>3 DEF OfKey
  <2>4. ASSUME NEW j \in J, high(j) PROVE \E g \in F : g.severity = "high"
    <3> DEFINE T == OfKey(S, agg, AggKey(agg, j))
               g == Finding(T, AggKey(agg, j))
    <3>1. g \in F /\ j \in T
      BY <1>1, <2>1, <2>4 DEF OfKey
    <3>2. g.severity = Worst(T)
      BY DEF Finding
    <3> HIDE DEF g, T
    <3>3. g.severity = "high"
      BY <2>2, <2>4, <3>1, <3>2
    <3> QED
      BY <3>1, <3>3
  <2> QED
    BY <2>3, <2>4
<1>3. \A j : Counted(j, m) <=> high(j)
  BY DEF Counted
<1>4. \A r \in Unagg(c, f) : \E k : r.counts[m] = Cardinality(of(k))
  <2> SUFFICES ASSUME NEW r \in Unagg(c, f) PROVE \E k : r.counts[m] = Cardinality(of(k))
    OBVIOUS
  <2>1. PICK k : r = [key |-> k, counts |-> Counts({j \in J : <<j.asset, j.bench>> = k})]
    BY DEF Unagg, Grouped
  <2>2. m \in Measures
    BY DEF Measures
  <2> QED
    BY <2>1, <2>2 DEF Counts
<1>5. \A j \in J : \E r \in Unagg(c, f) : r.counts[m] = Cardinality(of(<<j.asset, j.bench>>))
  <2> SUFFICES ASSUME NEW j \in J
               PROVE  \E r \in Unagg(c, f) : r.counts[m] = Cardinality(of(<<j.asset, j.bench>>))
    OBVIOUS
  <2> DEFINE k == <<j.asset, j.bench>>
             r == [key |-> k, counts |-> Counts({i \in J : <<i.asset, i.bench>> = k})]
  <2>1. r \in Unagg(c, f)
    BY DEF Unagg, Grouped
  <2>2. m \in Measures
    BY DEF Measures
  <2>3. r.counts[m] = Cardinality(of(k))
    BY <2>2 DEF Counts
  <2> QED
    BY <2>1, <2>3
<1>6. \A k : IsFiniteSet(of(k)) /\ (Cardinality(of(k)) > 0 <=> \E j \in of(k) : TRUE)
  <2> TAKE k
  <2>1. of(k) \in SUBSET J /\ IsFiniteSet(J)
    BY FiniteJoined
  <2> HIDE DEF of
  <2>2. IsFiniteSet(of(k))
    BY <2>1, FS_Subset
  <2>3. Cardinality(of(k)) \in Nat /\ (Cardinality(of(k)) = 0 <=> of(k) = {})
    BY <2>2, FS_CardinalityType, FS_EmptySet
  <2> QED
    BY <2>2, <2>3
<1>7. ASSUME NEW r \in Unagg(c, f), r.counts[m] > 0 PROVE \E j \in J : high(j)
  BY <1>3, <1>4, <1>6, <1>7
<1>8. ASSUME NEW j \in J, high(j) PROVE \E r \in Unagg(c, f) : r.counts[m] > 0
  <2>1. j \in of(<<j.asset, j.bench>>)
    BY <1>3, <1>8
  <2>2. Cardinality(of(<<j.asset, j.bench>>)) > 0
    BY <1>6, <2>1
  <2> QED
    BY <1>5, <2>2
<1> QED
  BY <1>2, <1>7, <1>8 DEF HighInBoth

\* GetFindings and the workbook made of it have every failing review that was
\* asked for, under what each revision in force says of its rule, and nothing
\* else, with any number of assets, rules and reviews, and whatever is imported.
THEOREM PoamIsComplete == Spec => []PoamCovers
<1>1. Inv => PoamCovers
  <2> SUFFICES ASSUME Inv,
                      NEW c \in Colls, NEW q \in {p \in Queries : p.labels = {} /\ ~p.unlabeled},
                      NEW acceptedOnly \in BOOLEAN, NEW agg \in Aggregators
               PROVE  /\ Covered(c, FilterOf(q), acceptedOnly, agg)
                      /\ HighInBoth(c, FilterOf(q), acceptedOnly, agg)
    BY DEF PoamCovers
  <2> DEFINE f == FilterOf(q)
             S == Failures(c, f, acceptedOnly)
             F == GetFindings(c, f, acceptedOnly, agg)
             fails == Fails(c, f, acceptedOnly)
             at(g) == {p \in fails : KeyAt(agg, p) = g.key}
  <2>1. /\ \A j \in S : /\ PlaceOf(j) \in fails /\ j.bench = book[j.rev].bench
                        /\ StigRuleOf(j) \in StigRule
        /\ \A p \in fails : \E j \in S : PlaceOf(j) = p
    <3>1. TypeOK /\ f.labels = {} /\ ~f.unlabeled
      BY DEF Inv, FilterOf
    <3> HIDE DEF f
    <3> QED
      BY <3>1, FailuresAreAsked
  <2>2. /\ \A j \in S : Finding(OfKey(S, agg, AggKey(agg, j)), AggKey(agg, j)) \in F
        /\ \A g \in F : /\ g = Finding(OfKey(S, agg, g.key), g.key)
                        /\ \E j \in S : g.key = AggKey(agg, j)
                        /\ g.severity = Worst(OfKey(S, agg, g.key))
                        /\ g.assets = {j.asset : j \in OfKey(S, agg, g.key)}
                        /\ g.rules = {j.rule : j \in OfKey(S, agg, g.key)}
                        /\ g.stigs = {j.bench : j \in OfKey(S, agg, g.key)}
    BY FindingsByKey
  <2>3. IsFiniteSet(S)
    <3>1. S \in SUBSET Joined(c, f)
      BY DEF Failures
    <3> QED
      BY <3>1, FiniteJoined, FS_Subset DEF Inv
  <2> HIDE DEF f, S, F, fails
  <2>4. \A j, k : k \in OfKey(S, agg, j) <=> k \in S /\ AggKey(agg, k) = j
    BY DEF OfKey
  <2>5. \A j \in S : /\ StigRuleOf(j).severity \in Severities
                     /\ StigRuleOf(j).severity = SeverityAt(PlaceOf(j))
                     /\ AggKey(agg, j) = KeyAt(agg, PlaceOf(j))
                     /\ PlaceOf(j).asset = j.asset /\ PlaceOf(j).rule = j.rule /\ PlaceOf(j).rev = j.rev
    BY <2>1, SaysTheSame DEF StigRule, PlaceOf
  <2>6. \A g, h \in F : g.key = h.key => g = h
    BY <2>2
  <2>7. ASSUME NEW p \in fails
        PROVE  \E g \in F : /\ g.key = KeyAt(agg, p)
                            /\ p.rule \in g.rules /\ p.asset \in g.assets /\ book[p.rev].bench \in g.stigs
                            /\ g.severity \in NoLower(SeverityAt(p))
    <3>1. PICK j \in S : PlaceOf(j) = p
      BY <2>1
    <3> DEFINE T == OfKey(S, agg, AggKey(agg, j))
               g == Finding(T, AggKey(agg, j))
    <3>2. g \in F /\ g.key = AggKey(agg, j)
      BY <2>2 DEF Finding
    <3> HIDE DEF g
    <3>3. /\ g.severity = Worst(T)
          /\ g.assets = {i.asset : i \in T} /\ g.rules = {i.rule : i \in T} /\ g.stigs = {i.bench : i \in T}
      BY <2>2, <3>2
    <3>4. j \in T /\ \A i \in T : StigRuleOf(i).severity \in Severities
      BY <2>4, <2>5
    <3> HIDE DEF T
    <3>5. g.severity \in NoLower(StigRuleOf(j).severity)
      BY <3>3, <3>4, WorstIsWorst
    <3>6. p.rule \in g.rules /\ p.asset \in g.assets /\ book[p.rev].bench \in g.stigs
      BY <2>1, <2>5, <3>1, <3>3, <3>4
    <3> QED
      BY <2>5, <3>1, <3>2, <3>5, <3>6
  <2>8. ASSUME NEW g \in F
        PROVE  /\ g.severity \in {SeverityAt(p) : p \in at(g)}
               /\ g.assets = {p.asset : p \in at(g)} /\ g.rules = {p.rule : p \in at(g)}
               /\ \E p \in fails : g.key = KeyAt(agg, p)
    <3> DEFINE T == OfKey(S, agg, g.key)
    <3>1. PICK j \in S : g.key = AggKey(agg, j)
      BY <2>2
    <3>2. /\ g.severity = Worst(T)
          /\ g.assets = {i.asset : i \in T} /\ g.rules = {i.rule : i \in T}
      BY <2>2
    <3>3. j \in T /\ \A i \in T : StigRuleOf(i).severity \in Severities
      BY <2>4, <2>5, <3>1
    <3>4. \A i \in T : PlaceOf(i) \in at(g)
      BY <2>1, <2>4, <2>5
    <3>5. \A p \in at(g) : \E i \in T : PlaceOf(i) = p
      BY <2>1, <2>4, <2>5
    <3>6. T \in SUBSET S
      BY <2>4
    <3> HIDE DEF T, at
    <3>7. g.severity \in {SeverityAt(p) : p \in at(g)}
      <4>1. PICK i \in T : g.severity = StigRuleOf(i).severity
        BY <3>2, <3>3, WorstIsWorst
      <4> QED
        BY <2>5, <3>4, <3>6, <4>1
    <3>8. g.assets = {p.asset : p \in at(g)} /\ g.rules = {p.rule : p \in at(g)}
      BY <2>5, <3>2, <3>4, <3>5, <3>6
    <3>9. \E p \in fails : g.key = KeyAt(agg, p)
      BY <2>1, <2>5, <3>1
    <3> QED
      BY <3>7, <3>8, <3>9
  <2>9. {w.checks : w \in Workbook(F)} = {KeyAt(agg, p) : p \in fails}
    <3>1. \A w \in Workbook(F) : \E g \in F : w.checks = g.key
      BY DEF Workbook
    <3>2. ASSUME NEW g \in F PROVE \E w \in Workbook(F) : w.checks = g.key
      <4> DEFINE w == [checks |-> g.key, severity |-> g.severity, category |-> Category(g.severity),
                       assets |-> g.assets, comments |-> g.ccis]
      <4>1. w \in Workbook(F)
        BY DEF Workbook
      <4>2. w.checks = g.key
        OBVIOUS
      <4> QED
        BY <4>1, <4>2
    <3>3. \A p \in fails : \E g \in F : g.key = KeyAt(agg, p)
      BY <2>7
    <3>4. \A g \in F : \E p \in fails : g.key = KeyAt(agg, p)
      BY <2>8
    <3> QED
      BY <3>1, <3>2, <3>3, <3>4
  <2>10. Cardinality(Workbook(F)) = Cardinality(F)
    <3> DEFINE make == [j \in S |-> Finding(OfKey(S, agg, AggKey(agg, j)), AggKey(agg, j))]
    <3>1. \A j \in S : make[j] \in F
      BY <2>2
    <3>2. \A g \in F : \E j \in S : make[j] = g
      BY <2>2
    <3> HIDE DEF make
    <3>3. make \in Surjection(S, F)
      BY <3>1, <3>2 DEF make, Surjection
    <3>4. IsFiniteSet(F)
      BY <2>3, <3>3, FS_Surjection
    <3> QED
      BY <2>6, <3>4, RowPerFinding
  <2>11. Covered(c, f, acceptedOnly, agg)
    BY <2>6, <2>7, <2>8, <2>9, <2>10 DEF F, fails, Covered
  <2>12. HighInBoth(c, f, acceptedOnly, agg)
    BY HighIsCounted DEF Inv
  <2> QED
    BY <2>11, <2>12 DEF f
<1> QED
  BY <1>1, Invariance, PTL

-----------------------------------------------------------------------------
(* The summaries.                                                            *)

\* A one-to-one function onto T, of a finite S, makes T as large.
LEMMA AsMany ==
  ASSUME NEW S, NEW T, IsFiniteSet(S), NEW g \in [S -> T],
         \A x, y \in S : g[x] = g[y] => x = y,
         \A y \in T : \E x \in S : g[x] = y
  PROVE  IsFiniteSet(T) /\ Cardinality(T) = Cardinality(S) /\ ExistsBijection(T, S)
<1>1. g \in Bijection(S, T)
  BY Fun_IsBij
<1>2. ExistsBijection(S, T)
  BY <1>1, Fun_ExistsBij
<1> QED
  BY <1>2, FS_Bijection, Fun_ExistsBijSymmetric

\* The pairs of a place and one of what it counts are as many as the pairs of a
\* place and a number up to the count.
LEMMA Pieces ==
  ASSUME NEW R, NEW D, NEW E,
         \A r \in R : IsFiniteSet(D[r]) /\ E[r] = 1..Cardinality(D[r]),
         IsFiniteSet(Pairs(R, D))
  PROVE  Cardinality(Pairs(R, E)) = Cardinality(Pairs(R, D))
<1> DEFINE P == Pairs(R, D)
           Q == Pairs(R, E)
           b == [r \in R |-> CHOOSE g : g \in Bijection(D[r], E[r])]
           h == [t \in P |-> <<t[1], b[t[1]][t[2]]>>]
<1>1. ASSUME NEW r \in R PROVE b[r] \in Bijection(D[r], E[r])
  <2>1. ExistsBijection(1..Cardinality(D[r]), D[r])
    BY FS_CardinalityType
  <2>2. ExistsBijection(D[r], E[r])
    BY <2>1, Fun_ExistsBijSymmetric
  <2>3. \E g : g \in Bijection(D[r], E[r])
    BY <2>2, Fun_ExistsBij
  <2>4. b[r] = CHOOSE g : g \in Bijection(D[r], E[r])
    OBVIOUS
  <2> HIDE DEF b
  <2> QED
    BY <2>3, <2>4, Zenon
<1> HIDE DEF b
<1>2. \A r \in R : /\ b[r] \in [D[r] -> E[r]]
                   /\ \A x, y \in D[r] : b[r][x] = b[r][y] => x = y
                   /\ \A i \in E[r] : \E x \in D[r] : b[r][x] = i
  <2> TAKE r \in R
  <2> DEFINE g == b[r]
             S == D[r]
             T == E[r]
  <2>1. g \in Bijection(S, T)
    BY <1>1
  <2> HIDE DEF g, S, T
  <2>2. g \in [S -> T] /\ (\A x, y \in S : g[x] = g[y] => x = y) /\ \A i \in T : \E x \in S : g[x] = i
    BY <2>1, Fun_BijectionProperties
  <2> QED
    BY <2>2 DEF g, S, T
<1>3. \A t : t \in P <=> t = <<t[1], t[2]>> /\ t[1] \in R /\ t[2] \in D[t[1]]
  BY DEF Pairs
<1>4. \A t : t \in Q <=> t = <<t[1], t[2]>> /\ t[1] \in R /\ t[2] \in E[t[1]]
  BY DEF Pairs
<1> HIDE DEF P, Q
<1>5. \A t \in P : h[t] = <<t[1], b[t[1]][t[2]]>>
  OBVIOUS
<1>6. h \in [P -> Q]
  <2>1. \A t \in P : <<t[1], b[t[1]][t[2]]>> \in Q
    BY <1>2, <1>3, <1>4
  <2> QED
    BY <2>1
<1> HIDE DEF h
<1>7. ASSUME NEW x \in P, NEW y \in P, h[x] = h[y] PROVE x = y
  <2>1. x[1] = y[1] /\ b[x[1]][x[2]] = b[y[1]][y[2]]
    BY <1>5, <1>7
  <2>2. x[1] \in R /\ x[2] \in D[x[1]] /\ y[2] \in D[x[1]]
    BY <1>3, <2>1
  <2>3. x[2] = y[2]
    BY <1>2, <2>1, <2>2
  <2> QED
    BY <1>3, <2>1, <2>3
<1>8. ASSUME NEW y \in Q PROVE \E x \in P : h[x] = y
  <2>1. y[1] \in R /\ y[2] \in E[y[1]] /\ y = <<y[1], y[2]>>
    BY <1>4
  <2>2. PICK d \in D[y[1]] : b[y[1]][d] = y[2]
    BY <1>2, <2>1
  <2>3. <<y[1], d>> \in P
    BY <1>3, <2>1
  <2>4. h[<<y[1], d>>] = y
    BY <1>5, <2>1, <2>2, <2>3
  <2> QED
    BY <2>3, <2>4
<1> QED
  BY <1>6, <1>7, <1>8, AsMany DEF P, Q

\* The rows by a column p of the universe J.
RowsBy(J, p) ==
    {[key |-> k, counts |-> Counts({j \in J : p[j] = k})] : k \in {p[j] : j \in J}}

\* The counts of the rows of a GROUP BY add up to those of the whole.
LEMMA GroupedTotal ==
  ASSUME NEW J, IsFiniteSet(J), NEW p, DOMAIN p = J
  PROVE  Total(RowsBy(J, p)) = Counts(J)
<1> DEFINE R == RowsBy(J, p)
<1>1. ASSUME NEW m \in Measures
      PROVE  Cardinality(Pairs(R, [r \in R |-> 1..r.counts[m]])) = Cardinality({j \in J : Counted(j, m)})
  <2> DEFINE C == {j \in J : Counted(j, m)}
             D == [r \in R |-> {j \in C : p[j] = r.key}]
             E == [r \in R |-> 1..r.counts[m]]
             P == Pairs(R, D)
             row == [j \in C |-> [key |-> p[j], counts |-> Counts({i \in J : p[i] = p[j]})]]
             h == [j \in C |-> <<row[j], j>>]
  <2>1. IsFiniteSet(C)
    BY FS_Subset
  <2>2. \A r \in R : r = [key |-> r.key, counts |-> Counts({j \in J : p[j] = r.key})]
    <3> SUFFICES ASSUME NEW r \in R PROVE r = [key |-> r.key, counts |-> Counts({j \in J : p[j] = r.key})]
      OBVIOUS
    <3>1. PICK k \in {p[j] : j \in J} : r = [key |-> k, counts |-> Counts({j \in J : p[j] = k})]
      BY DEF RowsBy
    <3>2. r.key = k
      BY <3>1
    <3> QED
      BY <3>1, <3>2
  <2>3. ASSUME NEW r \in R PROVE IsFiniteSet(D[r]) /\ E[r] = 1..Cardinality(D[r])
    <3>1. r.counts[m] = Cardinality({j \in {i \in J : p[i] = r.key} : Counted(j, m)})
      BY <2>2 DEF Counts
    <3>2. {j \in {i \in J : p[i] = r.key} : Counted(j, m)} = D[r]
      OBVIOUS
    <3>3. D[r] \in SUBSET C
      OBVIOUS
    <3> QED
      BY <2>1, <3>1, <3>2, <3>3, FS_Subset
  <2>4. \A j \in C : row[j] \in R /\ row[j].key = p[j]
    BY DEF RowsBy
  <2>5. \A j \in C : h[j] = <<row[j], j>>
    OBVIOUS
  <2>6. \A t : t \in P <=> t = <<t[1], t[2]>> /\ t[1] \in R /\ t[2] \in C /\ p[t[2]] = t[1].key
    BY DEF Pairs
  <2>7. \A r \in R : \A j \in C : p[j] = r.key => row[j] = r
    BY <2>2
  <2> HIDE DEF row, C, R
  <2>8. h \in [C -> P]
    <3>1. \A j \in C : <<row[j], j>> \in P
      BY <2>4, <2>6
    <3> QED
      BY <3>1
  <2> HIDE DEF h, P
  <2>9. \A x, y \in C : h[x] = h[y] => x = y
    BY <2>5
  <2>10. ASSUME NEW t \in P PROVE \E j \in C : h[j] = t
    BY <2>5, <2>6, <2>7
  <2>11. IsFiniteSet(P) /\ Cardinality(P) = Cardinality(C)
    BY <2>1, <2>8, <2>9, <2>10, AsMany
  <2> HIDE DEF D, E
  <2>12. Cardinality(Pairs(R, E)) = Cardinality(P)
    BY <2>3, <2>11, Pieces DEF P
  <2> QED
    BY <2>11, <2>12 DEF C, E
<1>2. \A m \in Measures : Total(R)[m] = Counts(J)[m]
  BY <1>1 DEF Total, Counts
<1>3. DOMAIN Total(R) = Measures /\ DOMAIN Counts(J) = Measures
  BY DEF Total, Counts
<1> HIDE DEF R
<1>4. Total(R) = [m \in Measures |-> Total(R)[m]] /\ Counts(J) = [m \in Measures |-> Counts(J)[m]]
  BY DEF Total, Counts
<1>5. [m \in Measures |-> Total(R)[m]] = [m \in Measures |-> Counts(J)[m]]
  BY <1>2
<1> QED
  BY <1>4, <1>5 DEF R

\* What is finite stays finite where the labels of each of its assets are added.
LEMMA FiniteLabelled ==
  ASSUME TypeOK, NEW C, IsFiniteSet(C), NEW a, DOMAIN a = C, \A j \in C : a[j] \in Assets
  PROVE  IsFiniteSet(Pairs(C, [j \in C |-> LabelsOf(a[j])]))
<1>1. \A j \in C : LabelsOf(a[j]) \subseteq Labels \cup {NULL}
  BY DEF TypeOK, MetricsType, Asset, LabelsOf
<1>2. IsFiniteSet(Labels \cup {NULL})
  BY MetricsAssumption, FS_AddElement
<1>3. IsFiniteSet(C \X (Labels \cup {NULL}))
  BY <1>2, FS_Product
<1>4. Pairs(C, [j \in C |-> LabelsOf(a[j])]) \subseteq C \X (Labels \cup {NULL})
  BY <1>1 DEF Pairs
<1> QED
  BY <1>3, <1>4, FS_Subset

\* The rows of AggLabel over J.
LabelRows(J) ==
    {[key |-> l, counts |-> Counts({j \in J : l \in LabelsOf(j.asset)})] :
        l \in UNION {LabelsOf(j.asset) : j \in J}}

\* What label rows add up to: a rule counts as often as its asset has a label row.
LEMMA LabelTotal ==
  ASSUME TypeOK, NEW J, IsFiniteSet(J), \A j \in J : j.asset \in Assets, NEW m \in Measures
  PROVE  LET C == {j \in J : Counted(j, m)}
         IN  Total(LabelRows(J))[m] = Cardinality(Pairs(C, [j \in C |-> LabelsOf(j.asset)]))
<1> DEFINE C == {j \in J : Counted(j, m)}
           R == LabelRows(J)
           D == [r \in R |-> {j \in C : r.key \in LabelsOf(j.asset)}]
           E == [r \in R |-> 1..r.counts[m]]
           P == Pairs(R, D)
           A == [j \in C |-> j.asset]
           V == Pairs(C, [j \in C |-> LabelsOf(A[j])])
           row == [t \in V |-> [key |-> t[2], counts |-> Counts({j \in J : t[2] \in LabelsOf(j.asset)})]]
           h == [t \in V |-> <<row[t], t[1]>>]
<1>1. IsFiniteSet(C) /\ IsFiniteSet(V)
  <2>1. IsFiniteSet(C)
    BY FS_Subset
  <2> QED
    BY <2>1, FiniteLabelled
<1>2. \A r \in R : r = [key |-> r.key, counts |-> Counts({j \in J : r.key \in LabelsOf(j.asset)})]
  <2> SUFFICES ASSUME NEW r \in R
               PROVE  r = [key |-> r.key, counts |-> Counts({j \in J : r.key \in LabelsOf(j.asset)})]
    OBVIOUS
  <2>1. PICK k \in UNION {LabelsOf(j.asset) : j \in J} :
           r = [key |-> k, counts |-> Counts({j \in J : k \in LabelsOf(j.asset)})]
    BY DEF LabelRows
  <2>2. r.key = k
    BY <2>1
  <2> QED
    BY <2>1, <2>2
<1>3. ASSUME NEW r \in R PROVE IsFiniteSet(D[r]) /\ E[r] = 1..Cardinality(D[r])
  <2>1. r.counts[m] = Cardinality({j \in {i \in J : r.key \in LabelsOf(i.asset)} : Counted(j, m)})
    BY <1>2 DEF Counts
  <2>2. {j \in {i \in J : r.key \in LabelsOf(i.asset)} : Counted(j, m)} = D[r]
    OBVIOUS
  <2>3. D[r] \in SUBSET C
    OBVIOUS
  <2> QED
    BY <1>1, <2>1, <2>2, <2>3, FS_Subset
<1>4. \A t : t \in V <=> t = <<t[1], t[2]>> /\ t[1] \in C /\ t[2] \in LabelsOf(t[1].asset)
  BY DEF Pairs
<1>5. \A t : t \in P <=> t = <<t[1], t[2]>> /\ t[1] \in R /\ t[2] \in C /\ t[1].key \in LabelsOf(t[2].asset)
  BY DEF Pairs
<1>12. C \subseteq J
  OBVIOUS
<1>13. \A t \in V : row[t] = [key |-> t[2], counts |-> Counts({j \in J : t[2] \in LabelsOf(j.asset)})]
  OBVIOUS
<1>14. \A t \in V : h[t] = <<row[t], t[1]>>
  OBVIOUS
<1> HIDE DEF C, V, row
<1>6. \A t \in V : row[t] \in R /\ row[t].key = t[2]
  <2> TAKE t \in V
  <2>1. t[1] \in J /\ t[2] \in LabelsOf(t[1].asset)
    BY <1>4, <1>12
  <2>2. t[2] \in UNION {LabelsOf(j.asset) : j \in J}
    BY <2>1
  <2>3. [key |-> t[2], counts |-> Counts({j \in J : t[2] \in LabelsOf(j.asset)})] \in R
    BY <2>2 DEF LabelRows
  <2> QED
    BY <2>3, <1>13
<1> HIDE DEF R, D, E
<1>7. h \in [V -> P]
  <2>1. \A t \in V : <<row[t], t[1]>> \in P
    BY <1>4, <1>5, <1>6
  <2> QED
    BY <2>1
<1> HIDE DEF h, P
<1>8. \A x, y \in V : h[x] = h[y] => x = y
  <2> SUFFICES ASSUME NEW x \in V, NEW y \in V, h[x] = h[y] PROVE x = y
    OBVIOUS
  <2>1. row[x] = row[y] /\ x[1] = y[1]
    BY <1>14
  <2>2. x[2] = y[2]
    BY <1>6, <2>1
  <2> QED
    BY <1>4, <2>1, <2>2
<1>9. ASSUME NEW t \in P PROVE \E x \in V : h[x] = t
  <2>1. t = <<t[1], t[2]>> /\ t[1] \in R /\ t[2] \in C /\ t[1].key \in LabelsOf(t[2].asset)
    BY <1>5
  <2> DEFINE x == <<t[2], t[1].key>>
  <2>2. x \in V /\ x[1] = t[2] /\ x[2] = t[1].key
    BY <1>4, <2>1
  <2>3. row[x] = t[1]
    BY <1>2, <1>13, <2>1, <2>2
  <2>4. h[x] = t
    BY <1>14, <2>1, <2>2, <2>3
  <2> QED
    BY <2>2, <2>4
<1>10. IsFiniteSet(P) /\ Cardinality(P) = Cardinality(V)
  BY <1>1, <1>7, <1>8, <1>9, AsMany
<1>11. Cardinality(Pairs(R, E)) = Cardinality(P)
  BY <1>3, <1>10, Pieces DEF P
<1>15. Total(R)[m] = Cardinality(Pairs(R, E))
  BY DEF Total, E
<1>16. [j \in C |-> LabelsOf(A[j])] = [j \in C |-> LabelsOf(j.asset)]
  OBVIOUS
<1> QED
  BY <1>10, <1>11, <1>15, <1>16 DEF R, V, C

\* The rows of assets, weighted by their labels, add up to the same.
LEMMA WeightedTotal ==
  ASSUME TypeOK, NEW J, IsFiniteSet(J), \A j \in J : j.asset \in Assets, NEW m \in Measures
  PROVE  LET C == {j \in J : Counted(j, m)}
         IN  Weighted(RowsBy(J, [j \in J |-> j.asset]))[m] = Cardinality(Pairs(C, [j \in C |-> LabelsOf(j.asset)]))
<1> DEFINE C == {j \in J : Counted(j, m)}
           p == [j \in J |-> j.asset]
           R == RowsBy(J, p)
           L == [r \in R |-> LabelsOf(r.key)]
           I == Pairs(R, L)
           D == [i \in I |-> {j \in C : j.asset = i[1].key}]
           E == [i \in I |-> 1..i[1].counts[m]]
           P == Pairs(I, D)
           A == [j \in C |-> j.asset]
           V == Pairs(C, [j \in C |-> LabelsOf(A[j])])
           row == [j \in J |-> [key |-> j.asset, counts |-> Counts({i \in J : i.asset = j.asset})]]
           h == [t \in V |-> <<<<row[t[1]], t[2]>>, t[1]>>]
<1>1. IsFiniteSet(C) /\ IsFiniteSet(V)
  <2>1. IsFiniteSet(C)
    BY FS_Subset
  <2> QED
    BY <2>1, FiniteLabelled
<1>2. \A r \in R : r = [key |-> r.key, counts |-> Counts({j \in J : j.asset = r.key})]
  <2> SUFFICES ASSUME NEW r \in R
               PROVE  r = [key |-> r.key, counts |-> Counts({j \in J : j.asset = r.key})]
    OBVIOUS
  <2>1. PICK k \in {p[j] : j \in J} : r = [key |-> k, counts |-> Counts({j \in J : p[j] = k})]
    BY DEF RowsBy
  <2>2. r.key = k /\ {j \in J : p[j] = k} = {j \in J : j.asset = k}
    BY <2>1
  <2> QED
    BY <2>1, <2>2
<1>3. ASSUME NEW r \in R
      PROVE  r.counts[m] = Cardinality({j \in C : j.asset = r.key})
  <2>1. r.counts[m] = Cardinality({j \in {i \in J : i.asset = r.key} : Counted(j, m)})
    BY <1>2 DEF Counts
  <2>2. {j \in {i \in J : i.asset = r.key} : Counted(j, m)} = {j \in C : j.asset = r.key}
    OBVIOUS
  <2> QED
    BY <2>1, <2>2
<1>4. \A i : i \in I <=> i = <<i[1], i[2]>> /\ i[1] \in R /\ i[2] \in LabelsOf(i[1].key)
  BY DEF Pairs
<1>5. ASSUME NEW i \in I PROVE IsFiniteSet(D[i]) /\ E[i] = 1..Cardinality(D[i])
  <2>1. D[i] \in SUBSET C
    OBVIOUS
  <2>2. i[1].counts[m] = Cardinality(D[i])
    BY <1>3, <1>4
  <2> QED
    BY <1>1, <2>1, <2>2, FS_Subset
<1>6. \A t : t \in V <=> t = <<t[1], t[2]>> /\ t[1] \in C /\ t[2] \in LabelsOf(t[1].asset)
  BY DEF Pairs
<1>19. \A i \in I : \A j : j \in D[i] <=> j \in C /\ j.asset = i[1].key
  OBVIOUS
<1> HIDE DEF D, I
<1>7. \A t : t \in P <=> t = <<t[1], t[2]>> /\ t[1] \in I /\ t[2] \in C /\ t[2].asset = t[1][1].key
  BY <1>19 DEF Pairs
<1>8. \A j \in C : row[j] = [key |-> j.asset, counts |-> Counts({i \in J : i.asset = j.asset})]
  OBVIOUS
<1>9. \A j \in C : row[j] \in R /\ row[j].key = j.asset
  <2> TAKE j \in C
  <2>1. p[j] \in {p[i] : i \in J} /\ p[j] = j.asset
    OBVIOUS
  <2>2. [key |-> p[j], counts |-> Counts({i \in J : p[i] = p[j]})] \in R
    BY <2>1 DEF RowsBy
  <2>3. {i \in J : p[i] = p[j]} = {i \in J : i.asset = j.asset}
    OBVIOUS
  <2> HIDE DEF p, R
  <2> QED
    BY <1>8, <2>1, <2>2, <2>3
<1>10. \A t \in V : h[t] = <<<<row[t[1]], t[2]>>, t[1]>>
  OBVIOUS
<1>11. I = Pairs(R, [r \in R |-> LabelsOf(r.key)])
  BY DEF I
<1> HIDE DEF C, V, row, R, E
<1>12. h \in [V -> P]
  <2>1. \A t \in V : <<<<row[t[1]], t[2]>>, t[1]>> \in P
    <3> TAKE t \in V
    <3> DEFINE i == <<row[t[1]], t[2]>>
    <3>1. t[1] \in C /\ t[2] \in LabelsOf(t[1].asset) /\ row[t[1]] \in R /\ row[t[1]].key = t[1].asset
      BY <1>6, <1>9
    <3>2. i[1] = row[t[1]] /\ i[2] = t[2] /\ i = <<i[1], i[2]>>
      OBVIOUS
    <3>3. i \in I
      BY <1>4, <3>1, <3>2
    <3> HIDE DEF i
    <3>4. <<i, t[1]>> \in P
      BY <1>7, <3>1, <3>2, <3>3
    <3> QED
      BY <3>4 DEF i
  <2> QED
    BY <2>1
<1> HIDE DEF h, P
<1>13. \A x, y \in V : h[x] = h[y] => x = y
  <2> SUFFICES ASSUME NEW x \in V, NEW y \in V, h[x] = h[y] PROVE x = y
    OBVIOUS
  <2>1. x[2] = y[2] /\ x[1] = y[1]
    BY <1>10
  <2> QED
    BY <1>6, <2>1
<1>14. ASSUME NEW t \in P PROVE \E x \in V : h[x] = t
  <2> DEFINE i == t[1]
             j == t[2]
             x == <<j, i[2]>>
  <2>1. t = <<i, j>> /\ i \in I /\ j \in C /\ j.asset = i[1].key
    BY <1>7
  <2>2. i = <<i[1], i[2]>> /\ i[1] \in R /\ i[2] \in LabelsOf(i[1].key)
    BY <1>4, <2>1
  <2> HIDE DEF i, j
  <2>3. x \in V /\ x[1] = j /\ x[2] = i[2]
    BY <1>6, <2>1, <2>2
  <2>4. row[j] = i[1]
    <3> DEFINE S == {y \in J : y.asset = j.asset}
    <3>1. i[1] = [key |-> j.asset, counts |-> Counts(S)]
      BY <1>2, <2>1, <2>2
    <3>2. row[j] = [key |-> j.asset, counts |-> Counts(S)]
      BY <1>8, <2>1
    <3> QED
      BY <3>1, <3>2
  <2>5. h[x] = <<<<row[j], i[2]>>, j>>
    BY <1>10, <2>3
  <2>6. h[x] = t
    BY <2>1, <2>2, <2>4, <2>5
  <2> QED
    BY <2>3, <2>6
<1>15. IsFiniteSet(P) /\ Cardinality(P) = Cardinality(V)
  BY <1>1, <1>12, <1>13, <1>14, AsMany
<1>16. Cardinality(Pairs(I, E)) = Cardinality(P)
  BY <1>5, <1>15, Pieces DEF P
<1>17. Weighted(R)[m] = Cardinality(Pairs(I, E))
  BY <1>11 DEF Weighted, E
<1>18. [j \in C |-> LabelsOf(A[j])] = [j \in C |-> LabelsOf(j.asset)]
  OBVIOUS
<1> QED
  BY <1>15, <1>16, <1>17, <1>18 DEF R, V, C

\* Sets that have nothing in common are together as large as their sum.
LEMMA Apart ==
  ASSUME NEW A, NEW B, IsFiniteSet(A), IsFiniteSet(B), A \cap B = {}
  PROVE  IsFiniteSet(A \cup B) /\ Cardinality(A \cup B) = Cardinality(A) + Cardinality(B)
<1>1. Cardinality(A) \in Nat /\ Cardinality(B) \in Nat
  BY FS_CardinalityType
<1>2. Cardinality(A \cap B) = 0
  BY FS_EmptySet
<1>3. IsFiniteSet(A \cup B) /\ Cardinality(A \cup B) = Cardinality(A) + Cardinality(B) - Cardinality(A \cap B)
  BY FS_Union
<1> QED
  BY <1>1, <1>2, <1>3

\* Every review has a result and a status.
LEMMA Reviews ==
  ASSUME TypeOK, NEW c, NEW f
  PROVE  \A j \in Joined(c, f) : HasReview(j) => j.review.result \in Results /\ j.review.status \in Statuses
<1> SUFFICES ASSUME NEW j \in Joined(c, f), HasReview(j)
             PROVE  j.review.result \in Results /\ j.review.status \in Statuses
  OBVIOUS
<1>1. IsRow(j, c, f)
  BY RowsOfJoined
<1>2. j.asset \in Assets /\ j.rev \in live /\ j.rule \in RulesOf(j.rev) /\ j.review = review[<<j.asset, j.rule>>]
  BY <1>1 DEF IsRow, TargetAssets, LastReleased, First, Of, Row
<1>3. <<j.asset, j.rule>> \in Assets \X Rules
  BY <1>2, LiveIds DEF TypeOK
<1>4. j.review \in Review
  BY <1>2, <1>3 DEF TypeOK, MetricsType, HasReview
<1> QED
  BY <1>4 DEF Review

\* Of the rules that are assessed, each counts in one result and in one status,
\* and as a finding only if it fails.
LEMMA OneOfEach ==
  ASSUME NEW J, IsFiniteSet(J), NEW W, W = Counts(J),
         \A j \in J : HasReview(j) => j.review.result \in Results /\ j.review.status \in Statuses
  PROVE  /\ W[<<"assessed", "any">>] = W[<<"result", "pass">>] + W[<<"result", "fail">>]
                                       + W[<<"result", "notapplicable">>] + W[<<"result", "other">>]
         /\ W[<<"assessed", "any">>] = W[<<"status", "saved">>] + W[<<"status", "submitted">>]
                                       + W[<<"status", "accepted">>] + W[<<"status", "rejected">>]
         /\ W[<<"result", "fail">>] >= W[<<"findings", "high">>] + W[<<"findings", "medium">>]
                                       + W[<<"findings", "low">>]
<1> DEFINE Of4(a, b) == {j \in J : Counted(j, <<a, b>>)}
           A == {j \in J : HasReview(j)}
           R(x) == {j \in J : HasReview(j) /\ Class(j.review.result) = x}
           S(x) == {j \in J : HasReview(j) /\ j.review.status = x}
           F(x) == {j \in J : Failing(j) /\ StigRuleOf(j).severity = x}
<1>1. \A m \in Measures : W[m] = Cardinality({j \in J : Counted(j, m)})
  BY DEF Counts
<1>2. W[<<"assessed", "any">>] = Cardinality(A)
  <2>1. <<"assessed", "any">> \in Measures
    BY DEF Measures
  <2>2. {j \in J : Counted(j, <<"assessed", "any">>)} = A
    BY DEF Counted
  <2> QED
    BY <1>1, <2>1, <2>2
<1>3. \A x \in {"pass", "fail", "notapplicable", "other"} : W[<<"result", x>>] = Cardinality(R(x))
  <2> TAKE x \in {"pass", "fail", "notapplicable", "other"}
  <2>1. <<"result", x>> \in Measures
    BY DEF Measures
  <2>2. {j \in J : Counted(j, <<"result", x>>)} = R(x)
    BY DEF Counted
  <2> QED
    BY <1>1, <2>1, <2>2
<1>4. \A x \in Statuses : W[<<"status", x>>] = Cardinality(S(x))
  <2> TAKE x \in Statuses
  <2>1. <<"status", x>> \in Measures
    BY DEF Measures
  <2>2. {j \in J : Counted(j, <<"status", x>>)} = S(x)
    BY DEF Counted
  <2> QED
    BY <1>1, <2>1, <2>2
<1>5. \A x \in {"high", "medium", "low"} : W[<<"findings", x>>] = Cardinality(F(x))
  <2> TAKE x \in {"high", "medium", "low"}
  <2>1. <<"findings", x>> \in Measures
    BY DEF Measures
  <2>2. {j \in J : Counted(j, <<"findings", x>>)} = F(x)
    BY DEF Counted
  <2> QED
    BY <1>1, <2>1, <2>2
<1>6. \A x : /\ IsFiniteSet(R(x)) /\ Cardinality(R(x)) \in Nat
             /\ IsFiniteSet(S(x)) /\ Cardinality(S(x)) \in Nat
             /\ IsFiniteSet(F(x)) /\ Cardinality(F(x)) \in Nat
  <2> TAKE x
  <2>1. R(x) \in SUBSET J /\ S(x) \in SUBSET J /\ F(x) \in SUBSET J
    OBVIOUS
  <2>2. IsFiniteSet(R(x)) /\ IsFiniteSet(S(x)) /\ IsFiniteSet(F(x))
    BY <2>1, FS_Subset
  <2> QED
    BY <2>2, FS_CardinalityType
<1>7. /\ \A x, y : x # y => R(x) \cap R(y) = {} /\ S(x) \cap S(y) = {} /\ F(x) \cap F(y) = {}
      /\ A = R("pass") \cup R("fail") \cup R("notapplicable") \cup R("other")
      /\ A = S("saved") \cup S("submitted") \cup S("accepted") \cup S("rejected")
      /\ F("high") \cup F("medium") \cup F("low") \in SUBSET R("fail")
  <2>1. \A j \in A : Class(j.review.result) \in {"pass", "fail", "notapplicable", "other"}
    BY DEF Class
  <2>2. A = R("pass") \cup R("fail") \cup R("notapplicable") \cup R("other")
    BY <2>1
  <2>3. A = S("saved") \cup S("submitted") \cup S("accepted") \cup S("rejected")
    BY DEF Statuses
  <2>4. F("high") \cup F("medium") \cup F("low") \in SUBSET R("fail")
    BY DEF Failing, Class
  <2> QED
    BY <2>2, <2>3, <2>4
<1> HIDE DEF A, R, S, F
<1>8. Cardinality(A) = Cardinality(R("pass")) + Cardinality(R("fail"))
                       + Cardinality(R("notapplicable")) + Cardinality(R("other"))
  <2> DEFINE B == R("pass") \cup R("fail")
             C == B \cup R("notapplicable")
  <2>1. IsFiniteSet(B) /\ Cardinality(B) = Cardinality(R("pass")) + Cardinality(R("fail"))
    BY <1>6, <1>7, Apart
  <2>2. B \cap R("notapplicable") = {} /\ C \cap R("other") = {} /\ A = C \cup R("other")
    BY <1>7
  <2> HIDE DEF B
  <2>3. IsFiniteSet(C) /\ Cardinality(C) = Cardinality(B) + Cardinality(R("notapplicable"))
    BY <1>6, <2>1, <2>2, Apart
  <2> HIDE DEF C
  <2>4. Cardinality(A) = Cardinality(C) + Cardinality(R("other"))
    BY <1>6, <2>2, <2>3, Apart
  <2> QED
    BY <2>1, <2>3, <2>4
<1>9. Cardinality(A) = Cardinality(S("saved")) + Cardinality(S("submitted"))
                       + Cardinality(S("accepted")) + Cardinality(S("rejected"))
  <2> DEFINE B == S("saved") \cup S("submitted")
             C == B \cup S("accepted")
  <2>1. IsFiniteSet(B) /\ Cardinality(B) = Cardinality(S("saved")) + Cardinality(S("submitted"))
    BY <1>6, <1>7, Apart, ZenonT(30)
  <2>2. B \cap S("accepted") = {} /\ C \cap S("rejected") = {} /\ A = C \cup S("rejected")
    BY <1>7
  <2> HIDE DEF B
  <2>3. IsFiniteSet(C) /\ Cardinality(C) = Cardinality(B) + Cardinality(S("accepted"))
    BY <1>6, <2>1, <2>2, Apart
  <2> HIDE DEF C
  <2>4. Cardinality(A) = Cardinality(C) + Cardinality(S("rejected"))
    BY <1>6, <2>2, <2>3, Apart
  <2> QED
    BY <2>1, <2>3, <2>4
<1>10. Cardinality(R("fail")) >= Cardinality(F("high")) + Cardinality(F("medium")) + Cardinality(F("low"))
  <2> DEFINE B == F("high") \cup F("medium")
             C == B \cup F("low")
  <2>1. IsFiniteSet(B) /\ Cardinality(B) = Cardinality(F("high")) + Cardinality(F("medium"))
    BY <1>6, <1>7, Apart, SMTT(30)
  <2>2. B \cap F("low") = {} /\ C \in SUBSET R("fail")
    BY <1>7
  <2> HIDE DEF B
  <2>3. IsFiniteSet(C) /\ Cardinality(C) = Cardinality(B) + Cardinality(F("low"))
    BY <1>6, <2>1, <2>2, Apart
  <2> HIDE DEF C
  <2>4. Cardinality(R("fail")) >= Cardinality(C) /\ Cardinality(C) \in Nat
    BY <1>6, <2>2, <2>3, FS_Subset, FS_CardinalityType
  <2> QED
    BY <1>6, <2>1, <2>3, <2>4
<1>11. W[<<"assessed", "any">>] = W[<<"result", "pass">>] + W[<<"result", "fail">>]
                                  + W[<<"result", "notapplicable">>] + W[<<"result", "other">>]
  BY <1>2, <1>3, <1>8
<1>12. W[<<"assessed", "any">>] = W[<<"status", "saved">>] + W[<<"status", "submitted">>]
                                  + W[<<"status", "accepted">>] + W[<<"status", "rejected">>]
  BY <1>2, <1>4, <1>9 DEF Statuses
<1>13. W[<<"result", "fail">>] >= W[<<"findings", "high">>] + W[<<"findings", "medium">>]
                                  + W[<<"findings", "low">>]
  BY <1>3, <1>5, <1>10
<1> QED
  BY <1>11, <1>12, <1>13

\* Whatever is written and imported, every summary of a collection tells the
\* same of it: the sums are those of its rows to assess.
LEMMA SummariesAgree == TypeOK => ReportsAgree
<1> SUFFICES ASSUME TypeOK, NEW c \in Colls, NEW q \in Queries
             PROVE  LET f == FilterOf(q)
                        W == Total(Unagg(c, f))
                    IN  /\ Total(AggAsset(c, f)) = W
                        /\ Total(AggStig(c, f)) = W
                        /\ Total(AggLabel(c, f)) = Weighted(AggAsset(c, f))
                        /\ Unagg(c, f) # {} => \E r \in AggCollection(c, f) : r.coll = c /\ r.counts = W
                        /\ W[<<"assessed", "any">>] = W[<<"result", "pass">>] + W[<<"result", "fail">>]
                                                      + W[<<"result", "notapplicable">>] + W[<<"result", "other">>]
                        /\ W[<<"assessed", "any">>] = W[<<"status", "saved">>] + W[<<"status", "submitted">>]
                                                      + W[<<"status", "accepted">>] + W[<<"status", "rejected">>]
                        /\ W[<<"result", "fail">>] >= W[<<"findings", "high">>] + W[<<"findings", "medium">>]
                                                      + W[<<"findings", "low">>]
  BY DEF ReportsAgree
<1> DEFINE f == FilterOf(q)
           W == Total(Unagg(c, f))
           J == Joined(c, f)
<1> HIDE DEF f
<1>1. IsFiniteSet(J)
  BY FiniteJoined
<1>2. /\ \A j \in J : j.asset \in Assets
      /\ \A j \in J : HasReview(j) => j.review.result \in Results /\ j.review.status \in Statuses
  BY RowsOfJoined, Reviews DEF IsRow, TargetAssets
<1>3. /\ Unagg(c, f) = RowsBy(J, [j \in J |-> <<j.asset, j.bench>>])
      /\ AggAsset(c, f) = RowsBy(J, [j \in J |-> j.asset])
      /\ AggStig(c, f) = RowsBy(J, [j \in J |-> j.bench])
      /\ AggLabel(c, f) = LabelRows(J)
  BY DEF Unagg, AggAsset, AggStig, AggLabel, Grouped, RowsBy, LabelRows
<1>4. W = Counts(J) /\ Total(AggAsset(c, f)) = Counts(J) /\ Total(AggStig(c, f)) = Counts(J)
  BY <1>1, <1>3, GroupedTotal
<1>5. Total(AggLabel(c, f)) = Weighted(AggAsset(c, f))
  <2>1. \A m \in Measures : Total(LabelRows(J))[m] = Weighted(RowsBy(J, [j \in J |-> j.asset]))[m]
    BY <1>1, <1>2, LabelTotal, WeightedTotal
  <2> DEFINE S == LabelRows(J)
             R == RowsBy(J, [j \in J |-> j.asset])
  <2> HIDE DEF S, R
  <2>2. Total(S) = [m \in Measures |-> Total(S)[m]] /\ Weighted(R) = [m \in Measures |-> Weighted(R)[m]]
    BY DEF Total, Weighted
  <2>3. [m \in Measures |-> Total(S)[m]] = [m \in Measures |-> Weighted(R)[m]]
    BY <2>1 DEF S, R
  <2> QED
    BY <1>3, <2>2, <2>3 DEF S, R
<1>6. ASSUME Unagg(c, f) # {} PROVE \E r \in AggCollection(c, f) : r.coll = c /\ r.counts = W
  <2>1. J # {}
    BY <1>3, <1>6 DEF RowsBy
  <2> DEFINE r == [coll |-> c, assets |-> Cardinality(TargetAssets(c, f)),
                   stigs |-> Cardinality({k[2] : k \in Checklists(c, f)}),
                   checklists |-> Cardinality(Checklists(c, f)),
                   counts |-> Counts(J)]
  <2>2. r \in AggCollection(c, f)
    BY <2>1 DEF AggCollection
  <2>3. r.coll = c /\ r.counts = W
    BY <1>4
  <2> QED
    BY <2>2, <2>3
<1> HIDE DEF W
<1>7. /\ W[<<"assessed", "any">>] = W[<<"result", "pass">>] + W[<<"result", "fail">>]
                                    + W[<<"result", "notapplicable">>] + W[<<"result", "other">>]
      /\ W[<<"assessed", "any">>] = W[<<"status", "saved">>] + W[<<"status", "submitted">>]
                                    + W[<<"status", "accepted">>] + W[<<"status", "rejected">>]
      /\ W[<<"result", "fail">>] >= W[<<"findings", "high">>] + W[<<"findings", "medium">>]
                                    + W[<<"findings", "low">>]
  BY <1>1, <1>2, <1>4, OneOfEach
<1> QED
  BY <1>4, <1>5, <1>6, <1>7 DEF W, f

\* The five metrics endpoints (store/metrics.go) tell the same of a collection,
\* whatever is written and imported: no summary counts a rule or a review twice,
\* or leaves one out.
THEOREM SummariesTellTheSame == Spec => []ReportsAgree
<1>1. Inv => ReportsAgree
  BY SummariesAgree DEF Inv
<1> QED
  BY <1>1, Invariance, PTL
=============================================================================
