------------------------- MODULE ChecklistFiles_proofs -------------------------
(***************************************************************************)
(* Proofs about ChecklistFiles: for any library, assets and requests.      *)
(***************************************************************************)
EXTENDS ChecklistFiles, FiniteSetTheorems, TLAPS

(***************************************************************************)
(* Orders and sequences.                                                   *)
(***************************************************************************)

\* Of two cells one is before the other.
LEMMA UpToGrows ==
  ASSUME NEW S \in SUBSET (Nat \X Nat), NEW c \in S, NEW d \in S, c # d
  PROVE  \/ UpTo(S, c) \subseteq UpTo(S, d) /\ d \in UpTo(S, d) /\ d \notin UpTo(S, c)
         \/ UpTo(S, d) \subseteq UpTo(S, c) /\ c \in UpTo(S, c) /\ c \notin UpTo(S, d)
<1>1. /\ c = <<c[1], c[2]>> /\ d = <<d[1], d[2]>>
      /\ c[1] \in Nat /\ c[2] \in Nat /\ d[1] \in Nat /\ d[2] \in Nat
  OBVIOUS
<1>2. \A e \in S : e[1] \in Nat /\ e[2] \in Nat
  OBVIOUS
<1>3. c[1] < d[1] \/ (c[1] = d[1] /\ c[2] < d[2]) \/ d[1] < c[1] \/ (d[1] = c[1] /\ d[2] < c[2])
  BY <1>1
<1> QED
  BY <1>1, <1>2, <1>3 DEF UpTo

\* The places of the cells of a finite set are 1, 2 and so on.
LEMMA PlacesTaken ==
  ASSUME NEW S \in SUBSET (Nat \X Nat), IsFiniteSet(S), NEW k \in 1..Cardinality(S)
  PROVE  \E c \in S : Cardinality(UpTo(S, c)) = k
<1> DEFINE n == Cardinality(S)
           Place == [c \in S |-> Cardinality(UpTo(S, c))]
<1>1. n \in Nat
  BY FS_CardinalityType
<1>2. \A c \in S : UpTo(S, c) \in SUBSET S /\ c \in UpTo(S, c) /\ IsFiniteSet(UpTo(S, c))
                   /\ Cardinality(UpTo(S, c)) \in 1..n
  <2> TAKE c \in S
  <2>1. UpTo(S, c) \in SUBSET S /\ c \in UpTo(S, c)
    BY DEF UpTo
  <2>2. IsFiniteSet(UpTo(S, c)) /\ Cardinality(UpTo(S, c)) <= n
    BY <2>1, FS_Subset
  <2>3. Cardinality(UpTo(S, c)) \in Nat /\ Cardinality(UpTo(S, c)) # 0
    BY <2>1, <2>2, FS_CardinalityType, FS_EmptySet
  <2> QED
    BY <1>1, <2>1, <2>2, <2>3
<1>3. \A c, d \in S : Place[c] = Place[d] => c = d
  <2> SUFFICES ASSUME NEW c \in S, NEW d \in S, c # d,
                      Cardinality(UpTo(S, c)) = Cardinality(UpTo(S, d))
               PROVE  FALSE
    OBVIOUS
  <2>1. UpTo(S, c) # UpTo(S, d)
        /\ (UpTo(S, c) \subseteq UpTo(S, d) \/ UpTo(S, d) \subseteq UpTo(S, c))
    BY UpToGrows
  <2>2. CASE UpTo(S, c) \subseteq UpTo(S, d)
    BY <1>2, <2>1, <2>2, FS_Subset
  <2>3. CASE UpTo(S, d) \subseteq UpTo(S, c)
    BY <1>2, <2>1, <2>3, FS_Subset
  <2> QED
    BY <2>1, <2>2, <2>3
<1>4. Place \in Injection(S, 1..n)
  BY <1>2, <1>3 DEF Injection, IsInjective
<1>5. IsFiniteSet(1..n) /\ Cardinality(1..n) = n
  BY <1>1, FS_Interval
<1>6. Place \in Surjection(S, 1..n)
  BY <1>4, <1>5, FS_Injection
<1>7. PICK c \in S : Place[c] = k
  BY <1>6 DEF Surjection
<1> QED
  BY <1>7

\* A finite set of cells has a last one.
LEMMA LastCell ==
  ASSUME NEW S \in SUBSET (Nat \X Nat), IsFiniteSet(S), NEW any \in S
  PROVE  \E c \in S : UpTo(S, c) = S
<1>1. Cardinality(S) \in Nat /\ Cardinality(S) # 0
  BY FS_CardinalityType, FS_EmptySet
<1>2. PICK c \in S : Cardinality(UpTo(S, c)) = Cardinality(S)
  BY <1>1, PlacesTaken
<1>3. UpTo(S, c) \in SUBSET S
  BY DEF UpTo
<1> QED
  BY <1>2, <1>3, FS_Subset

\* A finite set of numbers has a greatest one.
LEMMA GreatestNumber ==
  ASSUME NEW N \in SUBSET Nat, IsFiniteSet(N), NEW any \in N
  PROVE  \E m \in N : \A n \in N : n <= m
<1> DEFINE S == {<<0, n>> : n \in N}
           f == [n \in N |-> <<0, n>>]
<1>1. S \in SUBSET (Nat \X Nat) /\ <<0, any>> \in S
  OBVIOUS
<1>2. f \in Surjection(N, S)
  BY DEF Surjection
<1>3. IsFiniteSet(S)
  BY <1>2, FS_Surjection
<1>4. PICK c \in S : UpTo(S, c) = S
  BY <1>1, <1>3, LastCell
<1>5. PICK m \in N : c = <<0, m>>
  BY <1>4
<1>6. ASSUME NEW n \in N PROVE n <= m
  <2>1. <<0, n>> \in UpTo(S, c)
    BY <1>4
  <2> QED
    BY <1>5, <2>1 DEF UpTo
<1> QED
  BY <1>6

\* The cells of a finite set in order are cells of it.
LEMMA OrderedCells ==
  ASSUME NEW S \in SUBSET (Nat \X Nat), IsFiniteSet(S)
  PROVE  InOrder(S) \in [1..Cardinality(S) -> S] /\ Cardinality(S) \in Nat
<1>1. \A k \in 1..Cardinality(S) : (CHOOSE c \in S : Cardinality(UpTo(S, c)) = k) \in S
  BY PlacesTaken
<1> QED
  BY <1>1, FS_CardinalityType DEF InOrder

\* The rest of a sequence, and its elements.
LEMMA Rest ==
  ASSUME NEW T, NEW s \in Seq(T), s # <<>>
  PROVE  Head(s) \in T /\ Tail(s) \in Seq(T)
  OBVIOUS

\* A sequence over a set is one over a larger set.
LEMMA SeqOfLarger ==
  ASSUME NEW S, NEW T, S \subseteq T, NEW s \in Seq(S)
  PROVE  s \in Seq(T)
  OBVIOUS

(***************************************************************************)
(* The library.                                                            *)
(***************************************************************************)

LibraryShape ==
    /\ book \in Seq(Stored) /\ live \subseteq DOMAIN book
    /\ held \in [Requests -> SUBSET Benchmarks]
    /\ adding \in [Requests -> SUBSET (DOMAIN book)]
    /\ removing \in [Requests -> SUBSET (DOMAIN book)]
    /\ began \in [Requests -> Nat] /\ clock \in Nat
    /\ \A r \in Requests : began[r] <= clock

\* A transaction adds revisions of the stigs whose rows it has locked, which
\* nobody else has; outside of transactions there is nothing to add.
StigsLocked ==
    /\ \A r, q \in Requests : r # q => held[r] \cap held[q] = {}
    /\ \A r \in Requests : \A i \in adding[r] : i \notin live /\ book[i].bench \in held[r]
    /\ \A r \in Requests : pc[r] # "store" => adding[r] = {} /\ removing[r] = {} /\ held[r] = {}

\* No two revisions of a set have one benchmark and revision string.
Apart(S) ==
    \A i, j \in S : (book[i].bench = book[j].bench /\ book[i].str = book[j].str) => i = j
RevisionsApart == Apart(live) /\ \A r \in Requests : Apart(Visible(r))

LibraryInv == LibraryShape /\ StigsLocked /\ RevisionsApart

\* What a request does to the library.
LibraryStep(r) ==
    \/ UNCHANGED libraryVars /\ pc[r] # "store"
    \/ BeginImport(r) /\ pc[r] # "store"
    \/ pc'[r] = "store" /\ \E b \in Revision, clobber \in BOOLEAN : StoreRevision(r, b, clobber)
    \/ CommitImport(r) \/ RollbackImport(r)

\* The revisions that are committed, or will never be.
Settled == {i \in DOMAIN book : \A q \in Requests : i \notin adding[q]}

\* The library forgets no revision, and what is gone does not come back.
LibraryGrows ==
    /\ DOMAIN book \subseteq DOMAIN book'
    /\ \A i \in DOMAIN book : book'[i] = book[i]
    /\ Settled \subseteq Settled'
    /\ \A i \in Settled : i \in live' => i \in live

\* The seeds make a library.
LEMMA LibraryInitially == Init => LibraryInv
<1> SUFFICES ASSUME Init PROVE LibraryInv
  OBVIOUS
<1>1. PICK s \in Seeds : LibraryInit(s.library)
  BY DEF Init
<1>2. SeedType(s)
  BY FilesAssumption
<1> DEFINE seed == s.library
<1>3. /\ seed \in Seq(Revision)
      /\ \A i, j \in DOMAIN seed :
            (seed[i].bench = seed[j].bench /\ seed[i].str = seed[j].str) => i = j
  BY <1>2 DEF SeedType
<1> HIDE DEF seed
<1>4. LibraryInit(seed)
  BY <1>1 DEF seed
<1>5. \A i \in DOMAIN seed : [bench |-> seed[i].bench, str |-> seed[i].str,
                               rules |-> seed[i].rules, at |-> 0] \in Stored
  <2> TAKE i \in DOMAIN seed
  <2>1. seed[i] \in Revision
    BY <1>3
  <2>2. seed[i].bench \in Benchmarks /\ seed[i].str \in RevisionStrs /\ seed[i].rules \in SUBSET Rules
    BY <2>1 DEF Revision
  <2> QED
    BY <2>2 DEF Stored
<1>6. /\ book \in Seq(Stored) /\ DOMAIN book = DOMAIN seed
      /\ \A i \in DOMAIN book : book[i].bench = seed[i].bench /\ book[i].str = seed[i].str
  BY <1>3, <1>4, <1>5 DEF LibraryInit
<1>7. LibraryShape
  BY <1>4, <1>6 DEF LibraryShape, LibraryInit
<1>8. StigsLocked
  BY <1>4 DEF StigsLocked, LibraryInit
<1>9. RevisionsApart
  <2>1. live = DOMAIN seed /\ \A r \in Requests : Visible(r) = live
    BY <1>4 DEF Visible, LibraryInit
  <2>2. Apart(live)
    BY <1>3, <1>6, <2>1 DEF Apart
  <2> QED
    BY <2>1, <2>2 DEF RevisionsApart
<1> QED
  BY <1>7, <1>8, <1>9 DEF LibraryInv

\* A step of a transaction.
LEMMA StoreKeepsLibrary ==
  ASSUME LibraryInv, NEW r \in Requests, NEW b \in Revision, NEW clobber \in BOOLEAN,
         StoreRevision(r, b, clobber), pc'[r] = "store",
         \A q \in Others(r) : pc'[q] = pc[q]
  PROVE  LibraryInv' /\ LibraryGrows
<1> DEFINE new == [bench |-> b.bench, str |-> b.str, rules |-> b.rules, at |-> began[r]]
           id == Len(book) + 1
           gone == Same(Visible(r), b)
<1>1. /\ book' = Append(book, new)
      /\ held' = [held EXCEPT ![r] = @ \cup {b.bench}]
      /\ adding' = [adding EXCEPT ![r] = @ \cup {Len(book')}]
      /\ removing' = [removing EXCEPT ![r] = @ \cup gone]
      /\ UNCHANGED <<live, began, clock>>
      /\ \A q \in Others(r) : b.bench \notin held[q]
  BY DEF StoreRevision, Insert, HoldStig
<1>2. new \in Stored /\ b.bench \in Benchmarks
  BY DEF Revision, Stored, LibraryInv, LibraryShape
<1>3. new.bench = b.bench /\ new.str = b.str
  OBVIOUS
<1> HIDE DEF new
<1>4. /\ book' \in Seq(Stored) /\ Len(book') = id /\ DOMAIN book' = DOMAIN book \cup {id}
      /\ \A i \in DOMAIN book : book'[i] = book[i]
      /\ book'[id] = new /\ id \notin DOMAIN book
  BY <1>1, <1>2 DEF LibraryInv, LibraryShape
<1>5. gone \subseteq Visible(r) /\ Visible(r) \subseteq DOMAIN book
  BY DEF Same, Visible, LibraryInv, LibraryShape
<1> HIDE DEF id, gone
<1>6. LibraryShape'
  <2>1. adding' \in [Requests -> SUBSET (DOMAIN book')]
    BY <1>1, <1>4 DEF LibraryInv, LibraryShape
  <2>2. removing' \in [Requests -> SUBSET (DOMAIN book')]
    BY <1>1, <1>4, <1>5 DEF LibraryInv, LibraryShape
  <2>3. held' \in [Requests -> SUBSET Benchmarks]
    BY <1>1, <1>2 DEF LibraryInv, LibraryShape
  <2> QED
    BY <1>1, <1>4, <2>1, <2>2, <2>3 DEF LibraryInv, LibraryShape
<1>7. StigsLocked'
  <2>1. \A q, p \in Requests : q # p => held'[q] \cap held'[p] = {}
    BY <1>1 DEF LibraryInv, LibraryShape, StigsLocked, Others
  <2>2. ASSUME NEW q \in Requests, NEW i \in adding'[q]
        PROVE  i \notin live' /\ book'[i].bench \in held'[q]
    <3>1. CASE i = id /\ q = r
      BY <1>1, <1>3, <1>4, <3>1 DEF LibraryInv, LibraryShape
    <3>2. CASE i \in adding[q]
      <4>1. i \in DOMAIN book /\ i \notin live /\ book[i].bench \in held[q]
        BY <3>2 DEF LibraryInv, LibraryShape, StigsLocked
      <4>2. held[q] \subseteq held'[q]
        BY <1>1 DEF LibraryInv, LibraryShape
      <4> QED
        BY <1>1, <1>4, <4>1, <4>2
    <3> QED
      BY <1>1, <1>4, <2>2, <3>1, <3>2 DEF LibraryInv, LibraryShape
  <2>3. \A q \in Requests : pc'[q] # "store" => adding'[q] = {} /\ removing'[q] = {} /\ held'[q] = {}
    BY <1>1 DEF LibraryInv, LibraryShape, StigsLocked, Others
  <2> QED
    BY <2>1, <2>2, <2>3 DEF StigsLocked
<1>8. Visible(r)' = (Visible(r) \ gone) \cup {id} /\ \A q \in Others(r) : Visible(q)' = Visible(q)
  BY <1>1, <1>4, <1>5 DEF Visible, LibraryInv, LibraryShape, Others
<1>9. RevisionsApart'
  <2>1. Apart(live)'
    BY <1>1, <1>4 DEF LibraryInv, LibraryShape, RevisionsApart, Apart
  <2>2. ASSUME NEW q \in Others(r) PROVE Apart(Visible(q))'
    <3>1. Visible(q) \subseteq DOMAIN book /\ Apart(Visible(q))
      BY DEF Others, Visible, LibraryInv, LibraryShape, RevisionsApart
    <3> QED
      BY <1>4, <1>8, <3>1 DEF Apart
  <2>3. Apart(Visible(r))'
    <3>1. Apart(Visible(r))
      BY DEF LibraryInv, RevisionsApart
    <3>2. \A i \in Visible(r) \ gone : ~(book[i].bench = new.bench /\ book[i].str = new.str)
      BY <1>3 DEF gone, Same
    <3> QED
      BY <1>4, <1>5, <1>8, <3>1, <3>2 DEF Apart
  <2> QED
    BY <2>1, <2>2, <2>3 DEF RevisionsApart, Others
<1>10. LibraryGrows
  BY <1>1, <1>4 DEF LibraryGrows, Settled, LibraryInv, LibraryShape
<1> QED
  BY <1>6, <1>7, <1>9, <1>10 DEF LibraryInv

\* The end of a transaction, committed or not.
LEMMA EndKeepsLibrary ==
  ASSUME LibraryInv, NEW r \in Requests, CommitImport(r) \/ RollbackImport(r),
         \A q \in Others(r) : pc'[q] = pc[q]
  PROVE  LibraryInv' /\ LibraryGrows
<1>1. /\ held' = [held EXCEPT ![r] = {}]
      /\ adding' = [adding EXCEPT ![r] = {}]
      /\ removing' = [removing EXCEPT ![r] = {}]
      /\ UNCHANGED <<book, began, clock>>
      /\ live' \in {live, Visible(r)}
  BY DEF CommitImport, RollbackImport, EndImport
<1>2. Visible(r) \subseteq DOMAIN book
  BY DEF Visible, LibraryInv, LibraryShape
<1>3. LibraryShape'
  BY <1>1, <1>2 DEF LibraryInv, LibraryShape
<1>4. \A q \in Others(r) : \A i \in adding[q] : i \notin adding[r]
  BY DEF Others, LibraryInv, StigsLocked
<1>5. StigsLocked'
  <2>1. \A q \in Others(r) : \A i \in adding[q] : i \notin Visible(r)
    BY <1>4 DEF Visible, Others, LibraryInv, StigsLocked
  <2> QED
    BY <1>1, <2>1 DEF LibraryInv, LibraryShape, StigsLocked, Others
<1>6. RevisionsApart'
  <2>1. Apart(live)'
    BY <1>1 DEF LibraryInv, RevisionsApart, Apart
  <2>2. Visible(r)' = live'
    BY <1>1 DEF Visible, LibraryInv, LibraryShape
  <2>3. ASSUME NEW q \in Others(r) PROVE Apart(Visible(q))'
    <3>1. Visible(q)' = (live' \cup adding[q]) \ removing[q]
      BY <1>1 DEF Visible, Others, LibraryInv, LibraryShape
    <3>2. Apart(Visible(q)) /\ Apart(Visible(r))
      BY DEF Others, LibraryInv, RevisionsApart
    <3>3. ASSUME NEW i \in adding[q], NEW j \in Visible(r), book[i].bench = book[j].bench
          PROVE  j \in live
      BY <3>3 DEF Visible, Others, LibraryInv, StigsLocked
    <3> QED
      BY <1>1, <3>1, <3>2, <3>3 DEF Apart, Visible
  <2> QED
    BY <2>1, <2>2, <2>3 DEF RevisionsApart, Others
<1>7. LibraryGrows
  BY <1>1 DEF LibraryGrows, Settled, Visible, LibraryInv, LibraryShape
<1> QED
  BY <1>3, <1>5, <1>6, <1>7 DEF LibraryInv

\* The library of a request that is done with is that of the others.
LEMMA LibraryKept ==
  ASSUME LibraryInv, NEW r \in Requests, LibraryStep(r),
         \A q \in Others(r) : pc'[q] = pc[q]
  PROVE  LibraryInv' /\ LibraryGrows
<1>1. CASE UNCHANGED libraryVars /\ pc[r] # "store"
  BY <1>1, SMTT(30) DEF libraryVars, LibraryInv, LibraryShape, StigsLocked, RevisionsApart, Apart, Visible,
              LibraryGrows, Settled, Others
<1>2. CASE BeginImport(r) /\ pc[r] # "store"
  <2>1. /\ clock' = clock + 1 /\ began' = [began EXCEPT ![r] = clock']
        /\ UNCHANGED <<book, live, held, adding, removing>>
    BY <1>2 DEF BeginImport
  <2>2. LibraryShape'
    BY <2>1 DEF LibraryInv, LibraryShape
  <2>3. StigsLocked' /\ RevisionsApart' /\ LibraryGrows
    BY <1>2, <2>1 DEF LibraryInv, StigsLocked, RevisionsApart, Apart, Visible, LibraryGrows,
                      Settled, Others
  <2> QED
    BY <2>2, <2>3 DEF LibraryInv
<1>3. CASE pc'[r] = "store" /\ \E b \in Revision, clobber \in BOOLEAN : StoreRevision(r, b, clobber)
  BY <1>3, StoreKeepsLibrary
<1>4. CASE CommitImport(r) \/ RollbackImport(r)
  BY <1>4, EndKeepsLibrary
<1> QED
  BY <1>1, <1>2, <1>3, <1>4 DEF LibraryStep

\* What the type invariant says of the library.
LEMMA LibraryIsOK == LibraryInv => LibraryOK
<1> SUFFICES ASSUME LibraryInv PROVE LibraryOK
  OBVIOUS
<1>1. \A i \in live : Same(live, book[i]) = {i}
  BY DEF LibraryInv, RevisionsApart, Apart, Same
<1> QED
  BY <1>1 DEF LibraryOK, LibraryInv, LibraryShape, StigsLocked

(***************************************************************************)
(* The inductive invariant.                                                *)
(***************************************************************************)

Reading == {"load", "revision", "header", "rules", "write"}
Places == Finished \cup
    {"idle", "begin", "store", "get", "select", "load", "revision", "header",
     "rules", "write", "list", "file", "put", "update", "disable"}

\* Tables of values for some of the rules.
Tables(T) == UNION {[S -> T] : S \in SUBSET Rules}

\* The rules of s are those of its revision, or none when that is gone.
Whole(s) ==
    \/ DOMAIN s.rows = book[s.id].rules
    \/ DOMAIN s.rows = {} /\ s.id \notin live

\* What an export has read, and what it makes of it.
Sections ==
    {s \in [head : Identity \cup {NULL}, id : Settled, rows : Tables(Review \cup {NULL})] : Whole(s)}
FileRows(format) == {Row(format, v) : v \in Review \cup {NULL}}
FileSections(format) == {s \in [id : Settled, rows : Tables(FileRows(format))] : Whole(s)}
SoundFiles ==
    UNION {[format : {x}, from : Assets, head : Identity \cup {NULL}, stigs : Seq(FileSections(x))] :
           x \in Formats}

\* An entry of a file says what was exported.
Survives(e) ==
    e.was # NULL => /\ e.was.result \in Judged => e.result = e.was.result
                    /\ e.format # "xccdf" => e.note = e.was.note
Parsed ==
    {e \in [rule : Rules, result : Results, note : Notes \cup {NULL}, auto : BOOLEAN,
            from : Assets, format : Formats, was : Review \cup {NULL}] : Survives(e)}

\* Where a request of kind k may be.
Suits(p, k) ==
    \/ p \in {"begin", "store"} /\ k = "upload"
    \/ p = "get" /\ k \in {"single", "multi", "put", "update", "delete"}
    \/ p \in Reading /\ k \in {"single", "multi", "archive"}
    \/ p = "select" /\ k = "archive"
    \/ p \in {"list", "file"} /\ k = "import"
    \/ p = "put" /\ k \in {"put", "import"}
    \/ p = "update" /\ k = "update"
    \/ p = "disable" /\ k = "delete"

Active(r) == pc[r] \notin Finished \cup {"idle"}

\* A request at work: where it is, on what, and what it has left to do.
InHand(r) ==
    /\ op[r] \in Ops
    /\ Suits(pc[r], op[r].kind)
    /\ pc[r] \in Reading \cup {"get", "put", "update", "disable"} => target[r] \in Assets
    /\ op[r].kind = "upload" => todo[r] \in Seq(Revision)
    /\ op[r].kind = "put" => todo[r] \in Seq(Written) /\ todo[r] # <<>>
    /\ op[r].kind = "import" => more[r] \in Seq(Files)
    /\ op[r].kind = "import" /\ pc[r] = "put" => todo[r] \in Seq(Parsed) /\ todo[r] # <<>>
    /\ op[r].kind = "archive" => more[r] \in Seq(Selections)
    /\ op[r].kind = "archive" /\ pc[r] # "select" => more[r] # <<>>
    /\ pc[r] \in {"header", "rules"} => rev[r] \in Settled

ControlInv ==
    /\ pc \in [Requests -> Places]
    /\ op \in [Requests -> Ops \cup {NULL}]
    /\ target \in [Requests -> Assets \cup {NULL}]
    /\ DOMAIN more = Requests /\ DOMAIN todo = Requests
    /\ \A r \in Requests : Active(r) => InHand(r)

ReadInv ==
    /\ head \in [Requests -> Identity \cup {NULL}]
    /\ rev \in [Requests -> Settled \cup {NULL}]
    /\ doc \in [Requests -> Seq(Sections)]
    /\ out \in [Requests -> Seq(SoundFiles)]

\* A list has an asset once, and names no two of them alike.
Lists == {L \in SUBSET (Assets \X Identity) :
             \A d, e \in L : (d[1] = e[1] \/ d[2].name = e[2].name) => d = e}

RowInv ==
    /\ asset \in [Assets -> AssetRow] /\ NamesApart(asset)
    /\ review \in [Assets -> [Rules -> Review \cup {NULL}]]
    /\ index \in [Requests -> Lists]

FilesInv == LibraryInv /\ ControlInv /\ ReadInv /\ RowInv

(***************************************************************************)
(* What a step of a request does to the others: nothing.                   *)
(***************************************************************************)

Act(r) == Step(r) \/ Fault(r) \/ \E o \in Ops : Receive(r, o)

\* g is f but for r.
Moves(f, g, r) == g = f \/ \E x : g = [f EXCEPT ![r] = x]
OnlyOf(r) ==
    /\ Moves(pc, pc', r) /\ Moves(op, op', r) /\ Moves(more, more', r) /\ Moves(todo, todo', r)
    /\ Moves(target, target', r) /\ Moves(head, head', r) /\ Moves(rev, rev', r)
    /\ Moves(doc, doc', r) /\ Moves(out, out', r) /\ Moves(index, index', r)

\* An answer is the end of one request.
LEMMA ReturnOnly ==
  ASSUME NEW r, NEW how, NEW files, Return(r, how, files)
  PROVE  OnlyOf(r)
BY DEF Return, OnlyOf, Moves

\* What is read is dropped for one request.
LEMMA DropOnly ==
  ASSUME NEW r, Drop(r) \/ SkipItem(r) \/ NotFound(r)
  PROVE  OnlyOf(r)
<1>1. CASE SkipItem(r)
  BY <1>1 DEF SkipItem, OnlyOf, Moves, exportVars
<1>2. CASE Drop(r)
  BY <1>1, <1>2, ReturnOnly DEF Drop, OnlyOf, Moves
<1> QED
  BY <1>1, <1>2 DEF NotFound

\* Each step is one of a single request that has not been answered.
LEMMA ActOnly ==
  ASSUME NEW r \in Requests, Act(r)
  PROVE  OnlyOf(r) /\ pc[r] \notin Finished
<1> USE DEF Goto, Answer, Refuse, Finished
<1>1. CASE \E o \in Ops : Receive(r, o)
  <2>1. PICK o \in Ops : Receive(r, o)
    BY <1>1
  <2>2. \E x : more' = [more EXCEPT ![r] = x]
    BY <2>1 DEF Receive
  <2>3. pc[r] = "idle" /\ UNCHANGED <<head, rev, doc, out, index>>
    BY <2>1 DEF Receive
  <2>4. Moves(pc, pc', r) /\ Moves(op, op', r) /\ Moves(todo, todo', r) /\ Moves(target, target', r)
    BY <2>1 DEF Receive, Moves
  <2> QED
    BY <2>2, <2>3, <2>4 DEF OnlyOf, Moves
<1>2. CASE GetAsset(r)
  BY <1>2 DEF GetAsset, OnlyOf, Moves, localVars, exportVars
<1>3. CASE AssetNotFound(r)
  BY <1>3, ReturnOnly DEF AssetNotFound
<1>4. CASE BeginUpload(r)
  BY <1>4 DEF BeginUpload, OnlyOf, Moves, localVars, exportVars
<1>5. CASE StoreItem(r)
  BY <1>5 DEF StoreItem, OnlyOf, Moves, exportVars
<1>6. CASE RefuseItem(r) \/ CommitUpload(r) \/ UploadEnds(r)
  BY <1>6, ReturnOnly DEF RefuseItem, CommitUpload, UploadEnds
<1>7. CASE NextSelection(r)
  BY <1>7 DEF NextSelection, OnlyOf, Moves
<1>8. CASE LeaveOutSelection(r)
  BY <1>8 DEF LeaveOutSelection, OnlyOf, Moves, exportVars
<1>9. CASE ArchiveDone(r)
  BY <1>9, ReturnOnly DEF ArchiveDone
<1>10. CASE LoadAsset(r)
  BY <1>10 DEF LoadAsset, OnlyOf, Moves
<1>11. CASE AssetGone(r) \/ NoRevision(r) \/ HeaderGone(r) \/ ReadFails(r)
  BY <1>11, DropOnly DEF AssetGone, NoRevision, HeaderGone, ReadFails
<1>12. CASE ReadRevision(r)
  BY <1>12 DEF ReadRevision, OnlyOf, Moves
<1>13. CASE ReadHeader(r)
  BY <1>13 DEF ReadHeader, OnlyOf, Moves, localVars, exportVars
<1>14. CASE ReadRules(r)
  BY <1>14 DEF ReadRules, OnlyOf, Moves
<1>15. CASE WriteFile(r)
  BY <1>15, ReturnOnly DEF WriteFile
<1>16. CASE WriteEntries(r)
  BY <1>16 DEF WriteEntries, OnlyOf, Moves
<1>17. CASE ListAssets(r)
  BY <1>17 DEF ListAssets, OnlyOf, Moves, exportVars
<1>18. CASE NextFile(r)
  BY <1>18 DEF NextFile, OnlyOf, Moves
<1>19. CASE ImportDone(r)
  BY <1>19, ReturnOnly DEF ImportDone
<1>20. CASE PutReview(r) \/ RejectReview(r)
  <2>1. pc[r] = "put" /\ NextEntry(r)
    BY <1>20 DEF PutReview, RejectReview
  <2> QED
    BY <2>1, ReturnOnly DEF NextEntry, OnlyOf, Moves, exportVars
<1>21. CASE UpdateAsset(r) \/ DisableAsset(r)
  <2>1. pc[r] \in {"update", "disable"} /\ \E how : Return(r, how, <<>>)
    BY <1>21 DEF UpdateAsset, DisableAsset
  <2> QED
    BY <2>1, ReturnOnly
<1>22. CASE RequestFails(r)
  BY <1>22, ReturnOnly DEF RequestFails
<1> QED
  BY <1>1, <1>2, <1>3, <1>4, <1>5, <1>6, <1>7, <1>8, <1>9, <1>10, <1>11, <1>12, <1>13, <1>14,
     <1>15, <1>16, <1>17, <1>18, <1>19, <1>20, <1>21, <1>22
     DEF Act, Step, Fault, Deadlock, UploadFails

\* Only an upload that has begun touches the library.
LEMMA ActLibrary ==
  ASSUME ControlInv, NEW r \in Requests, Act(r)
  PROVE  LibraryStep(r)
<1> USE DEF Goto, Answer, Refuse, LibraryStep
<1>0. pc \in [Requests -> Places]
  BY DEF ControlInv
<1>1. CASE \E o \in Ops : Receive(r, o)
  BY <1>1 DEF Receive
<1>2. CASE GetAsset(r) \/ AssetNotFound(r)
  BY <1>2 DEF GetAsset, AssetNotFound
<1>3. CASE BeginUpload(r)
  BY <1>3 DEF BeginUpload
<1>4. CASE StoreItem(r)
  <2>1. Active(r)
    BY <1>4 DEF StoreItem, Active, Finished
  <2>2. op[r] \in Ops /\ op[r].kind = "upload" /\ todo[r] \in Seq(Revision) /\ todo[r] # <<>>
    BY <1>4, <2>1 DEF StoreItem, ControlInv, InHand, Suits, Reading
  <2>3. Head(todo[r]) \in Revision /\ op[r].clobber \in BOOLEAN
    BY <2>2, Rest, FilesAssumption DEF OpType
  <2>4. pc'[r] = "store"
    BY <1>0, <1>4 DEF StoreItem
  <2>5. StoreRevision(r, Head(todo[r]), op[r].clobber)
    BY <1>4 DEF StoreItem
  <2> QED
    BY <2>3, <2>4, <2>5
<1>5. CASE RefuseItem(r) \/ CommitUpload(r) \/ UploadEnds(r)
  BY <1>5 DEF RefuseItem, CommitUpload, UploadEnds
<1>6. CASE NextSelection(r) \/ LeaveOutSelection(r) \/ ArchiveDone(r)
  BY <1>6 DEF NextSelection, LeaveOutSelection, ArchiveDone
<1>7. CASE LoadAsset(r) \/ AssetGone(r) \/ ReadRevision(r) \/ NoRevision(r)
  BY <1>7 DEF LoadAsset, AssetGone, ReadRevision, NoRevision
<1>8. CASE ReadHeader(r) \/ HeaderGone(r) \/ ReadRules(r) \/ WriteFile(r) \/ WriteEntries(r)
  BY <1>8 DEF ReadHeader, HeaderGone, ReadRules, WriteFile, WriteEntries
<1>9. CASE ListAssets(r) \/ NextFile(r) \/ ImportDone(r) \/ PutReview(r) \/ RejectReview(r)
  BY <1>9 DEF ListAssets, NextFile, ImportDone, PutReview, RejectReview
<1>10. CASE UpdateAsset(r) \/ DisableAsset(r) \/ ReadFails(r) \/ RequestFails(r)
  BY <1>10 DEF UpdateAsset, DisableAsset, ReadFails, RequestFails
<1> QED
  BY <1>1, <1>2, <1>3, <1>4, <1>5, <1>6, <1>7, <1>8, <1>9, <1>10
     DEF Act, Step, Fault, Deadlock, UploadFails

\* The others keep what they have.
LEMMA OthersKeep ==
  ASSUME ControlInv, ReadInv, RowInv, NEW r \in Requests, OnlyOf(r), NEW q \in Others(r)
  PROVE  /\ pc'[q] = pc[q] /\ op'[q] = op[q] /\ more'[q] = more[q] /\ todo'[q] = todo[q]
         /\ target'[q] = target[q] /\ head'[q] = head[q] /\ rev'[q] = rev[q] /\ doc'[q] = doc[q]
         /\ out'[q] = out[q] /\ index'[q] = index[q]
<1>1. ASSUME NEW f, NEW g, DOMAIN f = Requests, Moves(f, g, r) PROVE g[q] = f[q]
  BY <1>1 DEF Moves, Others
<1>2. /\ DOMAIN pc = Requests /\ DOMAIN op = Requests /\ DOMAIN more = Requests
      /\ DOMAIN todo = Requests /\ DOMAIN target = Requests /\ DOMAIN head = Requests
      /\ DOMAIN rev = Requests /\ DOMAIN doc = Requests /\ DOMAIN out = Requests
      /\ DOMAIN index = Requests
  BY DEF ControlInv, ReadInv, RowInv
<1> QED
  BY <1>1, <1>2 DEF OnlyOf

\* A function changed at one place, when the values allowed may have grown.
LEMMA MoveTyped ==
  ASSUME NEW S, NEW T, S \subseteq T, NEW f \in [Requests -> S], NEW g, NEW r \in Requests,
         Moves(f, g, r), g[r] \in T
  PROVE  g \in [Requests -> T]
BY DEF Moves

(***************************************************************************)
(* What has been read stays good while the library grows.                  *)
(***************************************************************************)

\* A table of some of the rules.
LEMMA TableFacts ==
  ASSUME NEW T, NEW f
  PROVE  /\ f \in Tables(T) => /\ DOMAIN f \subseteq Rules /\ f \in [DOMAIN f -> T]
                               /\ \A q \in DOMAIN f : f[q] \in T
         /\ \A S \in SUBSET Rules : f \in [S -> T] => f \in Tables(T)
BY DEF Tables

\* The header of a STIG goes on naming a revision with its rules, or none.
LEMMA WholeStays ==
  ASSUME LibraryGrows, NEW s, s.id \in Settled, Whole(s)
  PROVE  s.id \in Settled' /\ Whole(s)'
<1>1. s.id \in DOMAIN book
  BY DEF Settled
<1> QED
  BY <1>1 DEF LibraryGrows, Whole

\* Sections and files that are sound stay so.
LEMMA SoundStays ==
  ASSUME LibraryGrows
  PROVE  /\ Settled \subseteq Settled' /\ Sections \subseteq Sections'
         /\ SoundFiles \subseteq SoundFiles'
<1>1. Settled \subseteq Settled'
  BY DEF LibraryGrows
<1>2. ASSUME NEW s \in Sections PROVE s \in Sections'
  <2>1. /\ s \in [head : Identity \cup {NULL}, id : Settled, rows : Tables(Review \cup {NULL})]
        /\ s.id \in Settled /\ Whole(s)
    BY DEF Sections
  <2>2. s \in [head : Identity \cup {NULL}, id : Settled', rows : Tables(Review \cup {NULL})]
    BY <1>1, <2>1
  <2>3. Whole(s)'
    BY <2>1, WholeStays
  <2> QED
    BY <2>2, <2>3 DEF Sections, Tables
<1>3. ASSUME NEW x \in Formats PROVE FileSections(x) \subseteq FileSections(x)'
  <2> SUFFICES ASSUME NEW s \in FileSections(x) PROVE s \in FileSections(x)'
    OBVIOUS
  <2>1. s \in [id : Settled, rows : Tables(FileRows(x))] /\ s.id \in Settled /\ Whole(s)
    BY DEF FileSections
  <2>2. s \in [id : Settled', rows : Tables(FileRows(x))]
    BY <1>1, <2>1
  <2>3. Whole(s)'
    BY <2>1, WholeStays
  <2> QED
    BY <2>2, <2>3 DEF FileSections, Tables, FileRows
<1>4. ASSUME NEW f \in SoundFiles PROVE f \in SoundFiles'
  <2>1. PICK x \in Formats :
          f \in [format : {x}, from : Assets, head : Identity \cup {NULL}, stigs : Seq(FileSections(x))]
    BY DEF SoundFiles
  <2>2. f.stigs \in Seq(FileSections(x)')
    BY <1>3, <2>1, SeqOfLarger
  <2>3. f \in [format : {x}, from : Assets, head : Identity \cup {NULL}, stigs : Seq(FileSections(x)')]
    BY <2>1, <2>2
  <2> QED
    BY <2>3 DEF SoundFiles
<1> QED
  BY <1>1, <1>2, <1>4

\* What clients have is sound, and they keep it.
LEMMA FilesKept ==
  ASSUME ControlInv, ReadInv, RowInv, NEW r \in Requests, Act(r)
  PROVE  Files \subseteq Files' /\ Files \subseteq SoundFiles
<1> SUFFICES ASSUME NEW f \in Files PROVE f \in Files' /\ f \in SoundFiles
  OBVIOUS
<1>1. PICK q \in Requests : pc[q] = "ok" /\ f \in ToSet(out[q])
  BY DEF Files
<1>2. q \in Others(r) /\ OnlyOf(r)
  BY <1>1, ActOnly DEF Others, Finished
<1>3. pc'[q] = "ok" /\ out'[q] = out[q]
  BY <1>1, <1>2, OthersKeep
<1>4. f \in Files'
  BY <1>1, <1>3 DEF Files, ToSet
<1>5. out[q] \in Seq(SoundFiles)
  BY DEF ReadInv
<1>6. f \in SoundFiles
  BY <1>1, <1>5 DEF ToSet
<1> QED
  BY <1>4, <1>6

(***************************************************************************)
(* Exports.                                                                *)
(***************************************************************************)

\* A writer takes its rules from what has been read.
LEMMA SectionSound ==
  ASSUME NEW x \in Formats, NEW s \in Sections
  PROVE  Section(x, s) \in FileSections(x)
<1> DEFINE table == [q \in DOMAIN s.rows |-> Row(x, s.rows[q])]
           made == [id |-> s.id, rows |-> table]
<1>1. s.id \in Settled /\ s.rows \in Tables(Review \cup {NULL}) /\ Whole(s)
  BY DEF Sections
<1>2. DOMAIN s.rows \in SUBSET Rules /\ \A q \in DOMAIN s.rows : s.rows[q] \in Review \cup {NULL}
  BY <1>1, TableFacts
<1>3. \A q \in DOMAIN s.rows : Row(x, s.rows[q]) \in FileRows(x)
  BY <1>2 DEF FileRows
<1>4. table \in [DOMAIN s.rows -> FileRows(x)] /\ DOMAIN table = DOMAIN s.rows
  BY <1>3
<1>5. table \in Tables(FileRows(x))
  BY <1>2, <1>4, TableFacts
<1> HIDE DEF table
<1>6. Whole(made)
  BY <1>1, <1>4 DEF Whole
<1>7. made \in FileSections(x)
  BY <1>1, <1>5, <1>6 DEF FileSections
<1> QED
  BY <1>7 DEF Section, table

\* A file made of what has been read is sound.
LEMMA FileSound ==
  ASSUME NEW r, op[r].format \in Formats, target[r] \in Assets, NEW id \in Identity \cup {NULL},
         NEW d \in Seq(Sections)
  PROVE  FileOf(r, id, d) \in SoundFiles
<1> DEFINE x == op[r].format
           stigs == [i \in DOMAIN d |-> Section(x, d[i])]
<1>1. \A i \in DOMAIN d : Section(x, d[i]) \in FileSections(x)
  BY SectionSound
<1>2. stigs \in Seq(FileSections(x))
  BY <1>1
<1> HIDE DEF stigs, x
<1>3. x \in Formats
  BY DEF x
<1>4. [format |-> x, from |-> target[r], head |-> id, stigs |-> stigs] \in
         [format : {x}, from : Assets, head : Identity \cup {NULL}, stigs : Seq(FileSections(x))]
  BY <1>2
<1>5. [format |-> x, from |-> target[r], head |-> id, stigs |-> stigs] \in SoundFiles
  BY <1>3, <1>4 DEF SoundFiles
<1> QED
  BY <1>5 DEF FileOf, stigs, x

\* The rules of a revision are read with it.
LEMMA SectionRead ==
  ASSUME LibraryInv, ReadInv, RowInv, NEW r \in Requests, rev[r] \in Settled, target[r] \in Assets
  PROVE  [head |-> head[r], id |-> rev[r],
          rows |-> [q \in RulesRead(r) |-> review[target[r]][q]]] \in Sections
<1> DEFINE table == [q \in RulesRead(r) |-> review[target[r]][q]]
           made == [head |-> head[r], id |-> rev[r], rows |-> table]
<1>1. rev[r] \in DOMAIN book /\ book[rev[r]] \in Stored
  BY DEF Settled, LibraryInv, LibraryShape
<1>2. book[rev[r]].rules \in SUBSET Rules
  BY <1>1 DEF Stored
<1>3. RulesRead(r) \in SUBSET Rules
  BY <1>2 DEF RulesRead
<1>4. table \in [RulesRead(r) -> Review \cup {NULL}] /\ DOMAIN table = RulesRead(r)
  BY <1>3 DEF RowInv
<1>5. table \in Tables(Review \cup {NULL})
  BY <1>3, <1>4, TableFacts
<1> HIDE DEF table
<1>6. Whole(made)
  BY <1>4 DEF Whole, RulesRead
<1>7. head[r] \in Identity \cup {NULL}
  BY DEF ReadInv
<1>8. made \in Sections
  BY <1>5, <1>6, <1>7 DEF Sections
<1> QED
  BY <1>8 DEF table

\* The committed revisions are settled.
LEMMA LiveSettled ==
  ASSUME LibraryInv
  PROVE  live \subseteq Settled
BY DEF Settled, LibraryInv, LibraryShape, StigsLocked

\* An asset is exported as one that a list may have.
LEMMA IdentityTyped ==
  ASSUME RowInv, NEW a \in Assets
  PROVE  IdentityOf(a) \in Identity /\ IdentityOf(a).name = asset[a].name
<1>1. asset[a] \in AssetRow
  BY DEF RowInv
<1>2. /\ asset[a].name \in Names /\ asset[a].fqdn \in Fqdns \cup {NULL}
      /\ asset[a].mac \in Macs \cup {NULL} /\ asset[a].ip \in Ips \cup {NULL}
  BY <1>1 DEF AssetRow
<1>3. IdentityOf(a) = [name |-> asset[a].name, fqdn |-> asset[a].fqdn, mac |-> asset[a].mac,
                       ip |-> asset[a].ip]
  BY DEF IdentityOf
<1> QED
  BY <1>2, <1>3 DEF Identity

\* What a request holds of its export after a step.
ReadsWell(r) ==
    /\ head[r] \in Identity \cup {NULL}
    /\ rev[r] \in Settled \cup {NULL}
    /\ doc[r] \in Seq(Sections)
    /\ out[r] \in Seq(SoundFiles)

\* An answer leaves a request with the files it gives.
LEMMA ReturnReads ==
  ASSUME ReadInv, LibraryGrows, NEW r \in Requests, NEW how, NEW files \in Seq(SoundFiles),
         Return(r, how, files)
  PROVE  ReadsWell(r)'
<1>1. head'[r] = NULL /\ rev'[r] = NULL /\ doc'[r] = <<>> /\ out'[r] = files
  BY DEF Return, ReadInv
<1>2. <<>> \in Seq(Sections') /\ files \in Seq(SoundFiles')
  BY SoundStays, SeqOfLarger
<1> QED
  BY <1>1, <1>2 DEF ReadsWell

\* What a request has read is good after a step that leaves it alone.
LEMMA ReadsKept ==
  ASSUME ReadInv, LibraryGrows, NEW r \in Requests, UNCHANGED <<head, rev, doc, out>>
  PROVE  ReadsWell(r)'
<1>1. head[r] \in Identity \cup {NULL} /\ rev[r] \in Settled \cup {NULL}
      /\ doc[r] \in Seq(Sections) /\ out[r] \in Seq(SoundFiles)
  BY DEF ReadInv
<1>2. doc[r] \in Seq(Sections') /\ out[r] \in Seq(SoundFiles') /\ rev[r] \in Settled' \cup {NULL}
  BY <1>1, SoundStays, SeqOfLarger
<1> QED
  BY <1>1, <1>2 DEF ReadsWell

\* What is dropped leaves good what is kept.
LEMMA DropReads ==
  ASSUME ReadInv, LibraryGrows, NEW r \in Requests, Drop(r) \/ SkipItem(r) \/ NotFound(r)
  PROVE  ReadsWell(r)'
<1>1. CASE SkipItem(r)
  BY <1>1, ReadsKept DEF SkipItem, exportVars
<1>2. CASE Drop(r)
  <2>1. CASE Return(r, "failed", <<>>)
    <3>1. <<>> \in Seq(SoundFiles)
      OBVIOUS
    <3> QED
      BY <2>1, <3>1, ReturnReads
  <2>2. CASE doc' = [doc EXCEPT ![r] = <<>>] /\ UNCHANGED <<op, more, target, head, rev, out, index>>
    <3>1. head[r] \in Identity \cup {NULL} /\ rev[r] \in Settled \cup {NULL}
          /\ out[r] \in Seq(SoundFiles) /\ doc'[r] = <<>>
      BY <2>2 DEF ReadInv
    <3>2. SoundFiles \subseteq SoundFiles' /\ Settled \subseteq Settled'
      BY SoundStays
    <3>3. out[r] \in Seq(SoundFiles') /\ rev[r] \in Settled' \cup {NULL}
      BY <3>1, <3>2, SeqOfLarger
    <3>4. <<>> \in Seq(Sections')
      OBVIOUS
    <3>5. head'[r] = head[r] /\ rev'[r] = rev[r] /\ out'[r] = out[r]
      BY <2>2
    <3> QED
      BY <3>1, <3>3, <3>4, <3>5 DEF ReadsWell
  <2> QED
    BY <1>1, <1>2, <2>1, <2>2 DEF Drop
<1> QED
  BY <1>1, <1>2 DEF NotFound

\* Each step leaves its request with a good reading.
LEMMA ActReads ==
  ASSUME FilesInv, LibraryGrows, NEW r \in Requests, Act(r)
  PROVE  ReadsWell(r)'
<1> USE DEF Goto, Answer, Refuse
<1>0. LibraryInv /\ ControlInv /\ ReadInv /\ RowInv
  BY DEF FilesInv
<1>a. <<>> \in Seq(SoundFiles)
  OBVIOUS
<1>1. CASE \E o \in Ops : Receive(r, o)
  BY <1>0, <1>1, ReadsKept DEF Receive
<1>2. CASE GetAsset(r) \/ BeginUpload(r) \/ ReadHeader(r)
  BY <1>0, <1>2, ReadsKept DEF GetAsset, BeginUpload, ReadHeader, localVars, exportVars
<1>3. CASE AssetNotFound(r) \/ RefuseItem(r) \/ CommitUpload(r) \/ UploadEnds(r) \/ RequestFails(r)
           \/ ImportDone(r)
  <2>1. \E how : Return(r, how, <<>>)
    BY <1>3 DEF AssetNotFound, RefuseItem, CommitUpload, UploadEnds, RequestFails, ImportDone
  <2> QED
    BY <1>0, <1>a, <2>1, ReturnReads
<1>4. CASE StoreItem(r) \/ NextSelection(r) \/ LeaveOutSelection(r) \/ NextFile(r)
  BY <1>0, <1>4, ReadsKept DEF StoreItem, NextSelection, LeaveOutSelection, NextFile, exportVars
<1>5. CASE ArchiveDone(r)
  <2>1. out[r] \in Seq(SoundFiles)
    BY <1>0 DEF ReadInv
  <2> QED
    BY <1>0, <1>5, <2>1, ReturnReads DEF ArchiveDone
<1>6. CASE AssetGone(r) \/ NoRevision(r) \/ HeaderGone(r) \/ ReadFails(r)
  BY <1>0, <1>6, DropReads DEF AssetGone, NoRevision, HeaderGone, ReadFails
<1>7. CASE ListAssets(r)
  BY <1>0, <1>7, ReadsKept DEF ListAssets, exportVars
<1>8. CASE UpdateAsset(r) \/ DisableAsset(r)
  <2>1. \E how : Return(r, how, <<>>)
    BY <1>8 DEF UpdateAsset, DisableAsset
  <2> QED
    BY <1>0, <1>a, <2>1, ReturnReads
<1>9. CASE PutReview(r) \/ RejectReview(r)
  <2>1. NextEntry(r)
    BY <1>9 DEF PutReview, RejectReview
  <2>2. CASE Return(r, "ok", <<>>)
    BY <1>0, <1>a, <2>2, ReturnReads
  <2>3. CASE UNCHANGED <<op, more, exportVars, index>>
    BY <1>0, <2>3, ReadsKept DEF exportVars
  <2> QED
    BY <2>1, <2>2, <2>3 DEF NextEntry
<1>b. ASSUME pc[r] \in Reading
      PROVE  op[r].format \in Formats /\ target[r] \in Assets
             /\ (pc[r] \in {"header", "rules"} => rev[r] \in Settled)
  <2>1. Active(r)
    BY <1>b DEF Active, Finished, Reading
  <2>2. InHand(r)
    BY <1>0, <2>1 DEF ControlInv
  <2>3. op[r] \in Ops /\ op[r].kind \in {"single", "multi", "archive"}
    BY <1>b, <2>2 DEF InHand, Suits, Reading
  <2> QED
    BY <1>b, <2>2, <2>3, FilesAssumption DEF OpType, InHand
<1>c. /\ head[r] \in Identity \cup {NULL} /\ rev[r] \in Settled \cup {NULL}
      /\ doc[r] \in Seq(Sections) /\ out[r] \in Seq(SoundFiles)
      /\ head \in [Requests -> Identity \cup {NULL}] /\ rev \in [Requests -> Settled \cup {NULL}]
      /\ doc \in [Requests -> Seq(Sections)] /\ out \in [Requests -> Seq(SoundFiles)]
  BY <1>0 DEF ReadInv
<1>d. /\ doc[r] \in Seq(Sections') /\ out[r] \in Seq(SoundFiles') /\ rev[r] \in Settled' \cup {NULL}
      /\ Settled \subseteq Settled'
  BY <1>c, SoundStays, SeqOfLarger
<1>10. CASE LoadAsset(r)
  <2>1. target[r] \in Assets
    BY <1>10, <1>b DEF LoadAsset, Reading
  <2>2. head'[r] \in Identity
    BY <1>0, <1>10, <1>c, <2>1, IdentityTyped DEF LoadAsset
  <2>3. UNCHANGED <<rev, doc, out>>
    BY <1>10 DEF LoadAsset
  <2> QED
    BY <1>c, <1>d, <2>2, <2>3 DEF ReadsWell
<1>11. CASE ReadRevision(r)
  <2>1. PICK i \in RevisionOf(Head(todo[r]).bench, Head(todo[r]).str) : rev' = [rev EXCEPT ![r] = i]
    BY <1>11 DEF ReadRevision
  <2>2. i \in Settled
    BY <1>0, <2>1, LiveSettled DEF RevisionOf
  <2>3. UNCHANGED <<head, doc, out>> /\ rev'[r] = i
    BY <1>11, <1>c, <2>1 DEF ReadRevision
  <2> QED
    BY <1>c, <1>d, <2>2, <2>3 DEF ReadsWell
<1>12. CASE ReadRules(r)
  <2> DEFINE s == [head |-> head[r], id |-> rev[r],
                   rows |-> [q \in RulesRead(r) |-> review[target[r]][q]]]
  <2>1. rev[r] \in Settled /\ target[r] \in Assets
    BY <1>12, <1>b DEF ReadRules, Reading
  <2>2. s \in Sections
    BY <1>0, <2>1, SectionRead
  <2>3. doc' = [doc EXCEPT ![r] = Append(@, s)] /\ UNCHANGED <<head, rev, out>>
    BY <1>12 DEF ReadRules
  <2> HIDE DEF s
  <2>4. s \in Sections'
    BY <2>2, SoundStays
  <2>5. doc'[r] \in Seq(Sections')
    BY <1>c, <1>d, <2>3, <2>4
  <2> QED
    BY <1>c, <1>d, <2>3, <2>5 DEF ReadsWell
<1>13. CASE WriteFile(r)
  <2>1. FileOf(r, head[r], doc[r]) \in SoundFiles
    BY <1>13, <1>b, <1>c, FileSound DEF WriteFile, Reading
  <2>2. <<FileOf(r, head[r], doc[r])>> \in Seq(SoundFiles)
    BY <2>1
  <2> QED
    BY <1>0, <1>13, <2>2, ReturnReads DEF WriteFile
<1>14. CASE WriteEntries(r)
  <2> DEFINE fs == [i \in DOMAIN doc[r] |-> FileOf(r, doc[r][i].head, <<doc[r][i]>>)]
  <2>1. ASSUME NEW i \in DOMAIN doc[r] PROVE FileOf(r, doc[r][i].head, <<doc[r][i]>>) \in SoundFiles
    <3>1. doc[r][i] \in Sections
      BY <1>c
    <3>2. doc[r][i].head \in Identity \cup {NULL} /\ <<doc[r][i]>> \in Seq(Sections)
      BY <3>1 DEF Sections
    <3> QED
      BY <1>14, <1>b, <3>2, FileSound DEF WriteEntries, Reading
  <2>2. fs \in Seq(SoundFiles)
    <3> HIDE DEF Sections, SoundFiles
    <3>1. DOMAIN doc[r] = 1..Len(doc[r]) /\ Len(doc[r]) \in Nat
      BY <1>c
    <3>2. fs \in [1..Len(doc[r]) -> SoundFiles]
      BY <2>1, <3>1
    <3> QED
      BY <3>1, <3>2
  <2>3. /\ out' = [out EXCEPT ![r] = @ \o fs] /\ doc' = [doc EXCEPT ![r] = <<>>]
        /\ UNCHANGED <<head, rev>>
    BY <1>14 DEF WriteEntries
  <2> HIDE DEF fs
  <2>4. out[r] \o fs \in Seq(SoundFiles')
    <3>1. fs \in Seq(SoundFiles')
      BY <2>2, SoundStays, SeqOfLarger
    <3> QED
      BY <1>d, <3>1
  <2>5. out'[r] = out[r] \o fs /\ doc'[r] = <<>>
    BY <1>c, <2>3
  <2> QED
    BY <1>c, <1>d, <2>3, <2>4, <2>5 DEF ReadsWell
<1> QED
  BY <1>1, <1>2, <1>3, <1>4, <1>5, <1>6, <1>7, <1>8, <1>9, <1>10, <1>11, <1>12, <1>13, <1>14
     DEF Act, Step, Fault, Deadlock, UploadFails

\* Readings stay good.
LEMMA ReadKept ==
  ASSUME FilesInv, LibraryGrows, NEW r \in Requests, Act(r)
  PROVE  ReadInv'
<1>1. ReadInv /\ OnlyOf(r)
  BY ActOnly DEF FilesInv
<1>2. ReadsWell(r)'
  BY ActReads
<1>3. /\ Settled \cup {NULL} \subseteq Settled' \cup {NULL}
      /\ Seq(Sections) \subseteq Seq(Sections') /\ Seq(SoundFiles) \subseteq Seq(SoundFiles')
  BY SoundStays, SeqOfLarger
<1>4. head' \in [Requests -> Identity \cup {NULL}]
  BY <1>1, <1>2, MoveTyped DEF ReadInv, ReadsWell, OnlyOf
<1>5. rev' \in [Requests -> Settled' \cup {NULL}]
  BY <1>1, <1>2, <1>3, MoveTyped DEF ReadInv, ReadsWell, OnlyOf
<1>6. doc' \in [Requests -> Seq(Sections')]
  BY <1>1, <1>2, <1>3, MoveTyped DEF ReadInv, ReadsWell, OnlyOf
<1>7. out' \in [Requests -> Seq(SoundFiles')]
  BY <1>1, <1>2, <1>3, MoveTyped DEF ReadInv, ReadsWell, OnlyOf
<1> QED
  BY <1>4, <1>5, <1>6, <1>7 DEF ReadInv

(***************************************************************************)
(* Assets, reviews and lists.                                              *)
(***************************************************************************)

\* A request at work has in hand what its place asks for.
LEMMA AtWork ==
  ASSUME ControlInv, NEW r \in Requests, pc[r] \notin Finished, pc[r] # "idle"
  PROVE  /\ InHand(r) /\ op[r] \in Ops /\ OpType(op[r]) /\ Suits(pc[r], op[r].kind)
         /\ pc[r] \in Reading \cup {"get", "put", "update", "disable"} => target[r] \in Assets
BY FilesAssumption DEF ControlInv, InHand, Active

\* An update gives a row of the table.
LEMMA RowTyped ==
  ASSUME NEW was \in AssetRow, NEW columns, DOMAIN columns \subseteq DOMAIN Columns,
         \A f \in DOMAIN columns : columns[f] \in Columns[f]
  PROVE  [f \in DOMAIN was |-> IF f \in DOMAIN columns THEN columns[f] ELSE was[f]] \in AssetRow
<1> DEFINE row == [f \in DOMAIN was |-> IF f \in DOMAIN columns THEN columns[f] ELSE was[f]]
<1>1. /\ DOMAIN was = {"coll", "enabled", "name", "fqdn", "mac", "ip"}
      /\ was.coll \in Colls /\ was.enabled \in BOOLEAN /\ was.name \in Names
      /\ was.fqdn \in Fqdns \cup {NULL} /\ was.mac \in Macs \cup {NULL} /\ was.ip \in Ips \cup {NULL}
  BY DEF AssetRow
<1>2. /\ DOMAIN Columns = {"coll", "name", "fqdn", "mac", "ip"}
      /\ Columns.coll = Colls /\ Columns.name = Names
      /\ Columns.fqdn = Fqdns \cup {NULL} /\ Columns.mac = Macs \cup {NULL}
      /\ Columns.ip = Ips \cup {NULL}
  BY DEF Columns
<1>3. \A f \in DOMAIN was : row[f] = IF f \in DOMAIN columns THEN columns[f] ELSE was[f]
  OBVIOUS
<1>4. row.coll \in Colls
  BY <1>1, <1>2, <1>3
<1>5. row.name \in Names
  BY <1>1, <1>2, <1>3
<1>6. row.fqdn \in Fqdns \cup {NULL}
  BY <1>1, <1>2, <1>3
<1>7. row.mac \in Macs \cup {NULL}
  BY <1>1, <1>2, <1>3
<1>8. row.ip \in Ips \cup {NULL}
  BY <1>1, <1>2, <1>3
<1>9. row.enabled = was.enabled
  <2>1. "enabled" \notin DOMAIN columns
    BY <1>2
  <2> QED
    BY <1>1, <1>3, <2>1
<1>10. row = [coll |-> row.coll, enabled |-> row.enabled, name |-> row.name, fqdn |-> row.fqdn,
              mac |-> row.mac, ip |-> row.ip]
  BY <1>1
<1> HIDE DEF row
<1>11. row \in AssetRow
  BY <1>1, <1>4, <1>5, <1>6, <1>7, <1>8, <1>9, <1>10 DEF AssetRow
<1> QED
  BY <1>11 DEF row

\* The row of an asset is written when no other row has its name.
LEMMA RowWritten ==
  ASSUME RowInv, NEW a \in Assets, NEW row \in AssetRow, row.enabled => ~NameTaken(a, row),
         asset' = [asset EXCEPT ![a] = row]
  PROVE  asset' \in [Assets -> AssetRow] /\ NamesApart(asset')
<1>1. asset \in [Assets -> AssetRow] /\ NamesApart(asset)
  BY DEF RowInv
<1>2. \A b \in Assets : asset'[b] = IF b = a THEN row ELSE asset[b]
  BY <1>1
<1> QED
  BY <1>1, <1>2 DEF NamesApart, NameTaken, Enabled

\* Assets change by updates and deletes, and their names stay apart.
LEMMA AssetsKept ==
  ASSUME FilesInv, NEW r \in Requests, UpdateAsset(r) \/ DisableAsset(r)
  PROVE  asset' \in [Assets -> AssetRow] /\ NamesApart(asset') /\ UNCHANGED review
<1>0. ControlInv /\ RowInv /\ asset \in [Assets -> AssetRow] /\ NamesApart(asset)
  BY DEF FilesInv, RowInv
<1>1. CASE UpdateAsset(r)
  <2> DEFINE a == target[r]
             columns == op[r].columns
             row == [f \in DOMAIN asset[a] |-> IF f \in DOMAIN columns THEN columns[f] ELSE asset[a][f]]
  <2>1. pc[r] = "update" /\ UNCHANGED review
    BY <1>1 DEF UpdateAsset
  <2>2. a \in Assets /\ op[r].kind = "update" /\ OpType(op[r])
    BY <1>0, <2>1, AtWork DEF Suits, Finished, Reading
  <2>3. row \in AssetRow
    BY <1>0, <2>2, RowTyped DEF OpType
  <2>4. asset' = IF Enabled(a) /\ ~NameTaken(a, row) THEN [asset EXCEPT ![a] = row] ELSE asset
    BY <1>1 DEF UpdateAsset
  <2> HIDE DEF row, a
  <2>5. CASE Enabled(a) /\ ~NameTaken(a, row)
    BY <1>0, <2>1, <2>2, <2>3, <2>4, <2>5, RowWritten
  <2>6. CASE ~(Enabled(a) /\ ~NameTaken(a, row))
    BY <1>0, <2>1, <2>4, <2>6
  <2> QED
    BY <2>5, <2>6
<1>2. CASE DisableAsset(r)
  <2> DEFINE a == target[r]
             row == [asset[a] EXCEPT !.enabled = FALSE]
  <2>1. pc[r] = "disable" /\ UNCHANGED review /\ asset' = [asset EXCEPT ![a].enabled = FALSE]
    BY <1>2 DEF DisableAsset
  <2>2. a \in Assets
    BY <1>0, <2>1, AtWork DEF Finished
  <2>3. asset[a] \in AssetRow
    BY <1>0, <2>2
  <2>4. row \in AssetRow /\ row.enabled = FALSE
    BY <2>3 DEF AssetRow
  <2>5. asset' = [asset EXCEPT ![a] = row]
    BY <2>1
  <2> HIDE DEF row, a
  <2> QED
    BY <1>0, <2>1, <2>2, <2>4, <2>5, RowWritten
<1> QED
  BY <1>1, <1>2

\* A review is written for a rule, as a request or a file gives it.
LEMMA ReviewsKept ==
  ASSUME FilesInv, NEW r \in Requests, PutReview(r)
  PROVE  review' \in [Assets -> [Rules -> Review \cup {NULL}]] /\ UNCHANGED asset
<1>0. ControlInv /\ RowInv /\ review \in [Assets -> [Rules -> Review \cup {NULL}]]
  BY DEF FilesInv, RowInv
<1> DEFINE e == Head(todo[r])
           v == [result |-> e.result, note |-> e.note, auto |-> e.auto]
<1>1. /\ pc[r] = "put" /\ UNCHANGED asset
      /\ review' = [review EXCEPT ![target[r]][e.rule] = v]
  BY DEF PutReview
<1>2. InHand(r) /\ target[r] \in Assets /\ op[r].kind \in {"put", "import"}
  BY <1>0, <1>1, AtWork DEF Suits, Finished, Reading
<1>3. e \in Written \/ e \in Parsed
  BY <1>1, <1>2, Rest DEF InHand
<1>4. e.rule \in Rules /\ e.result \in Results /\ e.note \in Notes \cup {NULL} /\ e.auto \in BOOLEAN
  BY <1>3 DEF Written, Parsed
<1> HIDE DEF e
<1>5. v \in Review
  BY <1>4 DEF Review
<1> HIDE DEF v
<1> QED
  BY <1>0, <1>1, <1>2, <1>4, <1>5

\* A list names the enabled assets of a collection, no two alike.
LEMMA ListsKept ==
  ASSUME RowInv, NEW r \in Requests, ListAssets(r)
  PROVE  index' \in [Requests -> Lists]
<1> DEFINE A == {b \in Assets : Enabled(b) /\ asset[b].coll = op[r].coll}
           L == {<<a, IdentityOf(a)>> : a \in A}
<1>1. \A a \in A : IdentityOf(a) \in Identity /\ IdentityOf(a).name = asset[a].name
  BY IdentityTyped
<1>2. L \in SUBSET (Assets \X Identity)
  BY <1>1
<1>3. ASSUME NEW d \in L, NEW e \in L, d[1] = e[1] \/ d[2].name = e[2].name PROVE d = e
  <2>1. PICK a \in A : d = <<a, IdentityOf(a)>>
    OBVIOUS
  <2>2. PICK b \in A : e = <<b, IdentityOf(b)>>
    OBVIOUS
  <2>3. a = b \/ asset[a].name = asset[b].name
    BY <1>1, <1>3, <2>1, <2>2
  <2>4. a = b
    BY <2>3 DEF RowInv, NamesApart, Enabled
  <2> QED
    BY <2>1, <2>2, <2>4
<1>4. L \in Lists
  BY <1>2, <1>3 DEF Lists
<1>5. index' = [index EXCEPT ![r] = L] /\ index \in [Requests -> Lists]
  BY DEF ListAssets, RowInv
<1> HIDE DEF L
<1> QED
  BY <1>4, <1>5

\* A list is made once, and goes with its request.
LEMMA IndexKept ==
  ASSUME RowInv, NEW r \in Requests, Act(r)
  PROVE  index' \in [Requests -> Lists]
<1> USE DEF Goto, Answer, Refuse
<1>0. index \in [Requests -> Lists] /\ {} \in Lists
  BY DEF RowInv, Lists
<1>a. ASSUME NEW how, NEW files, Return(r, how, files) PROVE index' \in [Requests -> Lists]
  BY <1>0, <1>a DEF Return
<1>b. ASSUME UNCHANGED index PROVE index' \in [Requests -> Lists]
  BY <1>0, <1>b
<1>c. ASSUME Drop(r) \/ SkipItem(r) \/ NotFound(r) PROVE index' \in [Requests -> Lists]
  <2>1. (\E how : Return(r, how, <<>>)) \/ UNCHANGED index
    BY <1>c DEF Drop, SkipItem, NotFound
  <2> QED
    BY <1>a, <1>b, <2>1
<1>1. CASE \E o \in Ops : Receive(r, o)
  BY <1>b, <1>1 DEF Receive
<1>2. CASE GetAsset(r) \/ BeginUpload(r) \/ StoreItem(r)
  BY <1>b, <1>2 DEF GetAsset, BeginUpload, StoreItem, localVars
<1>3. CASE NextSelection(r) \/ LeaveOutSelection(r) \/ LoadAsset(r) \/ ReadRevision(r)
  BY <1>b, <1>3 DEF NextSelection, LeaveOutSelection, LoadAsset, ReadRevision
<1>4. CASE ReadHeader(r) \/ ReadRules(r) \/ WriteEntries(r) \/ NextFile(r)
  BY <1>b, <1>4 DEF ReadHeader, ReadRules, WriteEntries, NextFile, localVars
<1>5. CASE AssetNotFound(r) \/ RefuseItem(r) \/ CommitUpload(r) \/ UploadEnds(r) \/ ArchiveDone(r)
  BY <1>a, <1>5 DEF AssetNotFound, RefuseItem, CommitUpload, UploadEnds, ArchiveDone
<1>6. CASE WriteFile(r) \/ ImportDone(r) \/ UpdateAsset(r) \/ DisableAsset(r) \/ RequestFails(r)
  BY <1>a, <1>6 DEF WriteFile, ImportDone, UpdateAsset, DisableAsset, RequestFails
<1>7. CASE AssetGone(r) \/ NoRevision(r) \/ HeaderGone(r) \/ ReadFails(r)
  BY <1>c, <1>7 DEF AssetGone, NoRevision, HeaderGone, ReadFails
<1>8. CASE ListAssets(r)
  BY <1>8, ListsKept
<1>9. CASE PutReview(r) \/ RejectReview(r)
  <2>1. Return(r, "ok", <<>>) \/ UNCHANGED index
    BY <1>9 DEF PutReview, RejectReview, NextEntry
  <2> QED
    BY <1>a, <1>b, <2>1
<1> QED
  BY <1>1, <1>2, <1>3, <1>4, <1>5, <1>6, <1>7, <1>8, <1>9
     DEF Act, Step, Fault, Deadlock, UploadFails

\* Only a review that is put, an update and a delete write rows.
LEMMA RowsAlone ==
  ASSUME NEW r \in Requests, Act(r)
  PROVE  PutReview(r) \/ UpdateAsset(r) \/ DisableAsset(r) \/ UNCHANGED rowVars
<1>1. CASE \E o \in Ops : Receive(r, o)
  BY <1>1 DEF Receive
<1>2. CASE GetAsset(r) \/ AssetNotFound(r) \/ BeginUpload(r) \/ StoreItem(r) \/ RefuseItem(r)
           \/ CommitUpload(r) \/ NextSelection(r) \/ LeaveOutSelection(r) \/ ArchiveDone(r)
  BY <1>2 DEF GetAsset, AssetNotFound, BeginUpload, StoreItem, RefuseItem, CommitUpload,
              NextSelection, LeaveOutSelection, ArchiveDone
<1>3. CASE LoadAsset(r) \/ AssetGone(r) \/ ReadRevision(r) \/ NoRevision(r) \/ ReadHeader(r)
           \/ HeaderGone(r) \/ ReadRules(r) \/ WriteFile(r) \/ WriteEntries(r)
  BY <1>3 DEF LoadAsset, AssetGone, ReadRevision, NoRevision, ReadHeader, HeaderGone, ReadRules,
              WriteFile, WriteEntries
<1>4. CASE ListAssets(r) \/ NextFile(r) \/ ImportDone(r) \/ UploadEnds(r)
           \/ RejectReview(r) \/ ReadFails(r) \/ RequestFails(r)
  BY <1>4 DEF ListAssets, NextFile, ImportDone, UploadEnds, RejectReview, ReadFails, RequestFails
<1> QED
  BY <1>1, <1>2, <1>3, <1>4 DEF Act, Step, Fault, Deadlock, UploadFails

\* Rows keep their types, and names stay apart.
LEMMA RowKept ==
  ASSUME FilesInv, NEW r \in Requests, Act(r)
  PROVE  RowInv'
<1>0. RowInv /\ index' \in [Requests -> Lists]
  BY IndexKept DEF FilesInv
<1>1. CASE PutReview(r)
  BY <1>0, <1>1, ReviewsKept DEF RowInv, NamesApart
<1>2. CASE UpdateAsset(r) \/ DisableAsset(r)
  BY <1>0, <1>2, AssetsKept DEF RowInv, NamesApart
<1>3. CASE UNCHANGED rowVars
  BY <1>0, <1>3 DEF RowInv, NamesApart, rowVars
<1> QED
  BY <1>1, <1>2, <1>3, RowsAlone

(***************************************************************************)
(* The asset of a file.                                                    *)
(***************************************************************************)

\* Of some listed assets one is the last by name.
LEMMA LastFound ==
  ASSUME NEW L \in Lists, NEW found \in SUBSET L, found # {}
  PROVE  LastByName(found) \in found
<1>0. /\ L \in SUBSET (Assets \X Identity)
      /\ \A d, e \in L : (d[1] = e[1] \/ d[2].name = e[2].name) => d = e
  BY DEF Lists
<1> DEFINE first == [e \in found |-> e[1]]
           N == {e[2].name : e \in found}
           name == [e \in found |-> e[2].name]
<1>1. first \in Injection(found, Assets)
  BY <1>0 DEF Injection, IsInjective
<1>2. IsFiniteSet(found)
  BY <1>1, FS_Injection, FilesAssumption
<1>3. name \in Surjection(found, N)
  BY DEF Surjection
<1>4. IsFiniteSet(N)
  BY <1>2, <1>3, FS_Surjection
<1>5. ASSUME NEW e \in found PROVE e[2].name \in Nat
  <2>1. e[2] \in Identity
    BY <1>0
  <2>2. e[2].name \in Names
    BY <2>1 DEF Identity
  <2> QED
    BY <2>2, FilesAssumption
<1>6. N \in SUBSET Nat /\ \E n \in N : TRUE
  <2>1. PICK e \in found : TRUE
    OBVIOUS
  <2>2. e[2].name \in N
    OBVIOUS
  <2> QED
    BY <1>5, <2>2
<1>7. PICK m \in N : \A n \in N : n <= m
  BY <1>4, <1>6, GreatestNumber
<1>8. PICK e \in found : m = e[2].name
  OBVIOUS
<1>9. \A d \in found : d[2].name <= e[2].name
  BY <1>7, <1>8
<1> QED
  BY <1>9 DEF LastByName

\* A field of a file gives a listed asset with its value, or none.
LEMMA FoundBy ==
  ASSUME NEW L \in Lists, NEW field, NEW value
  PROVE  /\ By(L, field, value) \in Assets \cup {NULL}
         /\ By(L, field, value) # NULL =>
               value # NULL /\ \E e \in L : e[2][field] = value /\ By(L, field, value) = e[1]
         /\ By(L, field, value) = NULL => value = NULL \/ \A e \in L : e[2][field] # value
<1> DEFINE found == IF value = NULL THEN {} ELSE {e \in L : e[2][field] = value}
<1>1. By(L, field, value) = IF found = {} THEN NULL ELSE LastByName(found)[1]
  BY DEF By
<1>2. found \in SUBSET L /\ L \in SUBSET (Assets \X Identity)
  BY DEF Lists
<1>3. CASE found = {}
  BY <1>1, <1>3
<1>4. CASE found # {}
  <2>1. LastByName(found) \in found
    BY <1>2, <1>4, LastFound
  <2>2. LastByName(found)[1] \in Assets
    BY <1>2, <2>1
  <2>3. LastByName(found)[1] # NULL
    BY <2>2, FilesAssumption
  <2> QED
    BY <1>1, <1>4, <2>1, <2>2, <2>3
<1> QED
  BY <1>3, <1>4

\* The first of five.
LEMMA FirstOfFive ==
  ASSUME NEW v, NEW w, NEW x, NEW y, NEW z
  PROVE  FirstOf(<<v, w, x, y, z>>) =
            IF v # NULL THEN v ELSE IF w # NULL THEN w ELSE IF x # NULL THEN x
            ELSE IF y # NULL THEN y ELSE z
<1> DEFINE s == <<v, w, x, y, z>>
           found == {i \in DOMAIN s : s[i] # NULL}
<1>1. DOMAIN s = 1..5 /\ s[1] = v /\ s[2] = w /\ s[3] = x /\ s[4] = y /\ s[5] = z
  OBVIOUS
<1>2. FirstOf(s) = IF found = {} THEN NULL ELSE s[Min(found)]
  BY DEF FirstOf
<1> HIDE DEF s
<1>3. ASSUME NEW k \in 1..5, s[k] # NULL, \A j \in 1..(k - 1) : s[j] = NULL
      PROVE  FirstOf(s) = s[k]
  <2>1. k \in found /\ \A i \in found : k <= i
    <3>1. k \in found /\ found \subseteq 1..5
      BY <1>1, <1>3
    <3>2. ASSUME NEW i \in found PROVE k <= i
      <4>1. i \in 1..5 /\ s[i] # NULL
        BY <3>1
      <4>2. i \notin 1..(k - 1)
        BY <1>3, <4>1
      <4> QED
        BY <4>1, <4>2
    <3> QED
      BY <3>1, <3>2
  <2>2. Min(found) \in found /\ \A i \in found : Min(found) <= i
    BY <2>1 DEF Min
  <2>3. Min(found) \in Int
    BY <1>1, <2>2
  <2>4. Min(found) = k
    BY <2>1, <2>2, <2>3
  <2> QED
    BY <1>2, <2>1, <2>4
<1>4. CASE v # NULL
  BY <1>1, <1>3, <1>4 DEF s
<1>5. CASE v = NULL /\ w # NULL
  <2>1. s[2] # NULL /\ \A j \in 1..(2 - 1) : s[j] = NULL
    BY <1>1, <1>5
  <2> QED
    BY <1>1, <1>3, <1>5, <2>1 DEF s
<1>6. CASE v = NULL /\ w = NULL /\ x # NULL
  <2>1. s[3] # NULL /\ \A j \in 1..(3 - 1) : s[j] = NULL
    BY <1>1, <1>6
  <2> QED
    BY <1>1, <1>3, <1>6, <2>1 DEF s
<1>7. CASE v = NULL /\ w = NULL /\ x = NULL /\ y # NULL
  <2>1. s[4] # NULL /\ \A j \in 1..(4 - 1) : s[j] = NULL
    BY <1>1, <1>7
  <2> QED
    BY <1>1, <1>3, <1>7, <2>1 DEF s
<1>8. CASE v = NULL /\ w = NULL /\ x = NULL /\ y = NULL /\ z # NULL
  <2>1. s[5] # NULL /\ \A j \in 1..(5 - 1) : s[j] = NULL
    BY <1>1, <1>8
  <2> QED
    BY <1>1, <1>3, <1>8, <2>1 DEF s
<1>9. CASE v = NULL /\ w = NULL /\ x = NULL /\ y = NULL /\ z = NULL
  <2>1. found = {}
    BY <1>1, <1>9
  <2> QED
    BY <1>2, <1>9, <2>1 DEF s
<1> QED
  BY <1>4, <1>5, <1>6, <1>7, <1>8, <1>9

\* A file resolves to an asset or to none.
LEMMA ResolveTyped ==
  ASSUME NEW L \in Lists, NEW id
  PROVE  Resolve(L, id) \in Assets \cup {NULL}
<1>1. /\ By(L, "fqdn", id.fqdn) \in Assets \cup {NULL} /\ By(L, "name", id.name) \in Assets \cup {NULL}
      /\ By(L, "name", Short[id.name]) \in Assets \cup {NULL}
      /\ By(L, "mac", id.mac) \in Assets \cup {NULL} /\ By(L, "ip", id.ip) \in Assets \cup {NULL}
  BY FoundBy
<1> QED
  BY <1>1, FirstOfFive DEF Resolve

(***************************************************************************)
(* The entries of a file.                                                  *)
(***************************************************************************)

\* What a writer makes of a judgement its parser undoes.
LEMMA JudgementUndone ==
  ASSUME NEW x \in Formats, NEW result \in Results, result \in DOMAIN Statuses[x]
  PROVE  /\ ResultOf[x][Statuses[x][result]] \in Results
         /\ result \in Judged => ResultOf[x][Statuses[x][result]] = result
<1>1. CASE x = "ckl"
  <2>1. Statuses[x] = CklStatus /\ ResultOf[x] = CklResult
    BY <1>1 DEF Statuses, ResultOf
  <2>2. result \in {"pass", "fail", "notapplicable"}
    BY <2>1 DEF CklStatus
  <2> QED
    BY <2>1, <2>2 DEF CklStatus, CklResult, Results
<1>2. CASE x = "cklb"
  <2>1. Statuses[x] = CklbStatus /\ ResultOf[x] = CklbResult
    BY <1>2 DEF Statuses, ResultOf
  <2>2. result \in {"pass", "fail", "notapplicable", "informational"}
    BY <2>1 DEF CklbStatus
  <2> QED
    BY <2>1, <2>2 DEF CklbStatus, CklbResult, Results, Judged
<1>3. CASE x = "xccdf"
  <2>1. Statuses[x] = XccdfStatus /\ ResultOf[x] = XccdfResult
    BY <1>3 DEF Statuses, ResultOf
  <2> QED
    BY <2>1 DEF XccdfStatus, XccdfResult
<1> QED
  BY <1>1, <1>2, <1>3 DEF Formats

\* A rule that has not been reviewed is read as one that has not.
LEMMA UnreviewedRead ==
  ASSUME NEW x \in Formats
  PROVE  ResultOf[x][Unreviewed[x]] = "notchecked"
<1>1. CASE x = "ckl"
  BY <1>1 DEF Unreviewed, ResultOf, CklResult
<1>2. CASE x = "cklb"
  BY <1>2 DEF Unreviewed, ResultOf, CklbResult
<1>3. CASE x = "xccdf"
  BY <1>3 DEF Unreviewed, ResultOf, XccdfResult, Results
<1> QED
  BY <1>1, <1>2, <1>3 DEF Formats

\* The judgements can be written in every format.
LEMMA JudgedWritten ==
  ASSUME NEW x \in Formats
  PROVE  Judged \subseteq DOMAIN Statuses[x]
<1>1. CASE x = "ckl"
  BY <1>1 DEF Judged, Statuses, CklStatus
<1>2. CASE x = "cklb"
  BY <1>2 DEF Judged, Statuses, CklbStatus
<1>3. CASE x = "xccdf"
  BY <1>3 DEF Judged, Statuses, XccdfStatus, Results
<1> QED
  BY <1>1, <1>2, <1>3 DEF Formats

\* A row of a file is parsed to an entry that says what was exported.
LEMMA EntryParsed ==
  ASSUME NEW x \in Formats, NEW f, f.format = x, f.from \in Assets, NEW q \in Rules,
         NEW v \in Review \cup {NULL}
  PROVE  Entry(f, q, Row(x, v)) \in Parsed
<1> DEFINE result == ResultOf[x][StatusOf(x, v)]
           note == NoteIn(x, v)
           e == [rule |-> RuleIn(x, q), result |-> result, note |-> note, auto |-> x = "xccdf",
                 from |-> f.from, format |-> x, was |-> v]
<1>1. Entry(f, q, Row(x, v)) = e
  BY DEF Entry, Row
<1>2. RuleIn(x, q) \in Rules
  BY FilesAssumption DEF RuleIn
<1>3. result \in Results /\ (v # NULL /\ v.result \in Judged => result = v.result)
  <2>1. CASE v # NULL /\ v.result \in DOMAIN Statuses[x]
    <3>1. v.result \in Results
      BY <2>1 DEF Review
    <3>2. result = ResultOf[x][Statuses[x][v.result]]
      BY <2>1 DEF StatusOf
    <3> HIDE DEF result
    <3> QED
      BY <2>1, <3>1, <3>2, JudgementUndone
  <2>2. CASE ~(v # NULL /\ v.result \in DOMAIN Statuses[x])
    <3>1. result = "notchecked"
      BY <2>2, UnreviewedRead DEF StatusOf
    <3> HIDE DEF result
    <3> QED
      BY <2>2, <3>1, JudgedWritten DEF Results
  <2> QED
    BY <2>1, <2>2
<1>4. note \in Notes \cup {NULL} /\ (v # NULL /\ x # "xccdf" => note = v.note)
  BY DEF NoteIn, Review
<1> HIDE DEF result, note
<1>5. e \in [rule : Rules, result : Results, note : Notes \cup {NULL}, auto : BOOLEAN,
             from : Assets, format : Formats, was : Review \cup {NULL}]
  BY <1>2, <1>3, <1>4
<1>6. Survives(e)
  BY <1>3, <1>4 DEF Survives
<1> HIDE DEF e
<1> QED
  BY <1>1, <1>5, <1>6 DEF Parsed

\* A sound file is parsed to entries that say what was exported.
LEMMA FileParsed ==
  ASSUME LibraryInv, NEW f \in SoundFiles
  PROVE  Entries(f) \in Seq(Parsed)
<1> DEFINE S == Cells(f)
           At(c) == Entry(f, c[2], f.stigs[c[1]].rows[c[2]])
<1>1. PICK x \in Formats :
        f \in [format : {x}, from : Assets, head : Identity \cup {NULL}, stigs : Seq(FileSections(x))]
  BY DEF SoundFiles
<1>2. f.format = x /\ f.from \in Assets /\ f.stigs \in Seq(FileSections(x))
  BY <1>1
<1>3. DOMAIN f.stigs = 1..Len(f.stigs) /\ Len(f.stigs) \in Nat
      /\ \A i \in DOMAIN f.stigs : f.stigs[i] \in FileSections(x)
  BY <1>2
<1>4. S \in SUBSET (Nat \X Nat) /\ S \subseteq (DOMAIN f.stigs) \X Rules
  <2>1. S \subseteq (DOMAIN f.stigs) \X Rules
    BY DEF Cells
  <2>2. DOMAIN f.stigs \subseteq Nat /\ Rules \subseteq Nat
    BY <1>3, LibraryAssumption
  <2> HIDE DEF S
  <2> QED
    BY <2>1, <2>2
<1>5. IsFiniteSet(S)
  <2>1. IsFiniteSet(DOMAIN f.stigs)
    BY <1>3, FS_Interval
  <2>2. IsFiniteSet((DOMAIN f.stigs) \X Rules)
    <3>1. IsFiniteSet(Rules)
      BY FilesAssumption
    <3> QED
      BY <2>1, <3>1, FS_Product
  <2> QED
    BY <1>4, <2>2, FS_Subset
<1>6. ASSUME NEW c \in S PROVE At(c) \in Parsed
  <2>1. c[1] \in DOMAIN f.stigs /\ c[2] \in Rules /\ c[2] \in DOMAIN f.stigs[c[1]].rows
    BY <1>4 DEF Cells
  <2>2. f.stigs[c[1]].rows \in Tables(FileRows(x))
    BY <1>3, <2>1 DEF FileSections
  <2>3. f.stigs[c[1]].rows[c[2]] \in FileRows(x)
    BY <2>1, <2>2, TableFacts
  <2>4. PICK v \in Review \cup {NULL} : f.stigs[c[1]].rows[c[2]] = Row(x, v)
    BY <2>3 DEF FileRows
  <2> QED
    BY <1>2, <2>1, <2>4, EntryParsed
<1>7. InOrder(S) \in [1..Cardinality(S) -> S] /\ Cardinality(S) \in Nat
  BY <1>4, <1>5, OrderedCells
<1>8. Entries(f) = [k \in 1..Cardinality(S) |-> At(InOrder(S)[k])]
  BY <1>7 DEF Entries
<1>9. \A k \in 1..Cardinality(S) : At(InOrder(S)[k]) \in Parsed
  BY <1>6, <1>7
<1> HIDE DEF At, S
<1> QED
  BY <1>7, <1>8, <1>9

(***************************************************************************)
(* Where a request is, and what it has in hand.                            *)
(***************************************************************************)

Works(r) ==
    /\ pc[r] \in Places /\ op[r] \in Ops \cup {NULL} /\ target[r] \in Assets \cup {NULL}
    /\ Active(r) => InHand(r)

\* An answered request has nothing in hand.
LEMMA ReturnWorks ==
  ASSUME ControlInv, NEW r \in Requests, NEW how \in Finished, NEW files, Return(r, how, files)
  PROVE  Works(r)'
<1>1. pc'[r] = how /\ op'[r] = NULL /\ target'[r] = NULL
  BY DEF Return, ControlInv
<1> QED
  BY <1>1 DEF Works, Places, Active

\* A request that is received has in hand what it asks for.
LEMMA ReceiveWorks ==
  ASSUME ControlInv, Files \subseteq Files', NEW r \in Requests, NEW o \in Ops, Receive(r, o)
  PROVE  Works(r)'
<1>1. OpType(o) /\ o.kind \in Kinds
  BY FilesAssumption DEF OpType
<1>2. /\ pc'[r] = FirstStep(o) /\ op'[r] = o
      /\ target'[r] = IF FirstStep(o) = "get" THEN o.at ELSE NULL
      /\ todo'[r] = IF o.kind \in {"upload", "single", "put"} THEN o.items ELSE <<>>
  BY DEF Receive, Goto, ControlInv
<1>3. PICK fs \in IF o.kind = "import" THEN UNION {[1..n -> Files] : n \in 1..MaxFiles} ELSE {<<>>} :
         more' = [more EXCEPT ![r] = IF o.kind = "archive" THEN o.items ELSE fs]
  BY DEF Receive
<1>4. more'[r] = IF o.kind = "archive" THEN o.items ELSE fs
  BY <1>3 DEF ControlInv
<1>5. CASE o.kind = "upload"
  <2>1. pc'[r] = "begin" /\ todo'[r] \in Seq(Revision) /\ target'[r] = NULL
    BY <1>1, <1>2, <1>5 DEF OpType, FirstStep
  <2> QED
    BY <1>2, <1>5, <2>1 DEF Works, Places, InHand, Suits, Reading
<1>6. CASE o.kind = "archive"
  <2>1. pc'[r] = "select" /\ more'[r] \in Seq(Selections) /\ target'[r] = NULL
    BY <1>1, <1>2, <1>4, <1>6 DEF OpType, FirstStep
  <2> QED
    BY <1>2, <1>6, <2>1 DEF Works, Places, InHand, Suits, Reading
<1>7. CASE o.kind = "import"
  <2>1. pc'[r] = "list" /\ target'[r] = NULL /\ more'[r] = fs
    BY <1>2, <1>4, <1>7 DEF FirstStep
  <2>2. PICK n \in 1..MaxFiles : fs \in [1..n -> Files]
    BY <1>3, <1>7
  <2>3. n \in Nat /\ fs \in [1..n -> Files']
    BY <2>2, FilesAssumption
  <2>4. fs \in Seq(Files')
    BY <2>3
  <2> QED
    BY <1>2, <1>7, <2>1, <2>4 DEF Works, Places, InHand, Suits, Reading
<1>8. CASE o.kind \in {"single", "multi", "put", "update", "delete"}
  <2>1. pc'[r] = "get" /\ target'[r] = o.at /\ o.at \in Assets
    BY <1>1, <1>2, <1>8 DEF FirstStep, OpType
  <2>2. o.kind = "put" => todo'[r] \in Seq(Written) /\ todo'[r] # <<>>
    <3>1. o.kind = "put" => o.items \in Seq(Written) /\ Len(o.items) = 1
      BY <1>1 DEF OpType
    <3>2. o.kind = "put" => todo'[r] = o.items
      BY <1>2
    <3> QED
      BY <3>1, <3>2
  <2> QED
    BY <1>2, <1>8, <2>1, <2>2 DEF Works, Places, InHand, Suits, Reading
<1> QED
  BY <1>1, <1>5, <1>6, <1>7, <1>8 DEF Kinds

\* An export goes on with its asset.
LEMMA ReadingOn ==
  ASSUME ControlInv, NEW r \in Requests, pc[r] \in Reading, NEW next \in {"load", "revision", "write"},
         pc' = [pc EXCEPT ![r] = next], UNCHANGED <<op, more, target>>
  PROVE  Works(r)'
<1>1. InHand(r) /\ op[r] \in Ops /\ op[r].kind \in {"single", "multi", "archive"} /\ target[r] \in Assets
  BY AtWork DEF Suits, Reading, Finished
<1>2. op[r].kind = "archive" => more[r] \in Seq(Selections) /\ more[r] # <<>>
  BY <1>1 DEF InHand, Reading
<1>3. pc'[r] = next /\ op'[r] = op[r] /\ more'[r] = more[r] /\ target'[r] = target[r]
  BY DEF ControlInv
<1> QED
  BY <1>1, <1>2, <1>3 DEF Works, InHand, Suits, Places, Reading, Finished

\* So does one that has lost what it was reading, if it goes on.
LEMMA DropWorks ==
  ASSUME ControlInv, NEW r \in Requests, pc[r] \in Reading, Drop(r) \/ SkipItem(r) \/ NotFound(r)
  PROVE  Works(r)'
<1>1. CASE SkipItem(r)
  <2>1. AfterItem(r, todo'[r]) \in {"load", "revision", "write"}
    BY DEF AfterItem
  <2> QED
    BY <1>1, <2>1, ReadingOn DEF SkipItem, exportVars
<1>2. CASE Drop(r)
  <2>1. CASE Return(r, "failed", <<>>)
    BY <2>1, ReturnWorks DEF Finished
  <2>2. CASE pc' = [pc EXCEPT ![r] = "write"] /\ UNCHANGED <<op, more, target, head, rev, out, index>>
    BY <2>2, ReadingOn
  <2> QED
    BY <1>1, <1>2, <2>1, <2>2 DEF Drop
<1> QED
  BY <1>1, <1>2 DEF NotFound

\* The next file of an import, with its entries.
LEMMA FileWorks ==
  ASSUME FilesInv, Files \subseteq Files', Files \subseteq SoundFiles,
         NEW r \in Requests, NextFile(r)
  PROVE  Works(r)'
<1> DEFINE f == Head(more[r])
           a == Resolve(index[r], f.head)
<1>0. LibraryInv /\ ControlInv /\ index[r] \in Lists
  BY DEF FilesInv, RowInv
<1>1. pc[r] = "file" /\ more[r] # <<>> /\ UNCHANGED op
  BY DEF NextFile
<1>2. InHand(r) /\ op[r] \in Ops /\ op[r].kind = "import"
  BY <1>0, <1>1, AtWork DEF Suits, Reading, Finished
<1>3. more[r] \in Seq(Files)
  BY <1>2 DEF InHand
<1>4. f \in Files /\ Tail(more[r]) \in Seq(Files)
  BY <1>1, <1>3, Rest
<1>5. Tail(more[r]) \in Seq(Files')
  BY <1>4, SeqOfLarger
<1>6. a \in Assets \cup {NULL}
  BY <1>0, ResolveTyped
<1>7. f \in SoundFiles
  BY <1>4
<1> HIDE DEF f, a
<1>8. Entries(f) \in Seq(Parsed) /\ <<>> \in Seq(Parsed)
  BY <1>0, <1>7, FileParsed
<1>9. /\ target'[r] = a /\ todo'[r] = (IF a = NULL THEN <<>> ELSE Entries(f))
      /\ more'[r] = Tail(more[r]) /\ op'[r] = op[r]
      /\ pc'[r] = IF todo'[r] = <<>> THEN "file" ELSE "put"
  BY <1>0 DEF NextFile, ControlInv, f, a
<1>10. todo'[r] \in Seq(Parsed) /\ (todo'[r] # <<>> => a # NULL)
  BY <1>8, <1>9
<1>11. CASE todo'[r] = <<>>
  <2>1. pc'[r] = "file"
    BY <1>9, <1>11
  <2> QED
    BY <1>2, <1>5, <1>6, <1>9, <2>1 DEF Works, InHand, Suits, Places, Reading
<1>12. CASE todo'[r] # <<>>
  <2>1. pc'[r] = "put" /\ target'[r] \in Assets
    BY <1>6, <1>9, <1>10, <1>12
  <2> QED
    BY <1>2, <1>5, <1>9, <1>10, <1>12, <2>1 DEF Works, InHand, Suits, Places, Reading
<1> QED
  BY <1>11, <1>12

\* Each step leaves its request in its place, with what that asks for.
LEMMA ActWorks ==
  ASSUME FilesInv, LibraryGrows, Files \subseteq Files', Files \subseteq SoundFiles,
         NEW r \in Requests, Act(r)
  PROVE  Works(r)'
<1> USE DEF Goto, Answer, Refuse
<1>0. ControlInv /\ LibraryInv /\ Settled \subseteq Settled'
  BY DEF FilesInv, LibraryGrows
<1>a. /\ DOMAIN pc = Requests /\ DOMAIN op = Requests /\ DOMAIN target = Requests
      /\ DOMAIN more = Requests /\ DOMAIN todo = Requests /\ DOMAIN rev = Requests
  BY <1>0 DEF ControlInv, FilesInv, ReadInv
<1>1. CASE \E o \in Ops : Receive(r, o)
  BY <1>0, <1>1, ReceiveWorks
<1>2. CASE GetAsset(r)
  <2>1. pc[r] = "get" /\ pc'[r] = AfterGet(op[r]) /\ UNCHANGED <<op, target, more, todo>>
    BY <1>2, <1>a DEF GetAsset, localVars, exportVars
  <2>2. InHand(r) /\ op[r] \in Ops /\ op[r].kind \in {"single", "multi", "put", "update", "delete"}
        /\ target[r] \in Assets
    BY <1>0, <2>1, AtWork DEF Suits, Finished, Reading
  <2>3. pc'[r] \in {"load", "put", "update", "disable"} /\ Suits(pc'[r], op[r].kind)
    BY <2>1, <2>2 DEF AfterGet, Suits, Reading
  <2> QED
    BY <2>1, <2>2, <2>3 DEF Works, InHand, Places, Reading
<1>3. CASE BeginUpload(r)
  <2>1. pc[r] = "begin" /\ pc'[r] = "store" /\ UNCHANGED <<op, target, more, todo>>
    BY <1>3, <1>a DEF BeginUpload, localVars, exportVars
  <2>2. InHand(r) /\ op[r] \in Ops /\ op[r].kind = "upload" /\ target[r] \in Assets \cup {NULL}
    BY <1>0, <2>1, AtWork DEF Suits, Finished, Reading, ControlInv
  <2> QED
    BY <2>1, <2>2 DEF Works, InHand, Suits, Places, Reading
<1>4. CASE StoreItem(r)
  <2>1. /\ pc[r] = "store" /\ pc'[r] = "store" /\ UNCHANGED <<op, target, more>>
        /\ todo[r] # <<>> /\ todo'[r] = Tail(todo[r])
    BY <1>4, <1>a DEF StoreItem, exportVars
  <2>2. InHand(r) /\ op[r] \in Ops /\ op[r].kind = "upload" /\ target[r] \in Assets \cup {NULL}
    BY <1>0, <2>1, AtWork DEF Suits, Finished, Reading, ControlInv
  <2>3. todo'[r] \in Seq(Revision)
    BY <2>1, <2>2, Rest DEF InHand
  <2> QED
    BY <2>1, <2>2, <2>3 DEF Works, InHand, Suits, Places, Reading
<1>5. CASE NextSelection(r) \/ LeaveOutSelection(r)
  <2>1. pc[r] = "select" /\ more[r] # <<>> /\ UNCHANGED op
    BY <1>5 DEF NextSelection, LeaveOutSelection
  <2>2. InHand(r) /\ op[r] \in Ops /\ op[r].kind = "archive" /\ target[r] \in Assets \cup {NULL}
    BY <1>0, <2>1, AtWork DEF Suits, Finished, Reading, ControlInv
  <2>3. more[r] \in Seq(Selections)
    BY <2>2 DEF InHand
  <2>4. Head(more[r]) \in Selections /\ Tail(more[r]) \in Seq(Selections)
    BY <2>1, <2>3, Rest
  <2>5. CASE NextSelection(r)
    <3>1. Head(more[r]).at \in Assets
      BY <2>4 DEF Selections
    <3>2. pc'[r] = "load" /\ target'[r] = Head(more[r]).at /\ UNCHANGED more
      BY <2>5, <1>a DEF NextSelection
    <3> QED
      BY <2>1, <2>2, <2>3, <3>1, <3>2 DEF Works, InHand, Suits, Places, Reading
  <2>6. CASE LeaveOutSelection(r)
    <3>1. pc'[r] = "select" /\ more'[r] = Tail(more[r]) /\ UNCHANGED target
      BY <2>6, <1>a DEF LeaveOutSelection, exportVars
    <3> QED
      BY <2>1, <2>2, <2>4, <3>1 DEF Works, InHand, Suits, Places, Reading
  <2> QED
    BY <1>5, <2>5, <2>6
<1>6. CASE LoadAsset(r)
  <2>1. /\ pc[r] = "load" /\ UNCHANGED <<op, more, target>>
        /\ pc' = [pc EXCEPT ![r] = IF Multi(r) THEN AfterItem(r, todo'[r]) ELSE "revision"]
    BY <1>6 DEF LoadAsset
  <2>2. (IF Multi(r) THEN AfterItem(r, todo'[r]) ELSE "revision") \in {"load", "revision", "write"}
    BY DEF AfterItem
  <2>3. pc[r] \in Reading
    BY <2>1 DEF Reading
  <2> QED
    BY <1>0, <2>1, <2>2, <2>3, ReadingOn
<1>7. CASE AssetGone(r) \/ NoRevision(r) \/ HeaderGone(r) \/ ReadFails(r)
  <2>1. pc[r] \in Reading /\ (Drop(r) \/ NotFound(r))
    BY <1>7 DEF AssetGone, NoRevision, HeaderGone, ReadFails, Reading
  <2> QED
    BY <1>0, <2>1, DropWorks
<1>8. CASE ReadRevision(r) \/ ReadHeader(r)
  <2>1. pc[r] \in {"revision", "header"} /\ pc'[r] \in {"header", "rules"} /\ UNCHANGED <<op, more, target>>
    BY <1>8, <1>a DEF ReadRevision, ReadHeader, localVars, exportVars
  <2>2. InHand(r) /\ op[r] \in Ops /\ op[r].kind \in {"single", "multi", "archive"}
        /\ target[r] \in Assets
    BY <1>0, <2>1, AtWork DEF Suits, Finished, Reading
  <2>3. op[r].kind = "archive" => more[r] \in Seq(Selections) /\ more[r] # <<>>
    BY <2>1, <2>2 DEF InHand
  <2>4. rev'[r] \in Settled'
    <3>1. CASE ReadRevision(r)
      <4>1. PICK i \in RevisionOf(Head(todo[r]).bench, Head(todo[r]).str) : rev' = [rev EXCEPT ![r] = i]
        BY <3>1 DEF ReadRevision
      <4>2. i \in Settled /\ rev'[r] = i
        BY <1>0, <1>a, <4>1, LiveSettled DEF RevisionOf
      <4> QED
        BY <1>0, <4>2
    <3>2. CASE ReadHeader(r)
      <4>1. pc[r] = "header" /\ UNCHANGED rev
        BY <3>2 DEF ReadHeader, localVars, exportVars
      <4>2. rev[r] \in Settled
        BY <2>2, <4>1 DEF InHand
      <4> QED
        BY <1>0, <4>1, <4>2
    <3> QED
      BY <1>8, <3>1, <3>2
  <2> QED
    BY <2>1, <2>2, <2>3, <2>4 DEF Works, InHand, Suits, Places, Reading
<1>9. CASE ReadRules(r)
  <2>1. /\ pc[r] = "rules" /\ UNCHANGED <<op, more, target>>
        /\ pc' = [pc EXCEPT ![r] = AfterItem(r, todo'[r])]
    BY <1>9 DEF ReadRules
  <2>2. AfterItem(r, todo'[r]) \in {"load", "revision", "write"} /\ pc[r] \in Reading
    BY <2>1 DEF AfterItem, Reading
  <2> QED
    BY <1>0, <2>1, <2>2, ReadingOn
<1>10. CASE WriteEntries(r)
  <2>1. /\ pc[r] = "write" /\ pc'[r] = "select" /\ UNCHANGED <<op, target>>
        /\ op[r].kind = "archive" /\ more'[r] = Tail(more[r])
    BY <1>10, <1>a DEF WriteEntries
  <2>2. InHand(r) /\ op[r] \in Ops /\ target[r] \in Assets
    BY <1>0, <2>1, AtWork DEF Finished, Reading
  <2>3. more[r] \in Seq(Selections) /\ more[r] # <<>>
    BY <2>1, <2>2 DEF InHand
  <2>4. more'[r] \in Seq(Selections)
    BY <2>1, <2>3, Rest
  <2> QED
    BY <2>1, <2>2, <2>4 DEF Works, InHand, Suits, Places, Reading
<1>11. CASE ListAssets(r)
  <2>1. pc[r] = "list" /\ pc'[r] = "file" /\ UNCHANGED <<op, more, target>>
    BY <1>11, <1>a DEF ListAssets, exportVars
  <2>2. InHand(r) /\ op[r] \in Ops /\ op[r].kind = "import" /\ target[r] \in Assets \cup {NULL}
    BY <1>0, <2>1, AtWork DEF Suits, Finished, Reading, ControlInv
  <2>3. more[r] \in Seq(Files')
    BY <2>2, SeqOfLarger DEF InHand
  <2> QED
    BY <2>1, <2>2, <2>3 DEF Works, InHand, Suits, Places, Reading
<1>12. CASE NextFile(r)
  BY <1>12, FileWorks
<1>13. CASE PutReview(r) \/ RejectReview(r)
  <2>1. pc[r] = "put" /\ NextEntry(r)
    BY <1>13 DEF PutReview, RejectReview
  <2>2. CASE Return(r, "ok", <<>>)
    BY <1>0, <2>2, ReturnWorks DEF Finished
  <2>3. CASE op[r].kind = "import" /\ ~Return(r, "ok", <<>>)
    <3>1. /\ todo'[r] = Tail(todo[r]) /\ pc'[r] = (IF todo'[r] = <<>> THEN "file" ELSE "put")
          /\ UNCHANGED <<op, more, target>>
      BY <1>a, <2>1, <2>3 DEF NextEntry, exportVars
    <3>2. InHand(r) /\ op[r] \in Ops /\ target[r] \in Assets
      BY <1>0, <2>1, AtWork DEF Finished
    <3>3. more[r] \in Seq(Files') /\ todo[r] \in Seq(Parsed) /\ todo[r] # <<>>
      BY <2>1, <2>3, <3>2, SeqOfLarger DEF InHand
    <3>4. todo'[r] \in Seq(Parsed)
      BY <3>1, <3>3, Rest
    <3> QED
      BY <2>3, <3>1, <3>2, <3>3, <3>4 DEF Works, InHand, Suits, Places, Reading
  <2> QED
    BY <2>1, <2>2, <2>3 DEF NextEntry
<1>14. CASE AssetNotFound(r) \/ RefuseItem(r) \/ CommitUpload(r) \/ UploadEnds(r) \/ ArchiveDone(r)
            \/ WriteFile(r) \/ ImportDone(r) \/ RequestFails(r)
  <2>1. \E how \in Finished : \E files : Return(r, how, files)
    BY <1>14 DEF AssetNotFound, RefuseItem, CommitUpload, UploadEnds, ArchiveDone, WriteFile,
                 ImportDone, RequestFails, Finished
  <2> QED
    BY <1>0, <2>1, ReturnWorks
<1>15. CASE UpdateAsset(r) \/ DisableAsset(r)
  <2>1. \E how \in Finished : Return(r, how, <<>>)
    BY <1>15 DEF UpdateAsset, DisableAsset, Finished
  <2> QED
    BY <1>0, <2>1, ReturnWorks
<1> QED
  BY <1>1, <1>2, <1>3, <1>4, <1>5, <1>6, <1>7, <1>8, <1>9, <1>10, <1>11, <1>12, <1>13, <1>14, <1>15
     DEF Act, Step, Fault, Deadlock, UploadFails

\* The others keep what they have in hand.
LEMMA OthersWork ==
  ASSUME FilesInv, LibraryGrows, Files \subseteq Files', NEW r \in Requests, Act(r),
         NEW q \in Others(r), Active(q)'
  PROVE  InHand(q)'
<1>1. ControlInv /\ ReadInv /\ RowInv /\ OnlyOf(r) /\ q \in Requests
  BY ActOnly DEF FilesInv, Others
<1>2. /\ pc'[q] = pc[q] /\ op'[q] = op[q] /\ more'[q] = more[q] /\ todo'[q] = todo[q]
      /\ target'[q] = target[q] /\ rev'[q] = rev[q]
  BY <1>1, OthersKeep
<1>3. InHand(q)
  BY <1>1, <1>2 DEF Active, ControlInv
<1>4. op[q].kind = "import" => more[q] \in Seq(Files')
  BY <1>3, SeqOfLarger DEF InHand
<1>5. pc[q] \in {"header", "rules"} => rev[q] \in Settled'
  BY <1>3 DEF InHand, LibraryGrows
<1> QED
  BY <1>2, <1>3, <1>4, <1>5 DEF InHand

\* Every request stays in its place.
LEMMA ControlKept ==
  ASSUME FilesInv, LibraryGrows, NEW r \in Requests, Act(r)
  PROVE  ControlInv'
<1>1. ControlInv /\ ReadInv /\ RowInv /\ OnlyOf(r)
  BY ActOnly DEF FilesInv
<1>2. Files \subseteq Files' /\ Files \subseteq SoundFiles
  BY <1>1, FilesKept
<1>3. Works(r)'
  BY <1>2, ActWorks
<1>4. pc' \in [Requests -> Places]
  BY <1>1, <1>3, MoveTyped DEF ControlInv, Works, OnlyOf
<1>5. op' \in [Requests -> Ops \cup {NULL}]
  BY <1>1, <1>3, MoveTyped DEF ControlInv, Works, OnlyOf
<1>6. target' \in [Requests -> Assets \cup {NULL}]
  BY <1>1, <1>3, MoveTyped DEF ControlInv, Works, OnlyOf
<1>7. DOMAIN more' = Requests /\ DOMAIN todo' = Requests
  BY <1>1 DEF ControlInv, OnlyOf, Moves
<1>8. ASSUME NEW q \in Requests, Active(q)' PROVE InHand(q)'
  <2>1. CASE q = r
    BY <1>3, <1>8, <2>1 DEF Works
  <2>2. CASE q \in Others(r)
    BY <1>2, <1>8, <2>2, OthersWork
  <2> QED
    BY <2>1, <2>2 DEF Others
<1> QED
  BY <1>4, <1>5, <1>6, <1>7, <1>8 DEF ControlInv

(***************************************************************************)
(* The theorems.                                                           *)
(***************************************************************************)

\* The seeds are good, and nobody has asked for anything.
LEMMA FilesInitially == Init => FilesInv
<1> SUFFICES ASSUME Init PROVE FilesInv
  OBVIOUS
<1>1. PICK s \in Seeds : asset = s.asset /\ review = s.review
  BY DEF Init
<1>2. SeedType(s)
  BY FilesAssumption
<1>3. LibraryInv
  BY LibraryInitially
<1>4. ControlInv
  BY DEF Init, ControlInv, Places, Active
<1>5. ReadInv
  <2>1. <<>> \in Seq(Sections) /\ <<>> \in Seq(SoundFiles)
    OBVIOUS
  <2> QED
    BY <2>1 DEF Init, ReadInv
<1>6. RowInv
  BY <1>1, <1>2 DEF Init, RowInv, SeedType, NamesApart, Lists
<1> QED
  BY <1>3, <1>4, <1>5, <1>6 DEF FilesInv

\* A step of a request keeps the invariant.
LEMMA ActKeeps ==
  ASSUME FilesInv, NEW r \in Requests, Act(r)
  PROVE  FilesInv'
<1>1. LibraryInv /\ ControlInv /\ ReadInv /\ RowInv
  BY DEF FilesInv
<1>2. \A q \in Others(r) : pc'[q] = pc[q]
  BY <1>1, ActOnly, OthersKeep
<1>3. LibraryInv' /\ LibraryGrows
  BY <1>1, <1>2, ActLibrary, LibraryKept
<1> QED
  BY <1>3, ControlKept, ReadKept, RowKept DEF FilesInv

\* A step of the whole is one of a request, or changes nothing.
LEMMA OneActs ==
  ASSUME [Next]_vars
  PROVE  (\E r \in Requests : Act(r)) \/ UNCHANGED vars
BY DEF Next, Act, AllDone

\* The invariant holds throughout.
THEOREM Invariance == Spec => []FilesInv
<1>1. Init => FilesInv
  BY FilesInitially
<1>2. FilesInv /\ [Next]_vars => FilesInv'
  <2> SUFFICES ASSUME FilesInv, [Next]_vars PROVE FilesInv'
    OBVIOUS
  <2>1. CASE \E r \in Requests : Act(r)
    BY <2>1, ActKeeps
  <2>2. CASE UNCHANGED vars
    <3>1. UNCHANGED libraryVars /\ UNCHANGED rowVars /\ UNCHANGED pc /\ UNCHANGED <<op, more, todo>>
          /\ UNCHANGED <<target, head, rev, doc, out, index>>
      BY <2>2 DEF vars, localVars, exportVars
    <3>2. LibraryInv'
      BY <3>1 DEF FilesInv, LibraryInv, LibraryShape, StigsLocked, RevisionsApart, Apart, Visible,
                  libraryVars
    <3>3. Settled' = Settled /\ Sections' = Sections /\ SoundFiles' = SoundFiles /\ Files' = Files
      BY <3>1 DEF Settled, Sections, SoundFiles, FileSections, Whole, Files, libraryVars
    <3>4. ControlInv'
      BY <3>1, <3>3 DEF FilesInv, ControlInv, Active, InHand
    <3>5. ReadInv'
      BY <3>1, <3>3 DEF FilesInv, ReadInv
    <3>6. RowInv'
      BY <3>1 DEF FilesInv, RowInv, NamesApart, rowVars
    <3> QED
      BY <3>2, <3>4, <3>5, <3>6 DEF FilesInv
  <2> QED
    BY <2>1, <2>2, OneActs
<1> QED
  BY <1>1, <1>2, PTL DEF Spec

\* Rows, requests and what they hold have their types, and a benchmark has a
\* revision string once.
THEOREM TypeCorrect == Spec => []TypeOK
<1>1. FilesInv => TypeOK
  <2> SUFFICES ASSUME FilesInv PROVE TypeOK
    OBVIOUS
  <2>1. LibraryOK
    BY LibraryIsOK DEF FilesInv
  <2>2. ASSUME NEW r \in Requests
        PROVE  rev[r] \in DOMAIN book \cup {NULL} /\ index[r] \subseteq Assets \X Identity
    BY DEF FilesInv, ReadInv, RowInv, Settled, Lists
  <2> QED
    BY <2>1, <2>2 DEF TypeOK, FilesInv, ControlInv, ReadInv, RowInv, Places
<1> QED
  BY <1>1, Invariance, PTL

\* What clients have is sound.
LEMMA FilesSound ==
  ASSUME FilesInv, NEW f \in Files
  PROVE  f \in SoundFiles
<1>1. PICK q \in Requests : f \in ToSet(out[q])
  BY DEF Files
<1>2. out[q] \in Seq(SoundFiles)
  BY DEF FilesInv, ReadInv
<1> QED
  BY <1>1, <1>2 DEF ToSet

\* The rules of each STIG in a file are those of the revision that its header
\* names, or none if that has been replaced.
THEOREM FilesAreWhole == Spec => []WholeRevision
<1>1. FilesInv => WholeRevision
  <2> SUFFICES ASSUME FilesInv, NEW f \in Files, NEW i \in DOMAIN f.stigs
               PROVE  Whole(f.stigs[i])
    BY DEF WholeRevision, Whole
  <2>1. PICK x \in Formats :
          f \in [format : {x}, from : Assets, head : Identity \cup {NULL}, stigs : Seq(FileSections(x))]
    BY FilesSound DEF SoundFiles
  <2>2. f.stigs[i] \in FileSections(x)
    BY <2>1
  <2> QED
    BY <2>2 DEF FileSections
<1> QED
  BY <1>1, Invariance, PTL

\* A file goes back to its asset if that is listed under its name and no other
\* listed asset has its FQDN.
THEOREM FilesReturn == Spec => []OwnAsset
<1>1. FilesInv => OwnAsset
  <2> SUFFICES ASSUME FilesInv, NEW r \in Requests, NEW f \in Files, NEW e \in index[r],
                      e[1] = f.from, e[2].name = f.head.name,
                      f.head.fqdn # NULL => \A d \in index[r] \ {e} : d[2].fqdn # f.head.fqdn
               PROVE  Resolve(index[r], f.head) = f.from
    BY DEF OwnAsset
  <2> DEFINE L == index[r]
             id == f.head
             v == By(L, "fqdn", id.fqdn)
             w == By(L, "name", id.name)
             x == By(L, "name", Short[id.name])
             y == By(L, "mac", id.mac)
             z == By(L, "ip", id.ip)
  <2>1. L \in Lists /\ L \in SUBSET (Assets \X Identity)
        /\ \A d \in L : d[2].name = e[2].name => d = e
    BY DEF FilesInv, RowInv, Lists
  <2>2. e[1] \in Assets /\ e[1] # NULL /\ e[2].name # NULL
    <3>1. e[1] \in Assets /\ e[2] \in Identity
      BY <2>1
    <3>2. e[2].name \in Names
      BY <3>1 DEF Identity
    <3> QED
      BY <3>1, <3>2, FilesAssumption
  <2> HIDE DEF L
  <2>3. v # NULL => v = e[1]
    <3> SUFFICES ASSUME v # NULL PROVE v = e[1]
      OBVIOUS
    <3>1. id.fqdn # NULL /\ \E d \in L : d[2]["fqdn"] = id.fqdn /\ v = d[1]
      BY <2>1, FoundBy
    <3> QED
      BY <3>1 DEF L
  <2>4. w = e[1]
    <3>1. w # NULL
      <4>1. e \in L /\ e[2]["name"] = id.name /\ id.name # NULL
        BY <2>2 DEF L
      <4> QED
        BY <2>1, <4>1, FoundBy
    <3>2. \E d \in L : d[2]["name"] = id.name /\ w = d[1]
      BY <2>1, <3>1, FoundBy
    <3> QED
      BY <2>1, <3>2
  <2>5. Resolve(L, id) = FirstOf(<<v, w, x, y, z>>)
    BY DEF Resolve
  <2> HIDE DEF v, w, x, y, z
  <2>6. FirstOf(<<v, w, x, y, z>>) =
            IF v # NULL THEN v ELSE IF w # NULL THEN w ELSE IF x # NULL THEN x
            ELSE IF y # NULL THEN y ELSE z
    BY FirstOfFive
  <2>7. Resolve(L, id) = e[1]
    BY <2>2, <2>3, <2>4, <2>5, <2>6
  <2> QED
    BY <2>7 DEF L
<1> QED
  BY <1>1, Invariance, PTL

\* The review of an entry is what was exported, where the import may say so.
LEMMA EntrySurvives ==
  ASSUME FilesInv, NEW r \in Requests, PutReview(r), op[r].kind = "import",
         Head(todo[r]).was # NULL
  PROVE  LET e == Head(todo[r])
             now == review'[target[r]][e.rule]
         IN /\ e.was.result \in Judged => now.result = e.was.result
            /\ e.format # "xccdf" => now.note = e.was.note
<1> DEFINE e == Head(todo[r])
           v == [result |-> e.result, note |-> e.note, auto |-> e.auto]
<1>0. ControlInv /\ RowInv
  BY DEF FilesInv
<1>1. pc[r] = "put" /\ review' = [review EXCEPT ![target[r]][e.rule] = v]
  BY DEF PutReview
<1>2. InHand(r) /\ target[r] \in Assets
  BY <1>0, <1>1, AtWork DEF Finished
<1>3. e \in Parsed
  BY <1>1, <1>2, Rest DEF InHand
<1>4. e.rule \in Rules /\ Survives(e)
  BY <1>3 DEF Parsed
<1> HIDE DEF e
<1>5. review'[target[r]][e.rule] = v
  BY <1>0, <1>1, <1>2, <1>4 DEF RowInv
<1>6. v.result = e.result /\ v.note = e.note
  OBVIOUS
<1> HIDE DEF v
<1>7. e.was # NULL
  BY DEF e
<1>8. /\ e.was.result \in Judged => review'[target[r]][e.rule].result = e.was.result
      /\ e.format # "xccdf" => review'[target[r]][e.rule].note = e.was.note
  BY <1>4, <1>5, <1>6, <1>7 DEF Survives
<1> QED
  BY <1>8 DEF e

\* An import of a file into the asset it was exported from leaves a judgement
\* as it was, and in CKL and CKLB files its detail and comment.
THEOREM JudgementsSurvive == Spec => ResultsSurvive
<1> DEFINE Kept(r) ==
      (pc[r] = "put" /\ op[r].kind = "import" /\ todo'[r] # todo[r] /\ review' # review) =>
         LET e == Head(todo[r])
             now == review'[target[r]][e.rule]
         IN (e.from = target[r] /\ review[target[r]][e.rule] = e.was /\ e.was # NULL) =>
               /\ e.was.result \in Judged => now.result = e.was.result
               /\ e.format # "xccdf" => now.note = e.was.note
<1>1. FilesInv /\ [Next]_vars => [\A r \in Requests : Kept(r)]_vars
  <2> SUFFICES ASSUME FilesInv, [Next]_vars, ~UNCHANGED vars,
                      NEW r \in Requests, pc[r] = "put", op[r].kind = "import",
                      todo'[r] # todo[r], review' # review, Head(todo[r]).was # NULL
               PROVE  LET e == Head(todo[r])
                          now == review'[target[r]][e.rule]
                      IN /\ e.was.result \in Judged => now.result = e.was.result
                         /\ e.format # "xccdf" => now.note = e.was.note
    OBVIOUS
  <2>1. PICK q \in Requests : Act(q)
    BY OneActs
  <2>2. ControlInv /\ ReadInv /\ RowInv /\ OnlyOf(q)
    BY <2>1, ActOnly DEF FilesInv
  <2>3. q = r
    BY <2>2, OthersKeep DEF Others
  <2>4. PutReview(r)
    <3>1. PutReview(r) \/ UpdateAsset(r) \/ DisableAsset(r) \/ UNCHANGED rowVars
      BY <2>1, <2>3, RowsAlone
    <3>2. UpdateAsset(r) \/ DisableAsset(r) => UNCHANGED review
      BY AssetsKept
    <3> QED
      BY <3>1, <3>2 DEF rowVars
  <2> QED
    BY <2>4, EntrySurvives
<1> QED
  BY <1>1, Invariance, PTL DEF Spec, ResultsSurvive
=============================================================================
