--------------------------- MODULE ElfObjectProofs ---------------------------
(***************************************************************************)
(* What the loader reads of an object file is what its source declares,    *)
(* for every source and every file a compiler may make of it: in whatever  *)
(* order the sections and the symbols lie, whatever it adds of its own.    *)
(***************************************************************************)
EXTENDS ElfObject, FiniteSetTheorems, SequenceTheorems, WellFoundedInduction, TLAPS

-------------------------------------------------------------------------------
(* Numbers and sorting.                                                    *)

LEMMA Least ==
    ASSUME NEW T \in SUBSET Nat, T # {}
    PROVE  \E x \in T : \A y \in T : x <= y
<1> DEFINE R == OpToRel(<, Nat)
<1>1. IsWellFoundedOn(R, Nat)
    BY NatLessThanWellFounded
<1>2. R = {ss \in Nat \X Nat : ss[1] < ss[2]}
    BY DEF OpToRel
<1> HIDE DEF R
<1>3. PICK x \in T : \A y \in T : <<y, x>> \notin R
    BY <1>1, WFMin
<1>4. \A y \in T : <<y, x>> \in Nat \X Nat /\ (<<y, x>> \in R <=> y < x)
    BY <1>2
<1>5. \A y \in T : y \in Nat /\ ~(y < x)
    BY <1>3, <1>4
<1>6. \A y \in T : x <= y
    BY <1>5
<1>7. QED
    BY <1>6

LEMMA MinIsIn ==
    ASSUME NEW T \in SUBSET Nat, T # {}
    PROVE  Min(T) \in T
BY Least DEF Min

(* t lists S, with n elements, in the order of keys that differ.           *)
Lists(t, n, S, key) ==
    /\ n \in Nat
    /\ t \in [1 .. n -> S]
    /\ \A x \in S : key[x] \in Int
    /\ \A x \in S : \E i \in 1 .. n : t[i] = x
    /\ \A i, j \in 1 .. n : i < j => key[t[i]] < key[t[j]]

(* There is one way to sort a set whose keys differ: any enumeration with  *)
(* increasing keys is what sorting gives.                                  *)
LEMMA SortedByIs ==
    ASSUME NEW S, NEW key, NEW n, NEW t, Lists(t, n, S, key)
    PROVE  SortedBy(S, key) = t /\ Cardinality(S) = n
<1> USE DEF Lists
<1> DEFINE Sorts(s) == \A i, j \in DOMAIN s : i < j => key[s[i]] <= key[s[j]]
           s == CHOOSE u \in Bijection(1 .. Cardinality(S), S) : Sorts(u)
<1>1. ASSUME NEW i \in 1 .. n, NEW j \in 1 .. n, t[i] = t[j] PROVE i = j
    <2>1. ~(i < j) /\ ~(j < i)
        BY <1>1
    <2>2. QED
        BY <2>1
<1>2. t \in Bijection(1 .. n, S)
    BY <1>1 DEF Bijection, Injection, Surjection, IsInjective
<1>3. Cardinality(S) = n
    BY <1>2, FS_CountingElements DEF ExistsBijection
<1>4. Sorts(t)
    BY DEF Sorts
<1>5. s \in Bijection(1 .. n, S) /\ Sorts(s)
    BY <1>2, <1>3, <1>4
<1> HIDE DEF s
<1>6. /\ s \in [1 .. n -> S]
      /\ \A i, j \in 1 .. n : s[i] = s[j] => i = j
      /\ \A x \in S : \E i \in 1 .. n : s[i] = x
    BY <1>5 DEF Bijection, Injection, Surjection, IsInjective
<1>7. \A i, j \in 1 .. n : i < j => key[s[i]] <= key[s[j]]
    BY <1>5, <1>6 DEF Sorts
<1> DEFINE T == {i \in 1 .. n : s[i] # t[i]}
<1>8. T = {}
    <2> SUFFICES ASSUME T # {} PROVE FALSE
        OBVIOUS
    <2>1. PICK m \in T : \A i \in T : m <= i
        <3>1. T \in SUBSET Nat
            OBVIOUS
        <3> HIDE DEF T
        <3>2. QED
            BY <3>1, Least
    <2>2. m \in 1 .. n /\ s[m] # t[m] /\ \A i \in 1 .. n : i < m => s[i] = t[i]
        BY <2>1
    <2>3. PICK a \in 1 .. n : t[a] = s[m]
        BY <1>6, <2>2
    <2>4. PICK b \in 1 .. n : s[b] = t[m]
        BY <1>6, <2>2
    <2>5. m < a
        <3>1. a # m
            BY <2>2, <2>3
        <3>2. ~(a < m)
            BY <1>6, <2>2, <2>3
        <3>3. QED
            BY <3>1, <3>2, <2>2
    <2>6. m < b
        <3>1. b # m
            BY <2>2, <2>4
        <3>2. ~(b < m)
            BY <1>1, <2>2, <2>4
        <3>3. QED
            BY <3>1, <3>2, <2>2
    <2>7. key[t[m]] < key[t[a]] /\ key[s[m]] <= key[s[b]]
        BY <1>7, <2>2, <2>5, <2>6
    <2>8. key[t[m]] \in Int /\ key[t[a]] \in Int
        BY <2>2
    <2>9. QED
        BY <2>3, <2>4, <2>7, <2>8
<1>9. \A i \in 1 .. n : s[i] = t[i]
    BY <1>8
<1>10. s = t
    BY <1>6, <1>9
<1>11. QED
    BY <1>3, <1>10 DEF SortedBy, s

(* A set of numbers sorted by itself: an enumeration of it.  The place of  *)
(* a number is how many there are up to it.                                *)
LEMMA SortedNumbers ==
    ASSUME NEW S \in SUBSET Nat, IsFiniteSet(S)
    PROVE  /\ Cardinality(S) \in Nat
           /\ SortedBy(S, [i \in S |-> i]) \in [1 .. Cardinality(S) -> S]
           /\ \A x \in S : \E i \in 1 .. Cardinality(S) : SortedBy(S, [j \in S |-> j])[i] = x
<1> DEFINE n == Cardinality(S)
           UpTo(i) == {j \in S : j <= i}
           rank == [i \in S |-> Cardinality(UpTo(i))]
<1>1. n \in Nat
    BY FS_CardinalityType
<1>2. ASSUME NEW i \in S PROVE rank[i] \in 1 .. n
    <2>1. /\ IsFiniteSet(UpTo(i)) /\ Cardinality(UpTo(i)) <= n
        BY FS_Subset
    <2>2. Cardinality(UpTo(i)) \in Nat /\ Cardinality(UpTo(i)) # 0
        BY <2>1, FS_CardinalityType, FS_EmptySet
    <2>3. QED
        BY <1>1, <2>1, <2>2
<1>3. ASSUME NEW i \in S, NEW j \in S, i < j PROVE rank[i] < rank[j]
    <2>1. /\ IsFiniteSet(UpTo(j)) /\ UpTo(i) \in SUBSET UpTo(j) /\ UpTo(i) # UpTo(j)
        <3>1. j \in UpTo(j) /\ j \notin UpTo(i)
            BY <1>3
        <3>2. UpTo(i) \in SUBSET UpTo(j)
            <4>1. \A a, b, c \in Nat : a <= b /\ b < c => a <= c
                OBVIOUS
            <4>2. QED
                BY <1>3, <4>1
        <3>3. QED
            BY <3>1, <3>2, FS_Subset
    <2>2. Cardinality(UpTo(i)) <= Cardinality(UpTo(j))
          /\ Cardinality(UpTo(i)) # Cardinality(UpTo(j))
        BY <2>1, FS_Subset
    <2>3. rank[i] \in Nat /\ rank[j] \in Nat
        BY <1>2
    <2>4. QED
        BY <2>2, <2>3
<1> HIDE DEF n
<1>4. rank \in [S -> 1 .. n]
    BY <1>2
<1> HIDE DEF rank
<1>5. \A i, j \in S : rank[i] = rank[j] => i = j
    BY <1>3, <1>4
<1>6. rank \in Injection(S, 1 .. n)
    BY <1>4, <1>5 DEF Injection, IsInjective
<1>7. IsFiniteSet(1 .. n) /\ Cardinality(1 .. n) = n
    BY <1>1, FS_Interval
<1>8. rank \in Surjection(S, 1 .. n)
    BY <1>6, <1>7, FS_Injection DEF n
<1> DEFINE t == [p \in 1 .. n |-> CHOOSE i \in S : rank[i] = p]
<1>9. \A p \in 1 .. n : t[p] \in S /\ rank[t[p]] = p
    BY <1>8 DEF Surjection
<1> HIDE DEF t
<1>10. t \in [1 .. n -> S]
    BY <1>9 DEF t
<1>11. \A x \in S : \E p \in 1 .. n : t[p] = x
    BY <1>4, <1>5, <1>9
<1>12. ASSUME NEW p \in 1 .. n, NEW q \in 1 .. n, p < q PROVE t[p] < t[q]
    <2>1. ~(t[q] < t[p]) /\ t[p] # t[q]
        <3>1. ~(q < p) /\ p # q
            BY <1>1, <1>12
        <3>2. QED
            BY <1>3, <1>9, <3>1
    <2>2. t[p] \in Nat /\ t[q] \in Nat
        BY <1>9
    <2>3. QED
        BY <2>1, <2>2
<1>0. PICK key : key = [i \in S |-> i]
    OBVIOUS
<1>13. \A p, q \in 1 .. n : p < q => key[t[p]] < key[t[q]]
    BY <1>0, <1>9, <1>12
<1>14. \A x \in S : key[x] \in Int
    BY <1>0
<1>15. SortedBy(S, key) = t
    <2>1. Lists(t, n, S, key)
        BY <1>1, <1>10, <1>11, <1>13, <1>14 DEF Lists
    <2>2. QED
        BY <2>1, SortedByIs
<1>16. QED
    BY <1>0, <1>1, <1>10, <1>11, <1>15 DEF n

-------------------------------------------------------------------------------
(* Reading sections.                                                       *)

LEMMA OneSection ==
    ASSUME NEW file, IsSequence(file.sections), NEW name, NEW i \in DOMAIN file.sections,
           Named(file, name) = {i}
    PROVE  IndexOf(file, name) = i /\ file.sections[i].name = name
<1>1. i \in Nat
    BY DEF IsSequence
<1>2. {i} \in SUBSET Nat /\ {i} # {}
    BY <1>1
<1>3. Min({i}) \in {i}
    BY <1>2, MinIsIn
<1>4. i \in Named(file, name)
    OBVIOUS
<1>5. QED
    BY <1>3, <1>4 DEF IndexOf, Named

(* The names come out in the order of the definitions.                     *)
LEMMA NamesRead ==
    ASSUME NEW file, IsSequence(file.sections), NEW section, NEW n \in Nat, NEW names,
           names = [k \in 1 .. n |-> names[k]], HoldsInOrder(file, section, names)
    PROVE  SymNames(file, section, AnyType) = names
<1>1. PICK i \in DOMAIN file.sections :
          /\ Named(file, section) = {i}
          /\ \E at \in [DOMAIN names -> {s \in ToSet(file.symbols) : s.shndx = i}] :
                /\ \A s \in ToSet(file.symbols) : s.shndx = i => \E k \in DOMAIN names : at[k] = s
                /\ \A k \in DOMAIN names : /\ at[k].name = names[k]
                                           /\ at[k].value \in Nat /\ at[k].type \in AnyType
                /\ \A j, k \in DOMAIN names : j < k => at[j].value < at[k].value
    BY DEF HoldsInOrder
<1>2. DOMAIN names = 1 .. n
    OBVIOUS
<1>3. IndexOf(file, section) = i
    BY <1>1, OneSection
<1> DEFINE here == {s \in ToSet(file.symbols) : s.shndx = i}
           chosen == {s \in ToSet(file.symbols) :
                        s.shndx = IndexOf(file, section) /\ s.type \in AnyType}
<1>4. PICK at \in [1 .. n -> here] :
          /\ \A s \in here : \E k \in 1 .. n : at[k] = s
          /\ \A k \in 1 .. n : /\ at[k].name = names[k]
                               /\ at[k].value \in Nat /\ at[k].type \in AnyType
          /\ \A j, k \in 1 .. n : j < k => at[j].value < at[k].value
    BY <1>1, <1>2
<1>5. chosen = here
    BY <1>3, <1>4
<1>6. PICK key : key = [s \in chosen |-> s.value]
    OBVIOUS
<1>7. Lists(at, n, chosen, key)
    <2>1. \A k \in 1 .. n : at[k] \in chosen /\ key[at[k]] = at[k].value
        BY <1>4, <1>5, <1>6
    <2>2. \A s \in chosen : \E k \in 1 .. n : at[k] = s
        BY <1>4, <1>5
    <2>3. \A s \in chosen : key[s] \in Int
        BY <1>4, <2>1, <2>2
    <2>4. at \in [1 .. n -> chosen]
        BY <1>4, <1>5
    <2>5. \A j, k \in 1 .. n : j < k => key[at[j]] < key[at[k]]
        BY <1>4, <2>1
    <2>6. QED
        BY <2>2, <2>3, <2>4, <2>5 DEF Lists
<1>8. InOrder(file.symbols, chosen) = at
    BY <1>6, <1>7, SortedByIs DEF InOrder
<1>9. SymNames(file, section, AnyType) = [k \in DOMAIN at |-> at[k].name]
    BY <1>8 DEF SymNames
<1>10. [k \in DOMAIN at |-> at[k].name] = names
    BY <1>4
<1>11. QED
    BY <1>9, <1>10

(* The function of a section that holds one.                               *)
LEMMA FunctionRead ==
    ASSUME NEW file, IsSequence(file.sections), NEW i \in DOMAIN file.sections, NEW p,
           NEW declared, HoldsFunction(file, i, p, declared)
    PROVE  /\ FunctionsOf(file, i) # <<>> /\ FunctionsOf(file, i)[1] = p.name
           /\ file.sections[i].name = p.section
<1>1. IndexOf(file, p.section) = i /\ file.sections[i].name = p.section
    <2>1. Named(file, p.section) = {i}
        BY DEF HoldsFunction
    <2>2. QED
        BY <2>1, OneSection
<1>2. PICK f \in ToSet(file.symbols) :
          /\ f.name = p.name /\ f.shndx = i /\ f.type = "func" /\ f.value \in Nat
          /\ \A t \in ToSet(file.symbols) : t.shndx = i /\ t.type = "func" => t = f
    BY DEF HoldsFunction
<1> DEFINE chosen == {s \in ToSet(file.symbols) :
                        s.shndx = IndexOf(file, p.section) /\ s.type \in {"func"}}
<1>3. chosen = {f}
    BY <1>1, <1>2
<1>4. PICK key : key = [s \in chosen |-> s.value]
    OBVIOUS
<1>5. PICK at : at = [k \in 1 .. 1 |-> f]
    OBVIOUS
<1>6. Lists(at, 1, chosen, key)
    BY <1>2, <1>3, <1>4, <1>5 DEF Lists
<1>7. InOrder(file.symbols, chosen) = at
    BY <1>4, <1>6, SortedByIs DEF InOrder
<1>8. SymNames(file, p.section, {"func"}) = [k \in DOMAIN at |-> at[k].name]
    BY <1>7 DEF SymNames
<1>9. FunctionsOf(file, i) = [k \in 1 .. 1 |-> p.name]
    BY <1>1, <1>2, <1>5, <1>8 DEF FunctionsOf
<1>10. QED
    BY <1>1, <1>9

-------------------------------------------------------------------------------
(* Reading a file a compiler has made.                                     *)

MapNamesOf(source) == {m.name : m \in ToSet(source.maps)}

LEMMA MapsRead ==
    ASSUME NEW file, NEW source, ProperSource(source), Compiled(file, source)
    PROVE  /\ MapNames(file) = [k \in DOMAIN source.maps |-> source.maps[k].name]
           /\ \A k \in DOMAIN source.maps :
                 [SectionData(file, <<"maps">>)[k] EXCEPT !.name = MapNames(file)[k]]
                    = source.maps[k]
<1> DEFINE names == [k \in DOMAIN source.maps |-> source.maps[k].name]
<1>1. source.maps \in Seq(MapDefs)
    BY DEF ProperSource
<1>2. PICK n \in Nat : n = Len(source.maps) /\ DOMAIN source.maps = 1 .. n
    BY <1>1
<1>3. CASE Named(file, <<"maps">>) = {}
    <2>1. source.maps = <<>> /\ MapNames(file) = <<>>
        BY <1>3 DEF Compiled, MapNames
    <2>2. QED
        BY <2>1
<1>4. CASE Named(file, <<"maps">>) # {}
    <2>1. /\ SectionData(file, <<"maps">>) = source.maps
          /\ HoldsInOrder(file, <<"maps">>, names) /\ IsSequence(file.sections)
        BY <1>4 DEF Compiled
    <2>2. names = [k \in 1 .. n |-> names[k]]
        BY <1>2
    <2> HIDE DEF names
    <2>3. MapNames(file) = names
        BY <1>2, <1>4, <2>1, <2>2, NamesRead DEF MapNames
    <2>4. ASSUME NEW k \in DOMAIN source.maps
          PROVE  [source.maps[k] EXCEPT !.name = names[k]] = source.maps[k]
        <3>1. source.maps[k] \in MapDefs
            BY <1>1, <2>4
        <3>2. names[k] = source.maps[k].name
            BY <2>4 DEF names
        <3>3. QED
            BY <3>1, <3>2 DEF MapDefs
    <2>5. QED
        BY <2>1, <2>3, <2>4 DEF names
<1>5. QED
    BY <1>3, <1>4

(* Every function of the source is read from a section of its own, with    *)
(* the relocations to its maps.                                            *)
LEMMA SectionsRead ==
    ASSUME NEW file, NEW source, ProperSource(source), Compiled(file, source)
    PROVE  \E at \in [DOMAIN source.progs -> DOMAIN file.sections] :
              /\ CodeSections(file) = {at[k] : k \in DOMAIN source.progs}
              /\ \A k \in DOMAIN source.progs :
                    HoldsFunction(file, at[k], source.progs[k], MapNamesOf(source))
<1>1. PICK at \in [DOMAIN source.progs -> DOMAIN file.sections] :
          /\ TypedSections(file) = {at[k] : k \in DOMAIN source.progs}
          /\ \A k \in DOMAIN source.progs :
                HoldsFunction(file, at[k], source.progs[k], MapNamesOf(source))
    BY DEF Compiled, MapNamesOf
<1>2. IsSequence(file.sections)
    BY DEF Compiled
<1>3. ASSUME NEW j \in TypedSections(file) PROVE FunctionsOf(file, j) # <<>>
    <2>1. PICK k \in DOMAIN source.progs : j = at[k]
        BY <1>1, <1>3
    <2>2. HoldsFunction(file, at[k], source.progs[k], MapNamesOf(source))
          /\ at[k] \in DOMAIN file.sections
        BY <1>1
    <2>3. QED
        BY <1>2, <2>1, <2>2, FunctionRead
<1>4. CodeSections(file) = TypedSections(file)
    BY <1>3 DEF CodeSections
<1>5. QED
    BY <1>1, <1>4

LEMMA SuffixCancels ==
    ASSUME NEW a \in Seq(STRING), NEW b \in Seq(STRING),
           a \o <<"_def">> = b \o <<"_def">>
    PROVE  a = b
<1>1. /\ Len(a) \in Nat /\ Len(b) \in Nat
      /\ Len(a \o <<"_def">>) = Len(a) + 1 /\ Len(b \o <<"_def">>) = Len(b) + 1
    OBVIOUS
<1>2. Len(a) = Len(b)
    BY <1>1
<1>3. /\ \A i \in 1 .. Len(a) : (a \o <<"_def">>)[i] = a[i]
      /\ \A i \in 1 .. Len(b) : (b \o <<"_def">>)[i] = b[i]
    OBVIOUS
<1>4. \A i \in 1 .. Len(a) : a[i] = b[i]
    BY <1>2, <1>3
<1>5. QED
    BY <1>1, <1>2, <1>4

(* A section's definition is found if the source has one, and is its own.  *)
LEMMA DefinitionRead ==
    ASSUME NEW file, NEW source, ProperSource(source), Compiled(file, source),
           NEW k \in DOMAIN source.progs, NEW i, FunctionsOf(file, i)[1] = source.progs[k].name
    PROVE  /\ ProgDefs(file, i) # {} <=> source.progs[k].defined
           /\ ProgDefs(file, i) # {} =>
                 SectionData(file, <<"progs">>)[Min(ProgDefs(file, i))] = source.progs[k]
<1> DEFINE defs == SectionData(file, <<"progs">>)
           names == [j \in DOMAIN defs |-> defs[j].name \o <<"_def">>]
           p == source.progs[k]
<1>1. /\ IsSequence(file.sections) /\ IsSequence(defs)
      /\ ToSet(defs) = {q \in ToSet(source.progs) : q.defined}
      /\ HoldsInOrder(file, <<"progs">>, names)
    BY DEF Compiled
<1>2. PICK n \in Nat : DOMAIN defs = 1 .. n
    BY <1>1 DEF IsSequence
<1>3. SymNames(file, <<"progs">>, AnyType) = names
    <2>1. names = [j \in 1 .. n |-> names[j]]
        BY <1>2
    <2> HIDE DEF names
    <2>2. QED
        BY <1>1, <2>1, NamesRead
<1>4. /\ \A j \in DOMAIN source.progs : source.progs[j].name \in Seq(STRING)
      /\ \A j \in DOMAIN source.progs : source.progs[j].name = p.name => j = k
      /\ p.defined \in BOOLEAN
    BY DEF ProperSource
<1>5. \A j \in DOMAIN defs : \E l \in DOMAIN source.progs :
          defs[j] = source.progs[l] /\ source.progs[l].defined
    BY <1>1 DEF ToSet
<1>6. ASSUME NEW j \in DOMAIN defs, defs[j].name \o <<"_def">> = p.name \o <<"_def">>
      PROVE  defs[j] = p /\ p.defined
    <2>1. PICK l \in DOMAIN source.progs : defs[j] = source.progs[l] /\ source.progs[l].defined
        BY <1>5
    <2>2. source.progs[l].name \in Seq(STRING) /\ p.name \in Seq(STRING)
        BY <1>4
    <2>3. source.progs[l].name = p.name
        <3>1. source.progs[l].name \o <<"_def">> = p.name \o <<"_def">>
            BY <1>6, <2>1
        <3>2. QED
            BY <2>2, <3>1, SuffixCancels
    <2>4. QED
        BY <1>4, <2>1, <2>3
<1>7. ProgDefs(file, i) = {j \in DOMAIN defs : defs[j].name \o <<"_def">> = p.name \o <<"_def">>}
    BY <1>3 DEF ProgDefs
<1>8. p.defined => ProgDefs(file, i) # {}
    <2>1. ASSUME p.defined PROVE \E j \in DOMAIN defs : defs[j] = p
        <3>1. p \in ToSet(defs)
            BY <1>1, <2>1 DEF ToSet
        <3>2. QED
            BY <3>1 DEF ToSet
    <2>2. QED
        BY <1>7, <2>1
<1>9. ProgDefs(file, i) # {} => p.defined
    BY <1>6, <1>7
<1>10. ASSUME ProgDefs(file, i) # {} PROVE defs[Min(ProgDefs(file, i))] = p
    <2>1. ProgDefs(file, i) \in SUBSET Nat
        <3>1. ProgDefs(file, i) \subseteq DOMAIN defs
            BY <1>7
        <3>2. 1 .. n \subseteq Nat
            OBVIOUS
        <3>3. QED
            BY <1>2, <3>1, <3>2
    <2>2. Min(ProgDefs(file, i)) \in ProgDefs(file, i)
        BY <1>10, <2>1, MinIsIn
    <2>3. QED
        BY <1>6, <1>7, <2>2
<1>11. QED
    BY <1>8, <1>9, <1>10

(* The item of a program of the source: its maps by their index.           *)
AsItem(path, source, p) ==
    [kind |-> "prog", path |-> ProgPath(path, p.section), shape |-> p.code,
     min |-> IF p.defined THEN p.min ELSE 0, max |-> IF p.defined THEN p.max ELSE 0,
     uses |-> {j \in DOMAIN source.maps : source.maps[j].name \in p.maps},
     defined |-> p.defined, optional |-> p.defined /\ p.optional]

LEMMA ProgramRead ==
    ASSUME NEW file, NEW source, ProperSource(source), Compiled(file, source), NEW path,
           NEW k \in DOMAIN source.progs, NEW i \in DOMAIN file.sections,
           HoldsFunction(file, i, source.progs[k], MapNamesOf(source))
    PROVE  ProgItem(path, file, i) = AsItem(path, source, source.progs[k])
<1> DEFINE p == source.progs[k]
           found == ProgDefs(file, i)
           def == SectionData(file, <<"progs">>)[Min(found)]
<1>1. /\ FunctionsOf(file, i)[1] = p.name /\ file.sections[i].name = p.section
      /\ file.sections[i].data = p.code
    <2>1. IsSequence(file.sections)
        BY DEF Compiled
    <2>2. HoldsFunction(file, i, p, MapNamesOf(source))
        OBVIOUS
    <2>3. FunctionsOf(file, i)[1] = p.name /\ file.sections[i].name = p.section
        BY <2>1, <2>2, FunctionRead
    <2>4. file.sections[i].data = p.code
        BY <2>2 DEF HoldsFunction
    <2>5. QED
        BY <2>3, <2>4
<1>2. (found # {} <=> p.defined) /\ (found # {} => def = p)
    BY <1>1, DefinitionRead
<1>3. p.defined \in BOOLEAN /\ p.optional \in BOOLEAN
    BY DEF ProperSource
<1>4. MapsUsed(file, i) = {j \in DOMAIN source.maps : source.maps[j].name \in p.maps}
    <2> DEFINE rel == Relocations(file, i)
               Names(m) == \E r \in DOMAIN rel :
                              rel[r] \in DOMAIN file.symbols /\ file.symbols[rel[r]].name = m
    <2>1. p.maps = {m \in MapNamesOf(source) : Names(m)}
        <3>1. CASE i < Len(file.sections) /\ file.sections[i + 1].name = <<".rel">> \o p.section
            <4>1. rel = file.sections[i + 1].data
                BY <1>1, <3>1 DEF Relocations
            <4>2. \A m : Names(m) <=> \E r \in ToSet(rel) :
                                         r \in DOMAIN file.symbols /\ file.symbols[r].name = m
                BY DEF ToSet
            <4>3. p.maps = {m \in MapNamesOf(source) :
                               \E r \in ToSet(file.sections[i + 1].data) :
                                   r \in DOMAIN file.symbols /\ file.symbols[r].name = m}
                BY <3>1 DEF HoldsFunction
            <4> HIDE DEF rel
            <4>4. QED
                BY <4>1, <4>2, <4>3
        <3>2. CASE ~(i < Len(file.sections)
                     /\ file.sections[i + 1].name = <<".rel">> \o p.section)
            <4>1. rel = <<>>
                BY <1>1, <3>2 DEF Relocations
            <4>2. p.maps = {}
                BY <3>2 DEF HoldsFunction
            <4>3. \A m : ~Names(m)
                BY <4>1
            <4>4. QED
                BY <4>2, <4>3
        <3>3. QED
            BY <3>1, <3>2
    <2>2. MapNames(file) = [j \in DOMAIN source.maps |-> source.maps[j].name]
        BY MapsRead
    <2>3. MapsUsed(file, i) = {j \in DOMAIN source.maps : Names(source.maps[j].name)}
        BY <2>2 DEF MapsUsed
    <2>4. \A j \in DOMAIN source.maps : source.maps[j].name \in MapNamesOf(source)
        BY DEF MapNamesOf, ToSet
    <2> HIDE DEF Names, p
    <2>5. QED
        BY <2>1, <2>3, <2>4
<1>5. ProgItem(path, file, i) =
         [kind |-> "prog", path |-> ProgPath(path, p.section), shape |-> p.code,
          min |-> IF found = {} THEN 0 ELSE def.min, max |-> IF found = {} THEN 0 ELSE def.max,
          uses |-> MapsUsed(file, i), defined |-> found # {},
          optional |-> found # {} /\ def.optional]
    BY <1>1 DEF ProgItem
<1> HIDE DEF found, def
<1>6. CASE p.defined
    BY <1>2, <1>3, <1>4, <1>5, <1>6 DEF AsItem
<1>7. CASE ~p.defined
    <2>1. found = {} /\ (found # {}) = FALSE /\ (found # {} /\ def.optional) = FALSE
        BY <1>2, <1>7
    <2>2. p.defined = FALSE /\ (p.defined /\ p.optional) = FALSE
        BY <1>3, <1>7
    <2>3. QED
        BY <1>4, <1>5, <2>1, <2>2 DEF AsItem
<1>8. QED
    BY <1>6, <1>7

LEMMA Concatenated ==
    ASSUME NEW m \in Nat, NEW n \in Nat, NEW s, NEW t,
           s = [i \in 1 .. m |-> s[i]], t = [i \in 1 .. n |-> t[i]]
    PROVE  /\ s \o t = [i \in 1 .. m + n |-> (s \o t)[i]] /\ Len(s \o t) = m + n
           /\ \A i \in 1 .. m : (s \o t)[i] = s[i]
           /\ \A i \in 1 .. n : (s \o t)[m + i] = t[i]
<1>1. PICK X : X = {s[i] : i \in 1 .. m} \cup {t[i] : i \in 1 .. n}
    OBVIOUS
<1>2. s \in [1 .. m -> X] /\ t \in [1 .. n -> X]
    BY <1>1
<1>3. s \in Seq(X) /\ t \in Seq(X)
    BY <1>2, SeqDef
<1>4. Len(s) = m /\ Len(t) = n
    <2>1. DOMAIN s = 1 .. m /\ DOMAIN t = 1 .. n
        BY <1>2
    <2>2. QED
        BY <1>3, <2>1
<1>5. /\ s \o t \in Seq(X) /\ Len(s \o t) = m + n
      /\ \A i \in 1 .. m + n : (s \o t)[i] = IF i <= m THEN s[i] ELSE t[i - m]
    <2>1. /\ s \o t \in Seq(X)
          /\ Len(s \o t) = Len(s) + Len(t)
          /\ \A i \in 1 .. Len(s) + Len(t) :
                (s \o t)[i] = IF i <= Len(s) THEN s[i] ELSE t[i - Len(s)]
        BY <1>3, ConcatProperties
    <2>2. QED
        BY <1>4, <2>1
<1>6. ASSUME NEW i \in 1 .. n PROVE (s \o t)[m + i] = t[i]
    <2>1. m + i \in 1 .. m + n /\ ~(m + i <= m) /\ m + i - m = i
        OBVIOUS
    <2>2. QED
        BY <1>5, <2>1
<1>7. s \o t \in [1 .. m + n -> X]
    BY <1>5, LenProperties
<1>8. QED
    BY <1>5, <1>6, <1>7

(* What reading a file gives: an item for each map, in the order of the    *)
(* source, and then one for each program, in an order of the compiler's.   *)
ItemsOf(list, path, source, kernel) ==
    /\ Len(list) \in Nat /\ list = [j \in 1 .. Len(list) |-> list[j]]
    /\ Len(source.maps) <= Len(list)
    /\ \A j \in 1 .. Len(source.maps) : list[j] = MapItem(path, source.maps[j], kernel)
    /\ \A j \in Len(source.maps) + 1 .. Len(list) :
          \E k \in DOMAIN source.progs : list[j] = AsItem(path, source, source.progs[k])
    /\ \A k \in DOMAIN source.progs :
          \E j \in Len(source.maps) + 1 .. Len(list) :
              list[j] = AsItem(path, source, source.progs[k])

LEMMA ItemsRead ==
    ASSUME NEW file, NEW source, ProperSource(source), Compiled(file, source), NEW path,
           NEW kernel
    PROVE  ItemsOf(ReadItems(path, file, kernel), path, source, kernel)
<1>1. PICK m \in Nat : m = Len(source.maps) /\ DOMAIN source.maps = 1 .. m
    <2>1. source.maps \in Seq(MapDefs)
        BY DEF ProperSource
    <2>2. QED
        BY <2>1
<1>2. PICK at \in [DOMAIN source.progs -> DOMAIN file.sections] :
          /\ CodeSections(file) = {at[k] : k \in DOMAIN source.progs}
          /\ \A k \in DOMAIN source.progs :
                HoldsFunction(file, at[k], source.progs[k], MapNamesOf(source))
    BY SectionsRead
<1>3. PICK full : full = {i \in CodeSections(file) : file.sections[i].data # <<>>}
    OBVIOUS
<1>4. full = {at[k] : k \in DOMAIN source.progs}
    <2>1. ASSUME NEW k \in DOMAIN source.progs PROVE file.sections[at[k]].data # <<>>
        <3>1. HoldsFunction(file, at[k], source.progs[k], MapNamesOf(source))
            BY <1>2
        <3>2. source.progs[k].code # <<>>
            BY DEF ProperSource
        <3>3. QED
            BY <3>1, <3>2 DEF HoldsFunction
    <2>2. QED
        BY <1>2, <1>3, <2>1
<1>5. full \in SUBSET Nat /\ IsFiniteSet(full)
    <2>1. PICK l \in Nat : DOMAIN file.sections = 1 .. l
        BY DEF Compiled, IsSequence
    <2>2. full \subseteq 1 .. l
        BY <1>2, <1>4, <2>1
    <2>3. IsFiniteSet(1 .. l)
        <3>1. \A a, b \in Int : IsFiniteSet(a .. b)
            BY FS_Interval
        <3>2. QED
            BY <3>1
    <2>4. 1 .. l \subseteq Nat
        OBVIOUS
    <2>5. QED
        BY <2>2, <2>3, <2>4, FS_Subset
<1>6. PICK n : n = Cardinality(full)
    OBVIOUS
<1>7. PICK codes : codes = SortedBy(full, [i \in full |-> i])
    OBVIOUS
<1>8. /\ n \in Nat /\ codes \in [1 .. n -> full]
      /\ \A x \in full : \E j \in 1 .. n : codes[j] = x
    BY <1>5, <1>6, <1>7, SortedNumbers
<1>9. PICK maps : maps = [j \in DOMAIN MapNames(file) |->
             MapItem(path, [SectionData(file, <<"maps">>)[j] EXCEPT !.name = MapNames(file)[j]],
                     kernel)]
    OBVIOUS
<1>10. PICK progs : progs = [k \in DOMAIN codes |-> ProgItem(path, file, codes[k])]
    OBVIOUS
<1>11. ReadItems(path, file, kernel) = maps \o progs
    BY <1>3, <1>7, <1>9, <1>10 DEF ReadItems
<1>12. /\ maps = [j \in 1 .. m |-> maps[j]]
       /\ \A j \in 1 .. m : maps[j] = MapItem(path, source.maps[j], kernel)
    <2>1. /\ MapNames(file) = [k \in DOMAIN source.maps |-> source.maps[k].name]
          /\ \A k \in DOMAIN source.maps :
                 [SectionData(file, <<"maps">>)[k] EXCEPT !.name = MapNames(file)[k]]
                    = source.maps[k]
        BY MapsRead
    <2>2. DOMAIN MapNames(file) = 1 .. m
        BY <1>1, <2>1
    <2>3. QED
        BY <1>1, <1>9, <2>1, <2>2
<1>13. progs = [k \in 1 .. n |-> progs[k]]
    BY <1>8, <1>10
<1>14. ASSUME NEW k \in DOMAIN source.progs
       PROVE  ProgItem(path, file, at[k]) = AsItem(path, source, source.progs[k])
    <2>1. HoldsFunction(file, at[k], source.progs[k], MapNamesOf(source))
          /\ at[k] \in DOMAIN file.sections
        BY <1>2
    <2>2. QED
        BY <2>1, ProgramRead
<1>15. ASSUME NEW j \in 1 .. n
       PROVE  \E k \in DOMAIN source.progs : progs[j] = AsItem(path, source, source.progs[k])
    <2>1. PICK k \in DOMAIN source.progs : codes[j] = at[k]
        BY <1>4, <1>8
    <2>2. QED
        BY <1>8, <1>10, <1>14, <2>1
<1>16. ASSUME NEW k \in DOMAIN source.progs
       PROVE  \E j \in 1 .. n : progs[j] = AsItem(path, source, source.progs[k])
    <2>1. at[k] \in full
        BY <1>4
    <2>2. PICK j \in 1 .. n : codes[j] = at[k]
        BY <1>8, <2>1
    <2>3. QED
        BY <1>8, <1>10, <1>14, <2>2
<1>17. PICK list : list = maps \o progs
    OBVIOUS
<1>18. /\ list = [j \in 1 .. m + n |-> list[j]] /\ Len(list) = m + n
       /\ \A j \in 1 .. m : list[j] = maps[j]
       /\ \A j \in 1 .. n : list[m + j] = progs[j]
    <2>1. maps = [j \in 1 .. m |-> maps[j]]
        BY <1>12
    <2>2. m \in Nat /\ n \in Nat
        BY <1>8
    <2>3. QED
        BY <1>13, <1>17, <2>1, <2>2, Concatenated
<1>19. ASSUME NEW j \in m + 1 .. m + n
       PROVE  \E k \in DOMAIN source.progs : list[j] = AsItem(path, source, source.progs[k])
    <2>1. j - m \in 1 .. n /\ m + (j - m) = j
        BY <1>8
    <2>2. list[j] = progs[j - m]
        BY <1>18, <2>1
    <2>3. QED
        BY <1>15, <2>1, <2>2
<1>20. ASSUME NEW k \in DOMAIN source.progs
       PROVE  \E j \in m + 1 .. m + n : list[j] = AsItem(path, source, source.progs[k])
    <2>1. PICK j \in 1 .. n : progs[j] = AsItem(path, source, source.progs[k])
        BY <1>16
    <2>2. m + j \in m + 1 .. m + n
        BY <1>8
    <2>3. list[m + j] = progs[j]
        BY <1>18
    <2>4. QED
        BY <2>1, <2>2, <2>3
<1>21. ItemsOf(list, path, source, kernel)
    <2>1. m + n \in Nat /\ m <= m + n
        BY <1>8
    <2>2. \A j \in 1 .. m : list[j] = MapItem(path, source.maps[j], kernel)
        BY <1>12, <1>18
    <2>3. QED
        BY <1>1, <1>18, <1>19, <1>20, <2>1, <2>2 DEF ItemsOf
<1>22. QED
    BY <1>11, <1>17, <1>21

-------------------------------------------------------------------------------
(* An item of a list, with its maps by their paths.                        *)
WithPaths(list, item) == [item EXCEPT !.uses = {list[j].path : j \in @}]

(* An item of the list says of a map, or of a program, what the source     *)
(* declares.                                                               *)
LEMMA MapAsDeclared ==
    ASSUME NEW path, NEW def, NEW kernel, NEW list
    PROVE  WithPaths(list, MapItem(path, def, kernel))
              = [MapItem(path, def, kernel) EXCEPT !.uses = {}]
BY DEF WithPaths, MapItem

DeclaredProg(path, source, p) ==
    [kind |-> "prog", path |-> ProgPath(path, p.section), shape |-> p.code,
     min |-> IF p.defined THEN p.min ELSE 0, max |-> IF p.defined THEN p.max ELSE 0,
     uses |-> {MapPath(path, m) : m \in {d \in ToSet(source.maps) : d.name \in p.maps}},
     defined |-> p.defined, optional |-> p.defined /\ p.optional]

LEMMA ProgAsDeclared ==
    ASSUME NEW path, NEW source, NEW kernel, NEW list, NEW p,
           \A j \in DOMAIN source.maps : list[j] = MapItem(path, source.maps[j], kernel)
    PROVE  WithPaths(list, AsItem(path, source, p)) = DeclaredProg(path, source, p)
<1> DEFINE used == {j \in DOMAIN source.maps : source.maps[j].name \in p.maps}
<1>0. \A def : MapItem(path, def, kernel).path = MapPath(path, def)
    BY DEF MapItem
<1>1. \A j \in DOMAIN source.maps : list[j].path = MapPath(path, source.maps[j])
    BY <1>0
<1>2. {list[j].path : j \in used}
         = {MapPath(path, m) : m \in {d \in ToSet(source.maps) : d.name \in p.maps}}
    BY <1>1 DEF ToSet
<1>3. WithPaths(list, AsItem(path, source, p))
         = [AsItem(path, source, p) EXCEPT !.uses = {list[j].path : j \in used}]
    BY DEF WithPaths, AsItem
<1>4. PICK paths : paths = {list[j].path : j \in used}
    OBVIOUS
<1>5. WithPaths(list, AsItem(path, source, p)) = [AsItem(path, source, p) EXCEPT !.uses = paths]
    BY <1>3, <1>4
<1>6. DeclaredProg(path, source, p)
         = [kind |-> "prog", path |-> ProgPath(path, p.section), shape |-> p.code,
            min |-> IF p.defined THEN p.min ELSE 0, max |-> IF p.defined THEN p.max ELSE 0,
            uses |-> paths, defined |-> p.defined, optional |-> p.defined /\ p.optional]
    BY <1>2, <1>4 DEF DeclaredProg
<1> HIDE DEF used
<1>7. QED
    BY <1>5, <1>6 DEF AsItem

LEMMA AsDeclared ==
    ASSUME NEW source, ProperSource(source), NEW path, NEW kernel, NEW list,
           ItemsOf(list, path, source, kernel)
    PROVE  {[item EXCEPT !.uses = {list[j].path : j \in @}] : item \in ToSet(list)}
              = Declared(path, source, kernel)
<1>1. PICK m \in Nat : m = Len(source.maps) /\ DOMAIN source.maps = 1 .. m
    <2>1. source.maps \in Seq(MapDefs)
        BY DEF ProperSource
    <2>2. QED
        BY <2>1
<1>2. PICK l \in Nat : l = Len(list) /\ DOMAIN list = 1 .. l /\ m <= l
    BY <1>1 DEF ItemsOf
<1>3. /\ \A j \in 1 .. m : list[j] = MapItem(path, source.maps[j], kernel)
      /\ \A j \in m + 1 .. l :
            \E k \in DOMAIN source.progs : list[j] = AsItem(path, source, source.progs[k])
      /\ \A k \in DOMAIN source.progs :
            \E j \in m + 1 .. l : list[j] = AsItem(path, source, source.progs[k])
    <2>1. \A j \in 1 .. m : list[j] = MapItem(path, source.maps[j], kernel)
        BY <1>1 DEF ItemsOf
    <2>2. \A j \in m + 1 .. l :
              \E k \in DOMAIN source.progs : list[j] = AsItem(path, source, source.progs[k])
        BY <1>1, <1>2 DEF ItemsOf
    <2>3. \A k \in DOMAIN source.progs :
              \E j \in m + 1 .. l : list[j] = AsItem(path, source, source.progs[k])
        BY <1>1, <1>2 DEF ItemsOf
    <2>4. QED
        BY <2>1, <2>2, <2>3
<1> DEFINE read == {WithPaths(list, item) : item \in ToSet(list)}
           maps == {[MapItem(path, source.maps[j], kernel) EXCEPT !.uses = {}] :
                       j \in DOMAIN source.maps}
           progs == {DeclaredProg(path, source, p) : p \in ToSet(source.progs)}
<1>4. \A j \in 1 .. m :
         WithPaths(list, list[j]) = [MapItem(path, source.maps[j], kernel) EXCEPT !.uses = {}]
    <2> SUFFICES ASSUME NEW j \in 1 .. m
                 PROVE  WithPaths(list, list[j])
                           = [MapItem(path, source.maps[j], kernel) EXCEPT !.uses = {}]
        OBVIOUS
    <2>1. list[j] = MapItem(path, source.maps[j], kernel)
        BY <1>3
    <2>2. QED
        BY <2>1, MapAsDeclared
<1>5. \A k \in DOMAIN source.progs :
         WithPaths(list, AsItem(path, source, source.progs[k]))
            = DeclaredProg(path, source, source.progs[k])
    <2>1. \A j \in DOMAIN source.maps : list[j] = MapItem(path, source.maps[j], kernel)
        BY <1>1, <1>3
    <2>2. QED
        BY <2>1, ProgAsDeclared
<1>6. ASSUME NEW x \in read PROVE x \in maps \cup progs
    <2>1. PICK j \in 1 .. l : x = WithPaths(list, list[j])
        BY <1>2 DEF ToSet
    <2>2. CASE j \in 1 .. m
        BY <1>1, <1>4, <2>1, <2>2
    <2>3. CASE j \in m + 1 .. l
        <3>1. PICK k \in DOMAIN source.progs : list[j] = AsItem(path, source, source.progs[k])
            BY <1>3, <2>3
        <3>2. x = DeclaredProg(path, source, source.progs[k])
            BY <1>5, <2>1, <3>1
        <3>3. QED
            BY <3>2 DEF ToSet
    <2>4. QED
        BY <2>2, <2>3
<1>7. ASSUME NEW j \in 1 .. m
      PROVE  [MapItem(path, source.maps[j], kernel) EXCEPT !.uses = {}] \in read
    <2>1. list[j] \in ToSet(list)
        BY <1>2 DEF ToSet
    <2>2. QED
        BY <1>4, <2>1
<1>8. ASSUME NEW k \in DOMAIN source.progs
       PROVE  DeclaredProg(path, source, source.progs[k]) \in read
    <2>1. PICK j \in m + 1 .. l : list[j] = AsItem(path, source, source.progs[k])
        BY <1>3
    <2>2. list[j] \in ToSet(list)
        BY <1>2 DEF ToSet
    <2>3. QED
        BY <1>5, <2>1, <2>2
<1>9. read = maps \cup progs
    <2>1. \A x \in maps : x \in read
        BY <1>1, <1>7
    <2>2. \A x \in progs : x \in read
        BY <1>8 DEF ToSet
    <2> HIDE DEF read, maps, progs
    <2>3. QED
        BY <1>6, <2>1, <2>2
<1>10. Declared(path, source, kernel) = maps \cup progs
    BY DEF Declared, DeclaredProg
<1>11. {[item EXCEPT !.uses = {list[j].path : j \in @}] : item \in ToSet(list)} = read
    BY DEF WithPaths
<1>12. QED
    BY <1>9, <1>10, <1>11

(* In whatever order a compiler lists sections and symbols, and whatever   *)
(* it adds, the loader reads from the file what the source declares: every *)
(* map under its own name and sizes, every program with its own definition *)
(* and the maps it uses.                                                   *)
THEOREM SourceRead ==
    ASSUME NEW file, NEW source, ProperSource(source), Compiled(file, source), NEW path,
           NEW kernel
    PROVE  LET list == ReadItems(path, file, kernel)
           IN  {[item EXCEPT !.uses = {list[j].path : j \in @}] : item \in ToSet(list)}
                  = Declared(path, source, kernel)
<1>1. PICK list : list = ReadItems(path, file, kernel)
    OBVIOUS
<1>2. ItemsOf(list, path, source, kernel)
    BY <1>1, ItemsRead
<1>3. QED
    BY <1>1, <1>2, AsDeclared

(* d is what the source declares of an item of the list.                   *)
Declares(d, list, item) ==
    /\ d.kind = item.kind /\ d.path = item.path /\ d.shape = item.shape
    /\ d.min = item.min /\ d.max = item.max
    /\ d.defined = item.defined /\ d.optional = item.optional
    /\ d.uses = {list[j].path : j \in item.uses}

(* Every item is declared, and every declaration has its item.             *)
LEMMA ItemsDeclared ==
    ASSUME NEW source, ProperSource(source), NEW path, NEW kernel, NEW list,
           ItemsOf(list, path, source, kernel)
    PROVE  /\ \A j \in 1 .. Len(list) :
                 \E d \in Declared(path, source, kernel) : Declares(d, list, list[j])
           /\ \A d \in Declared(path, source, kernel) :
                 \E j \in 1 .. Len(list) : Declares(d, list, list[j])
<1>1. Declared(path, source, kernel) = {WithPaths(list, item) : item \in ToSet(list)}
    BY AsDeclared DEF WithPaths
<1>2. DOMAIN list = 1 .. Len(list)
    BY DEF ItemsOf
<1>3. ASSUME NEW j \in 1 .. Len(list)
      PROVE  Declares(WithPaths(list, list[j]), list, list[j])
    <2>1. CASE j \in 1 .. Len(source.maps)
        <3>1. \A def : Declares(WithPaths(list, MapItem(path, def, kernel)), list,
                                MapItem(path, def, kernel))
            BY DEF Declares, WithPaths, MapItem
        <3>2. list[j] = MapItem(path, source.maps[j], kernel)
            BY <2>1 DEF ItemsOf
        <3>3. QED
            BY <3>1, <3>2
    <2>2. CASE j \notin 1 .. Len(source.maps)
        <3>1. \A p : Declares(WithPaths(list, AsItem(path, source, p)), list,
                              AsItem(path, source, p))
            BY DEF Declares, WithPaths, AsItem
        <3>2. j \in Len(source.maps) + 1 .. Len(list)
            <4>1. Len(source.maps) \in Nat
                BY DEF ProperSource
            <4>2. QED
                BY <2>2, <4>1 DEF ItemsOf
        <3>3. PICK k \in DOMAIN source.progs : list[j] = AsItem(path, source, source.progs[k])
            BY <3>2 DEF ItemsOf
        <3>4. QED
            BY <3>1, <3>3
    <2>3. QED
        BY <2>1, <2>2
<1>4. \A j \in 1 .. Len(list) : WithPaths(list, list[j]) \in Declared(path, source, kernel)
    BY <1>1, <1>2 DEF ToSet
<1>5. \A d \in Declared(path, source, kernel) :
         \E j \in 1 .. Len(list) : d = WithPaths(list, list[j])
    BY <1>1, <1>2 DEF ToSet
<1>6. QED
    BY <1>3, <1>4, <1>5

===============================================================================
