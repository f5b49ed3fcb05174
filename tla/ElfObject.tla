------------------------------ MODULE ElfObject ------------------------------
(***************************************************************************)
(* What the sources of the BPF programs put into an object file through    *)
(* the macros of bpf_helpers.h, and how UprobeStatsBpfLoad reads it back.  *)
(*                                                                         *)
(* A name is the sequence of its parts: <<"uprobe", "/", "set_pid">>.  An  *)
(* object file is a record [sections, symbols]: a section has a name, its  *)
(* data (of "maps" and "progs" a sequence of definitions, of a relocation  *)
(* section the indices of symbols), whether it can be read whole, and of   *)
(* "maps" which definitions have a zero field that is not 0 (nonzero); a   *)
(* symbol has a name, a type, the section it is in and its offset there.   *)
(***************************************************************************)
EXTENDS Integers, Sequences, FiniteSets, SequencesExt, FiniteSetsExt, Functions

CONSTANTS
    PageSize,
    FuseType,       \* what /sys/fs/fuse/bpf_prog_type_fuse says, or "unspec"
    AllowedTypes    \* kUprobestatsAllowedProgTypes

-------------------------------------------------------------------------------
(* Kernel versions.  KVER_INF is beyond every version.                     *)

KVER(a, b, c) == a * 2^24 + b * 2^16 + c
KVER_NONE == 0
KVER_INF == 2147483647

(* ro.bpf.kver_override, where it is set, stands for what uname says.      *)
KernelVersion(release, override) ==
    LET v == IF override # <<>> THEN override ELSE release IN KVER(v[1], v[2], v[3])

-------------------------------------------------------------------------------
(* The definitions the macros make.                                        *)

DefineMap(name, type, key, value, entries, shared) ==
    [name |-> name, type |-> type, key |-> key, value |-> value, entries |-> entries,
     flags |-> 0, shared |-> shared, min |-> KVER_NONE, max |-> KVER_INF]

(* Ring buffers are for kernels from 5.8; a power of two of bytes.         *)
DefineRingbuf(name, bytes, shared) ==
    [DefineMap(name, "RINGBUF", 0, 0, bytes, shared) EXCEPT !.min = KVER(5, 8, 0)]

(* A function in a section of its own, the relocations to the maps it      *)
(* names, and a definition that says which kernels it is for.              *)
DefineProg(section, function, min, max, optional, code, maps) ==
    [section |-> section, name |-> function, min |-> min, max |-> max,
     optional |-> optional, code |-> code, maps |-> maps, defined |-> TRUE]

-------------------------------------------------------------------------------
(* Reading sections and symbols.                                           *)

Named(file, name) == {i \in DOMAIN file.sections : file.sections[i].name = name}

(* readSectionByName, readSectionByIdx: the first of that name, if it can  *)
(* be read.                                                                *)
IndexOf(file, name) == Min(Named(file, name))
HasSection(file, name) ==
    Named(file, name) # {} /\ file.sections[IndexOf(file, name)].whole
SectionData(file, name) == file.sections[IndexOf(file, name)].data

(* A set in the order of the numbers key gives to its elements.            *)
SortedBy(S, key) ==
    CHOOSE s \in Bijection(1 .. Cardinality(S), S) :
        \A i, j \in DOMAIN s : i < j => key[s[i]] <= key[s[j]]

\* Mutant of InOrder: the symbols as the table has them.
InTableOrder(symbols, chosen) == SelectSeq(symbols, LAMBDA s : s \in chosen)

(* readSymTab, sorted: by the offset, which is where the definition is.    *)
InOrder(symbols, chosen) == SortedBy(chosen, [s \in chosen |-> s.value])

(* getSectionSymNames                                                      *)
SymNames(file, name, types) ==
    LET chosen == {s \in ToSet(file.symbols) :
                      s.shndx = IndexOf(file, name) /\ s.type \in types}
        sorted == InOrder(file.symbols, chosen)
    IN  [k \in DOMAIN sorted |-> sorted[k].name]

AnyType == {"notype", "object", "func", "section"}

-------------------------------------------------------------------------------
(* Names.                                                                  *)

Underscored(name) == [k \in DOMAIN name |-> IF name[k] = "/" THEN "_" ELSE name[k]]

(* substr(0, find_last_of(mark)): the whole name where there is no mark.   *)
BeforeLast(name, mark) ==
    LET marks == {k \in DOMAIN name : name[k] = mark}
    IN  IF marks = {} THEN name ELSE SubSeq(name, 1, Max(marks) - 1)

(* The file name without its extension and its "@" suffix.                 *)
pathToObjName(path) == BeforeLast(BeforeLast(path, "."), "@")

MapPath(path, def) ==
    <<"map", "_">> \o (IF def.shared THEN <<>> ELSE pathToObjName(path)) \o <<"_">> \o def.name

ProgPath(path, section) ==
    <<"prog", "_">> \o pathToObjName(path) \o <<"_">> \o BeforeLast(Underscored(section), "$")

-------------------------------------------------------------------------------
(* Code sections.                                                          *)

SectionTypes ==
    [p \in {"kprobe", "kretprobe", "uprobe", "uretprobe"} |-> "kprobe"]
    @@ [p \in {"perf_event", "tracepoint"} |-> p] @@ [p \in {"skfilter"} |-> "socket_filter"]

getSectionType(name) ==
    IF Len(name) < 2 \/ name[2] # "/" THEN "unspec"
    ELSE IF name[1] \in DOMAIN SectionTypes THEN SectionTypes[name[1]]
    ELSE IF name[1] = "fuse" THEN FuseType
    ELSE "unspec"

IsAllowed(type) == type \in AllowedTypes \/ ("unspec" \in AllowedTypes /\ type = FuseType)

TypedSections(file) ==
    {i \in DOMAIN file.sections : getSectionType(file.sections[i].name) # "unspec"}

FunctionsOf(file, i) == SymNames(file, file.sections[i].name, {"func"})

(* A section without a function ends the reading, and nothing is wrong.    *)
CodeSections(file) ==
    {i \in TypedSections(file) :
        \A j \in TypedSections(file) : j <= i => FunctionsOf(file, j) # <<>>}

(* readProgDefs: the definition that is named after the function.          *)
ProgDefs(file, i) ==
    LET names == SymNames(file, <<"progs">>, AnyType)
    IN  {j \in DOMAIN names : names[j] = FunctionsOf(file, i)[1] \o <<"_def">>}

(* The relocations are in the next section if that has the name for it.    *)
Relocations(file, i) ==
    IF i < Len(file.sections) /\ file.sections[i + 1].name = <<".rel">> \o file.sections[i].name
    THEN file.sections[i + 1].data
    ELSE <<>>

(* A section with a type, up to the one the reading ends at, that is not   *)
(* for this directory or cannot be read.                                   *)
BadSection(file, i) ==
    /\ \A j \in TypedSections(file) : j < i => j \in CodeSections(file)
    /\ ~IsAllowed(getSectionType(file.sections[i].name)) \/ ~file.sections[i].whole

(* What loadProg finds out before it makes anything.                       *)
Readable(file) ==
    /\ HasSection(file, <<"license">>) /\ HasSection(file, <<"progs">>)
    /\ \A i \in TypedSections(file) : ~BadSection(file, i)
    /\ Named(file, <<"maps">>) # {} => HasSection(file, <<"maps">>)

IsCritical(file) == HasSection(file, <<"critical">>)

-------------------------------------------------------------------------------
(* What the object asks the kernel for.                                    *)

MapNames(file) == IF Named(file, <<"maps">>) = {} THEN <<>> ELSE SymNames(file, <<"maps">>, AnyType)

(* The maps with which createMaps aborts.                                  *)
NonZero(file) ==
    {j \in DOMAIN MapNames(file) : j \in file.sections[IndexOf(file, <<"maps">>)].nonzero}

(* A ring buffer has a page at least.                                      *)
MaxEntries(def) ==
    IF def.type = "RINGBUF" /\ def.entries < PageSize THEN PageSize ELSE def.entries

(* Kernels before 5.4 take a hash map for a DEVMAP_HASH.                   *)
MapType(def, kernel) ==
    IF def.type = "DEVMAP_HASH" /\ kernel < KVER(5, 4, 0) THEN "HASH" ELSE def.type

(* What a map is created as.                                               *)
MapShape(def, kernel) ==
    <<MapType(def, kernel), def.key, def.value, MaxEntries(def), def.flags>>

MapItem(path, def, kernel) ==
    [kind |-> "map", path |-> MapPath(path, def), shape |-> MapShape(def, kernel),
     min |-> def.min, max |-> def.max, uses |-> {}, defined |-> TRUE, optional |-> FALSE]

(* applyMapRelo: the first map that has the name of the symbol.            *)
MapsUsed(file, i) ==
    LET names == MapNames(file)
        rel   == Relocations(file, i)
    IN  {j \in DOMAIN names :
            \E k \in DOMAIN rel :
                rel[k] \in DOMAIN file.symbols /\ file.symbols[rel[k]].name = names[j]}

ProgItem(path, file, i) ==
    LET found == ProgDefs(file, i)
        def   == SectionData(file, <<"progs">>)[Min(found)]
    IN  [kind |-> "prog", path |-> ProgPath(path, file.sections[i].name),
         shape |-> file.sections[i].data,
         min |-> IF found = {} THEN 0 ELSE def.min, max |-> IF found = {} THEN 0 ELSE def.max,
         uses |-> MapsUsed(file, i), defined |-> found # {},
         optional |-> found # {} /\ def.optional]

(* The maps, then the programs, each in the order of the file.             *)
ReadItems(path, file, kernel) ==
    LET names == MapNames(file)
        full  == {i \in CodeSections(file) : file.sections[i].data # <<>>}
        codes == SortedBy(full, [i \in full |-> i])
    IN  [j \in DOMAIN names |->
            MapItem(path, [SectionData(file, <<"maps">>)[j] EXCEPT !.name = names[j]], kernel)]
        \o [k \in DOMAIN codes |-> ProgItem(path, file, codes[k])]

-------------------------------------------------------------------------------
(* What a source asks for: the maps and programs it declares, each with    *)
(* the paths of the maps it uses.                                          *)
Declared(path, source, kernel) ==
    {[MapItem(path, source.maps[j], kernel) EXCEPT !.uses = {}] : j \in DOMAIN source.maps}
    \cup {[kind |-> "prog", path |-> ProgPath(path, p.section), shape |-> p.code,
           min |-> IF p.defined THEN p.min ELSE 0, max |-> IF p.defined THEN p.max ELSE 0,
           uses |-> {MapPath(path, m) : m \in {d \in ToSet(source.maps) : d.name \in p.maps}},
           defined |-> p.defined, optional |-> p.defined /\ p.optional] : p \in ToSet(source.progs)}

-------------------------------------------------------------------------------
(* What the loader relies on: how the programs are written, and what the   *)
(* compiler makes of them.                                                 *)

IsSequence(s) == Len(s) \in Nat /\ DOMAIN s = 1 .. Len(s)

MapDefs == [name : Seq(STRING), type : STRING, key : Nat, value : Nat, entries : Nat,
            flags : Nat, shared : BOOLEAN, min : Nat, max : Nat]

(* Functions are named apart, each in a section of a type of its own, and  *)
(* use maps that are declared.                                             *)
ProperSource(source) ==
    /\ source.maps \in Seq(MapDefs)
    /\ IsSequence(source.progs)
    /\ \A k \in DOMAIN source.progs :
          LET p == source.progs[k]
          IN  /\ p.name \in Seq(STRING)
              /\ getSectionType(p.section) # "unspec"
              /\ p.code # <<>>
              /\ p.min \in Nat /\ p.max \in Nat
              /\ p.defined \in BOOLEAN /\ p.optional \in BOOLEAN
              /\ p.maps \subseteq {m.name : m \in ToSet(source.maps)}
    /\ \A j, k \in DOMAIN source.progs : j # k => source.progs[j].name # source.progs[k].name

(* The one section of that name holds definitions under those names: a     *)
(* symbol for each, one behind the other, listed wherever.                 *)
HoldsInOrder(file, section, names) ==
    \E i \in DOMAIN file.sections :
        /\ Named(file, section) = {i}
        /\ \E at \in [DOMAIN names -> {s \in ToSet(file.symbols) : s.shndx = i}] :
              /\ \A s \in ToSet(file.symbols) : s.shndx = i => \E k \in DOMAIN names : at[k] = s
              /\ \A k \in DOMAIN names : /\ at[k].name = names[k]
                                         /\ at[k].value \in Nat /\ at[k].type \in AnyType
              /\ \A j, k \in DOMAIN names : j < k => at[j].value < at[k].value

(* A section for the function of p alone, and the relocations, behind it,  *)
(* to the maps p uses.                                                     *)
HoldsFunction(file, i, p, declared) ==
    /\ Named(file, p.section) = {i}
    /\ file.sections[i].data = p.code
    /\ \E s \in ToSet(file.symbols) :
          /\ s.name = p.name /\ s.shndx = i /\ s.type = "func" /\ s.value \in Nat
          /\ \A t \in ToSet(file.symbols) : t.shndx = i /\ t.type = "func" => t = s
    /\ p.maps =
          IF i < Len(file.sections) /\ file.sections[i + 1].name = <<".rel">> \o p.section
          THEN {m \in declared :
                  \E r \in ToSet(file.sections[i + 1].data) :
                      r \in DOMAIN file.symbols /\ file.symbols[r].name = m}
          ELSE {}

Compiled(file, source) ==
    /\ IsSequence(file.sections)
    /\ IF Named(file, <<"maps">>) = {} THEN source.maps = <<>>
       ELSE /\ SectionData(file, <<"maps">>) = source.maps
            /\ HoldsInOrder(file, <<"maps">>, [k \in DOMAIN source.maps |-> source.maps[k].name])
    /\ LET defs == SectionData(file, <<"progs">>)
       IN  /\ IsSequence(defs)
           /\ ToSet(defs) = {p \in ToSet(source.progs) : p.defined}
           /\ HoldsInOrder(file, <<"progs">>, [k \in DOMAIN defs |-> defs[k].name \o <<"_def">>])
    /\ \E at \in [DOMAIN source.progs -> DOMAIN file.sections] :
          /\ TypedSections(file) = {at[k] : k \in DOMAIN source.progs}
          /\ \A k \in DOMAIN source.progs :
                HoldsFunction(file, at[k], source.progs[k], {m.name : m \in ToSet(source.maps)})

===============================================================================
