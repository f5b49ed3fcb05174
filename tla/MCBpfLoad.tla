------------------------------ MODULE MCBpfLoad ------------------------------
(* A 5.8 kernel with pages of 16 KiB.  Four objects: one with a map for    *)
(* later kernels only, an optional program that needs it, a ring of 4 KiB, *)
(* a program in two variants whose ranges meet at 5.8, and a DEVMAP_HASH;  *)
(* a critical one that shares the ring with the first and has a program    *)
(* the kernel rejects, or a second map of another layout; one that         *)
(* declares that second map otherwise and holds a program without a        *)
(* definition; one that is cut short, or holds a program of a type the     *)
(* directory is not for.                                                   *)
EXTENDS BpfLoad, TLC

MCKernel == KernelVersion(<<5, 8, 0>>, <<>>)

Late(def, kernel) == [def EXCEPT !.min = kernel]

Prog(function, variant, min, max, optional, maps) ==
    DefineProg(<<"uprobe", "/", function>> \o variant, <<function>> \o variant, min, max,
               optional, <<function>>, maps)

Ring == DefineRingbuf(<<"ring">>, 4096, TRUE)

Binder == <<"Binder", "@", "1", ".", "o">>
Critical == <<"Critical", ".", "o">>
Odd == <<"Odd", ".", "o">>
Cut == <<"Cut", ".", "o">>

MCObjects == {Binder, Critical, Odd, Cut}

MCRejected == {<<"bad">>}

MCSource ==
    Binder :> [critical |-> FALSE,
               maps |-> <<Late(DefineMap(<<"late">>, "HASH", 4, 4, 10, FALSE), KVER(6, 1, 0)),
                          Ring, DefineMap(<<"dev">>, "DEVMAP_HASH", 4, 4, 10, FALSE)>>,
               progs |-> <<Prog("new", <<>>, KVER_NONE, KVER_INF, TRUE, {<<"late">>}),
                           Prog("transact", <<"$", "old">>, KVER_NONE, KVER(5, 8, 0), FALSE,
                                {<<"ring">>}),
                           [Prog("transact", <<"$", "new">>, KVER(5, 8, 0), KVER_INF, FALSE,
                                 {<<"ring">>, <<"dev">>}) EXCEPT !.code = <<"transact", "2">>]>>]
    @@ Critical :> [critical |-> TRUE,
                    maps |-> <<Ring, DefineMap(<<"own">>, "HASH", 4, 4, 10, TRUE)>>,
                    progs |-> <<Prog("bad", <<>>, KVER_NONE, KVER_INF, FALSE, {<<"ring">>})>>]
    @@ Odd :> [critical |-> FALSE,
               maps |-> <<DefineMap(<<"own">>, "HASH", 4, 8, 10, TRUE)>>,
               progs |-> <<[Prog("lost", <<>>, KVER_NONE, KVER_INF, FALSE, {<<"own">>})
                              EXCEPT !.defined = FALSE]>>]
    @@ Cut :> [critical |-> FALSE, maps |-> <<>>,
               progs |-> <<Prog("cut", <<>>, KVER_NONE, KVER_INF, FALSE, {})>>]

(* The compiler: every function in a section of its own, followed by the   *)
(* relocations of that section where it has some; the symbol and string    *)
(* tables come last.  "reversed" lists the symbols the other way round,    *)
(* "labels" adds the symbols of sections and of jump targets.              *)
Sect(name, data) == [name |-> name, data |-> data, whole |-> TRUE, nonzero |-> {}]
Sym(name, type, shndx, value) ==
    [name |-> name, type |-> type, shndx |-> shndx, value |-> value]

Build(source, reversed, labels) ==
    LET m == source.maps
        g == source.progs
        codeAt(k) == 2 * k
        mapsAt == 2 * Len(g) + 2
        progsAt == mapsAt + 1
        with == SelectSeq(g, LAMBDA p : p.defined)
        symbols ==
            [k \in DOMAIN g |-> Sym(g[k].name, "func", codeAt(k), 0)]
            \o [k \in DOMAIN m |-> Sym(m[k].name, "object", mapsAt, k)]
            \o [k \in DOMAIN with |-> Sym(with[k].name \o <<"_def">>, "object", progsAt, k)]
            \o (IF labels
                THEN [k \in DOMAIN g |-> Sym(<<>>, "section", codeAt(k), 0)]
                     \o [k \in DOMAIN g |-> Sym(<<"LBB">>, "notype", codeAt(k), 1)]
                ELSE <<>>)
        table == IF reversed THEN Reverse(symbols) ELSE symbols
        rels(k) == SelectSeq([i \in DOMAIN table |-> i], LAMBDA i : table[i].name \in g[k].maps)
    IN  [symbols |-> table,
         sections |->
            <<Sect(<<>>, <<>>)>>
            \o [i \in 1 .. 2 * Len(g) |->
                  LET k == (i + 1) \div 2
                  IN  IF i % 2 = 1 THEN Sect(g[k].section, g[k].code)
                      ELSE Sect(<<".rel">> \o g[k].section, rels(k))]
            \o <<Sect(<<"maps">>, m), Sect(<<"progs">>, with), Sect(<<"license">>, "GPL")>>
            \o (IF source.critical THEN <<Sect(<<"critical">>, "yes")>> ELSE <<>>)
            \o <<Sect(<<".symtab">>, <<>>), Sect(<<".strtab">>, <<>>)>>]

Short(file) == [file EXCEPT !.sections = [i \in DOMAIN @ |-> [@[i] EXCEPT !.whole = i < 3]]]

Tracing(file) ==
    [file EXCEPT !.sections[2].name = <<"tracepoint", "/", "cut">>]

Skewed(file) ==
    [file EXCEPT !.sections = [i \in DOMAIN @ |-> [@[i] EXCEPT !.nonzero = {2}]]]

MCBuilds == [o \in MCObjects |->
    LET whole == {Build(MCSource[o], r, l) : r, l \in BOOLEAN}
    IN  IF o = Cut THEN UNION {{Short(f), Tracing(f)} : f \in whole}
        ELSE IF o = Critical THEN whole \cup {Skewed(Build(MCSource[o], FALSE, FALSE))}
        ELSE whole]

(* The objects satisfy what the theorem about RightKernel assumes.         *)
ASSUME MCUnambiguous == Unambiguous
===============================================================================
