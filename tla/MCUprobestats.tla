---------------------------- MODULE MCUprobestats ----------------------------
(* Configs that together reach every branch of the daemon: binder probes   *)
(* with one filter, with two, with the same interface twice, with a zero   *)
(* code and with more codes than a value holds; probes located by oatdump; *)
(* configs that are refused at each check; a duration beyond an i32 of     *)
(* milliseconds; a map path that no handler serves; no map at all.          *)
EXTENDS Uprobestats

CONSTANTS none, other, unknown

MCBytes == {"a", "b", "NUL"}
MCNul == "NUL"

\* A name of one byte, and one that just leaves room for the NUL.
a == <<"a">>
b == <<"a", "b">>

\* One that leaves no room, and one with a NUL before its end.
long == <<"a", "b", "b">>
broken == <<"a", MCNul, "b">>

MCNames == {a, b}
MCAnyNames == {a, long, broken}

\* The process has an interface that is recorded as another's name, too.
MCDescriptors == {a, <<"a", "b", "a">>}

MCCodes == {1, 2}
MCMaps == {BinderRing, other, unknown}
MCRegistered == {BinderRing, other}
MCPrefixes == {<<"Oom">>}

On(name, codes) == [name |-> name, codes |-> codes]

\* Binder.execTransactInternal; a method of the allow list; one that is not on
\* it but whose superseded signature is; one only oatdump can find.
Binder(filters) == [prog |-> "Binder", class |-> <<"Binder">>, method |-> <<"exec">>,
                    signature |-> none, filters |-> filters]
Oom == [prog |-> "Other", class |-> <<"Oom">>, method |-> <<"$", "run">>,
        signature |-> <<"Oom", "(">>, filters |-> <<>>]
Sneaky == [Oom EXCEPT !.class = <<"OomX">>]
Oatdump == [Oom EXCEPT !.class = none]
Blank == [Oatdump EXCEPT !.signature = none]

Run(probes, maps, duration) ==
    <<[probes |-> probes, maps |-> maps, duration |-> duration]>>

MCConfigs ==
    {Run(<<Binder(<<On(a, <<1>>)>>)>>, {BinderRing}, 1),
     Run(<<Binder(<<On(a, <<2, 0, 1>>), On(b, <<1>>)>>), Oom>>, {BinderRing, other}, 1),
     Run(<<Binder(<<On(b, <<2>>)>>), Binder(<<On(b, <<1>>)>>)>>, {BinderRing}, 1),
     Run(<<Binder(<<On(a, <<1>>), On(b, <<-1>>)>>)>>, {BinderRing}, 1),
     Run(<<Oom>>, {other, unknown}, 1),
     Run(<<Oom, Sneaky>>, {other}, 3),
     Run(<<Oatdump, Blank>>, {}, 1),
     Run(<<Oatdump>>, {other}, 1),
     Run(<<Oom>>, {}, 1),
     Run(<<Oom>>, {}, 0) \o Run(<<Binder(<<>>)>>, {}, 1)}

(* For the filter map alone.                                               *)
MCBinderConfigs ==
    {Run(<<Binder(<<On(name, <<1>>)>>)>>, {BinderRing}, 1) : name \in MCAnyNames}
===============================================================================
