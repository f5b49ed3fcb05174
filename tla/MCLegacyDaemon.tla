---------------------------- MODULE MCLegacyDaemon ----------------------------
(* An int of at most 3: a duration of 4 no longer fits.                    *)
EXTENDS LegacyDaemon

CONSTANTS detail, timestamp, signal, none

MCMaps == {detail, timestamp, signal}
MCSupported == {detail, timestamp}
MCPrefixes == {<<"Oom">>}

Oom == [class |-> <<"Oom">>, method |-> <<"run">>, signature |-> <<"Other">>]
Sneaky == [Oom EXCEPT !.class = <<"OomX">>, !.signature = <<"Oom", "(">>]
Oatdump == [Sneaky EXCEPT !.class = none]

Run(probes, maps, duration) ==
    [probes |-> probes, maps |-> maps, duration |-> duration, target |-> "system_server",
     others |-> {}]

MCConfigs ==
    {Run(<<Oom>>, <<detail, timestamp>>, 2),
     [Run(<<Oom>>, <<detail>>, 1) EXCEPT !.others = {Sneaky}],
     Run(<<Oom, Oatdump>>, <<detail, signal>>, 4),
     Run(<<Oatdump>>, <<detail, detail>>, 1),
     Run(<<Sneaky>>, <<detail>>, 0),
     Run(<<Oom>>, <<detail>>, none),
     Run(<<>>, <<detail>>, 1),
     [Run(<<Oom>>, <<detail>>, 1) EXCEPT !.target = "other"]}
===============================================================================
