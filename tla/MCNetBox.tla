------------------------------- MODULE MCNetBox -------------------------------
EXTENDS NetBox

Bytes(d, u) == [dir \in Dirs |-> IF dir = "download" THEN d ELSE u]
Two(eth, wlan) == [i \in {"eth", "wlan"} |-> IF i = "eth" THEN eth ELSE wlan]
Pair == <<"eth", "wlan">>

\* Quiet and busy times, an interface that goes, and one that begins again.
SomeTraffic ==
    {[ifaces |-> Pair, up |-> {"eth"}, reset |-> {}, bytes |-> Two(Bytes(1, 5), Bytes(0, 1))],
     [ifaces |-> Pair, up |-> {"wlan"}, reset |-> {"eth"}, bytes |-> Two(Bytes(2, 1), Bytes(5, 0))],
     [ifaces |-> <<"wlan">>, up |-> {}, reset |-> {}, bytes |-> [i \in {"wlan"} |-> Bytes(1, 1)]]}
===============================================================================
