---------------------------- MODULE MCConfigStore -----------------------------
EXTENDS ConfigStore

Cpu == <<"cpu">>
Both == <<"cpu", "gpu">>
\* A box that is not there, and the boxes that a hand or a key can choose.
SomeBoxes == {Cpu, Both, <<"disk">>}
\* None, two of which one needs a card, a name that is not known, and too many.
NoPresets == <<>>
SomePresets == {NoPresets, <<<<"proc">>, Both>>, <<<<"disk">>>>,
                <<Cpu, Cpu, Cpu>>}
===============================================================================
