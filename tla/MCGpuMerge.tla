------------------------------ MODULE MCGpuMerge ------------------------------
EXTENDS GpuMerge

Full(d) == [of |-> d, uuid |-> d, pci |-> d, util |-> TRUE]
Without(d, fields) == [k \in DOMAIN Full(d) |->
    IF k \in fields THEN (IF k = "util" THEN FALSE ELSE None) ELSE Full(d)[k]]
Row(d, p, m) == [dev |-> d, pid |-> p, mem |-> m]

\* Two cards that come, go and change places, and whose names are missing at times.
SomeFrames ==
    {[devices |-> <<Full(1), Full(2)>>,
      rows |-> <<Row(0, 7, 2), Row(1, 8, 1), Row(1, 7, 3), Row(1, 7, 1)>>],
     [devices |-> <<Without(2, {"util"}), Without(1, {"uuid"})>>, rows |-> <<Row(0, 7, 1), Row(1, 7, 0)>>],
     [devices |-> <<Without(2, {"pci"})>>, rows |-> <<Row(0, 8, 4)>>],
     [devices |-> <<Without(1, {"uuid", "pci"}), Without(2, {"uuid", "pci"})>>, rows |-> <<>>],
     [devices |-> <<>>, rows |-> <<>>]}

Amd == <<3>>
===============================================================================
