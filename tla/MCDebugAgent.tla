---- MODULE MCDebugAgent ----
(***************************************************************************)
(* Instances of DebugAgent for TLC.                                        *)
(***************************************************************************)
EXTENDS DebugAgent

CONSTANTS a, b, new, newB, crcA, crcB, crcNew, k

MCCrcOf == (a :> crcA) @@ (b :> crcB) @@ (new :> crcNew) @@ (newB :> crcNew)
MCSizeOf == [c \in {a, b, new, newB} |-> 1]
MCNamesOf == [c \in {a, b, new, newB} |-> {k}]

\* The second load is replaced, every other load of b as well, but by something
\* else: a second load of b is a matter of the order of the rules.
MCCoSubs == <<[crcs |-> Crcs, ids |-> {2}, content |-> new],
              [crcs |-> {crcB}, ids |-> 1..MaxLoads, content |-> newB]>>

\* The symbols of a are replaced, those of the second query by another rule.
MCSymbolSubs == <<[getInfoIds |-> {2}, crcs |-> {crcA}, ids |-> 1..MaxLoads,
                   names |-> {k}],
                  [getInfoIds |-> 1..MaxGetInfos, crcs |-> {crcA},
                   ids |-> 1..MaxLoads, names |-> {k}]>>
\* The symbols of the first load are replaced and those of the third, by different
\* rules: the answer tells which load it is about.
MCSymbolSubsByLoad == [i \in 1..2 |-> [getInfoIds |-> 1..MaxGetInfos, crcs |-> Crcs,
                                       ids |-> {5 - 2 * i}, names |-> {k}]]

\* Threads, executables and buffers are interchangeable.
Symmetry == Permutations(Threads) \cup Permutations(Execs) \cup Permutations(Ptrs)
====
