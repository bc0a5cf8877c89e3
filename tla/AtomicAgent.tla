---- MODULE AtomicAgent ----
(***************************************************************************)
(* What the debug agent promises an application that uses the API as most  *)
(* do: every call takes effect in one step.  DebugAgent is shown to        *)
(* implement it, with its mutex, its records and its searches.             *)
(*                                                                         *)
(* The state is the application's view: which load each of its handles     *)
(* came from, what is in its executables, and what its queries were        *)
(* answered.                                                               *)
(***************************************************************************)
EXTENDS Naturals, Sequences, SequencesExt

CONSTANTS
    Threads, Hsacos, Execs, SymNames, Contents, CrcOf, NamesOf,
    CoSubs, SymbolSubs, RtFaults

VARIABLES
    loadCount,      \* how many loads were attempted
    loads,          \* what was loaded, and under which id
    loadOf,         \* the load each live handle came from, or 0
    initialized,    \* whether the init command has ended, well or not
    prepared,       \* the rules for symbols that are in force
    execs,          \* what each executable holds
    queries,        \* how many symbol queries were made
    answers         \* the rule each thread is answered by, or 0

vars == <<loadCount, loads, loadOf, initialized, prepared, execs, queries, answers>>

----------------------------------------------------------------------------
(* The rules                                                               *)

\* The first [[code-object-replace]] that holds of a load; 0 if none does.
Rule(id, content) ==
    SelectInSeq(CoSubs, LAMBDA sub : CrcOf[content] \in sub.crcs /\ id \in sub.ids)

\* The rules by which a load may be replaced, and what is loaded in its place.
Replacing(id, content) ==
    LET rule == Rule(id, content)
    IN  {rule} \cup (IF "replacement file" \in RtFaults THEN {0} ELSE {})
Replacement(content, by) == IF by = 0 THEN content ELSE CoSubs[by].content

\* The [[kernel-replace]]s in force that ask for a symbol of a load, if that was
\* not replaced as a whole.
Asking(load, name, number) ==
    {r \in prepared :
        /\ name \in SymbolSubs[r].names
        /\ load.id \in SymbolSubs[r].ids \ {0} /\ load.by = 0
        /\ CrcOf[load.was] \in SymbolSubs[r].crcs
        /\ number \in SymbolSubs[r].getInfoIds}
Holding(load, name, number) ==
    {r \in Asking(load, name, number) : name \in NamesOf[load.is]}
First(rules) == CHOOSE r \in rules : \A q \in rules : r <= q

\* The first rule that holds of a load in the symbol's executable, 0 if none does.
Answer(symbol, attribute, number) ==
    LET rules == UNION {Holding(load, symbol[2], number) : load \in execs[symbol[1]]}
    IN  IF rules = {} \/ attribute = "name" THEN 0 ELSE First(rules)

----------------------------------------------------------------------------
(* The calls                                                               *)

Load(h, content) ==
    /\ loadCount' = loadCount + 1
    /\ loads' = loads \cup {[id |-> loadCount', content |-> content]}
    /\ loadOf' = [loadOf EXCEPT ![h] = loadCount']
    /\ UNCHANGED <<initialized, prepared, execs, queries, answers>>

\* A load that fails is counted.
FailedLoad ==
    /\ loadCount' = loadCount + 1
    /\ UNCHANGED <<loads, loadOf, initialized, prepared, execs, queries, answers>>

\* Once; a command that fails leaves no rule in force.
Initialize ==
    /\ ~initialized /\ initialized' = TRUE
    /\ prepared' \in SUBSET DOMAIN SymbolSubs
    /\ UNCHANGED <<loadCount, loads, loadOf, execs, queries, answers>>

\* Only after the initialization.
LoadIntoExecutable(h, e) ==
    /\ initialized
    /\ \E load \in loads :
        /\ load.id = loadOf[h]
        /\ \E by \in Replacing(load.id, load.content) :
             execs' = [execs EXCEPT ![e] = @ \cup
                          {[id |-> load.id, was |-> load.content, by |-> by,
                            is |-> Replacement(load.content, by)]}]
    /\ UNCHANGED <<loadCount, loads, loadOf, initialized, prepared, queries, answers>>

Query(t, symbol, attribute) ==
    /\ queries' = queries + 1
    /\ answers' = [answers EXCEPT ![t] = Answer(symbol, attribute, queries')]
    /\ UNCHANGED <<loadCount, loads, loadOf, initialized, prepared, execs>>

Return(t) ==
    /\ answers' = [answers EXCEPT ![t] = 0]
    /\ UNCHANGED <<loadCount, loads, loadOf, initialized, prepared, execs, queries>>

\* The application destroys a handle, or discards an executable.
Destroy(h) ==
    /\ loadOf' = [loadOf EXCEPT ![h] = 0]
    /\ UNCHANGED <<loadCount, loads, initialized, prepared, execs, queries, answers>>

Discard(e) ==
    /\ execs' = [execs EXCEPT ![e] = {}]
    /\ UNCHANGED <<loadCount, loads, loadOf, initialized, prepared, queries, answers>>

----------------------------------------------------------------------------

Init ==
    /\ loadCount = 0 /\ loads = {}
    /\ loadOf = [h \in Hsacos |-> 0]
    /\ initialized = FALSE
    /\ prepared = {}
    /\ execs = [e \in Execs |-> {}]
    /\ queries = 0
    /\ answers = [t \in Threads |-> 0]

Next ==
    \/ FailedLoad
    \/ Initialize
    \/ \E h \in Hsacos : Destroy(h) \/ \E content \in Contents : Load(h, content)
    \/ \E e \in Execs : Discard(e) \/ \E h \in Hsacos : LoadIntoExecutable(h, e)
    \/ \E t \in Threads :
        \/ Return(t)
        \/ \E symbol \in Execs \X SymNames, attribute \in {"name", "kernel object"} :
              Query(t, symbol, attribute)

Spec == Init /\ [][Next]_vars
====
