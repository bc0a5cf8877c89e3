---- MODULE CodeObjectRecorder ----
(***************************************************************************)
(* The code object recorder (src/src/code_object_recorder.{hpp,cpp}) and   *)
(* the records it keeps (src/src/code_object.{hpp,cpp}).                   *)
(*                                                                         *)
(* Every load of a code object that the application makes is counted,      *)
(* recorded at the front of a list and compared with the newest record of  *)
(* the same CRC.  A code object with a new CRC is dumped to the file named *)
(* after the CRC; one whose CRC is known is not dumped, but compared with  *)
(* that file.  What the recorder concluded goes to the code object log.    *)
(*                                                                         *)
(* The class is not thread-safe ("needs locking on the caller side"): its  *)
(* operators are atomic here, and DebugAgent composes them under a lock.   *)
(*                                                                         *)
(* Abstractions.  A code object's bytes are a member of Contents with a    *)
(* CRC and a size.  The log is reduced to one verdict per load.            *)
(***************************************************************************)
EXTENDS Naturals, Sequences, FiniteSets, SequencesExt

CONSTANTS
    Contents,       \* what a code object can hold
    Crcs,           \* CRC-32 values
    CrcOf,          \* the CRC of each content
    SizeOf,         \* the size of each content
    Ptrs,           \* addresses of the application's buffers
    Hsacos,         \* hsaco_t: readers and (deserialized) code objects
    SymHandles,     \* hsa_executable_symbol_t handles
    SymNames,       \* kernel names
    DumpEnabled,    \* whether logs.co-dump-dir is configured
    IoFaults,       \* what the file system may do: "open", "read", "short"
    Leftovers,      \* contents an earlier run may have left in the directory
    NoFile,         \* no file of this name
    Partial,        \* a file that holds only the beginning of a code object
    MaxLoads,       \* bound on the loads
    MaxGetInfos     \* bound on the symbol queries

ASSUME RecorderAssumption ==
    /\ CrcOf \in [Contents -> Crcs]
    /\ SizeOf \in [Contents -> Nat]
    /\ Leftovers \subseteq Contents
    /\ DumpEnabled \in BOOLEAN
    /\ IoFaults \subseteq {"open", "read", "short"}
    /\ NoFile \notin Contents /\ Partial \notin Contents /\ NoFile # Partial
    /\ MaxLoads \in Nat /\ MaxGetInfos \in Nat

VARIABLES
    loadCallCounter,    \* _load_call_counter
    getInfoCallCounter, \* _get_info_call_counter
    codeObjects,        \* _code_objects, the newest record first
    files,              \* the dump directory: CRC -> what the file holds
    verdicts            \* the code object log: what was said of load n

vars == <<loadCallCounter, getInfoCallCounter, codeObjects, files, verdicts>>

----------------------------------------------------------------------------
(* Records                                                                 *)

\* exec_symbols_t: a map from symbol handles to names.
SymbolMaps == UNION {[S -> SymNames] : S \in SUBSET SymHandles}
NoSymbols == [s \in {} |-> s]

\* RecordedCodeObject.  The class keeps the pointer, the size and the CRC;
\* `content` stands for the bytes these were computed from at the load.
RecordedCodeObject ==
    [id : Nat, ptr : Ptrs, content : Contents, hsaco : Hsacos,
     symbols : SymbolMaps]

Crc(co) == CrcOf[co.content]
Size(co) == SizeOf[co.content]

\* hsaco_eq: the same alternative of the variant and the same handle.  A
\* member of Hsacos carries both.
hsaco_eq(co, hsaco) == co.hsaco = hsaco

\* The verdicts logged as errors.
Errors == {"cannot write", "size differs", "cannot read", "contents differ"}
Conclusions == Errors \cup {"load failed", "not dumped", "written",
                             "same size", "redundant"}
\* The verdict on a load, and the earlier load it was compared with, or 0.
Verdict == {v \in [id : Nat, what : Conclusions, other : Nat] : v.other < v.id}

Log(id, what, other) ==
    verdicts' = Append(verdicts, [id |-> id, what |-> what, other |-> other])

----------------------------------------------------------------------------
(* Operations                                                              *)

\* Mutant: a file that cannot be opened is logged like one that was written.
dump_code_object_unreported(co) ==
    \/ /\ ~DumpEnabled
       /\ Log(co.id, "not dumped", 0)
       /\ UNCHANGED files
    \/ /\ DumpEnabled
       /\ files' \in {files, [files EXCEPT ![Crc(co)] = co.content]}
       /\ Log(co.id, "written", 0)

\* A write that fails half-way is not noticed: the stream's state is not
\* looked at after fs.write, and the dump is logged as written.
dump_code_object(co) ==
    \/ /\ ~DumpEnabled
       /\ Log(co.id, "not dumped", 0)
       /\ UNCHANGED files
    \/ /\ DumpEnabled
       /\ \E held \in {co.content}
                      \cup (IF "short" \in IoFaults THEN {Partial} ELSE {}) :
            files' = [files EXCEPT ![Crc(co)] = held]
       /\ Log(co.id, "written", 0)
    \/ /\ DumpEnabled /\ "open" \in IoFaults
       /\ Log(co.id, "cannot write", 0)
       /\ UNCHANGED files

\* The comparison takes a file of the record's size for granted.  Of a shorter
\* file, memcmp reads past what was copied, and answers anything.  A longer one
\* is copied whole into a buffer of the record's size, past the end of the
\* buffer: that is undefined.  The behaviours that go on are those where nothing
\* was hit that the library relies on, and memcmp answers anything; a process
\* that dies here makes no further steps, and damage to the library's own state
\* is not modelled.  ComparedWithinBuffer says when this happens.
FileHasSizeOf(held, co) == held \in Contents /\ SizeOf[held] = Size(co)
MayCompareEqual(held, co) == held = co.content \/ ~FileHasSizeOf(held, co)
MayDiffer(held, co) == held # co.content

\* Mutant: the differing sizes are not looked at.
handle_crc_collision_any_size(new, existing) ==
    LET held == files[Crc(existing)]
    IN  /\ UNCHANGED files
        /\ \/ /\ held = NoFile
              /\ Log(new.id, "cannot read", existing.id)
           \/ /\ held # NoFile /\ MayDiffer(held, new)
              /\ Log(new.id, "contents differ", existing.id)
           \/ /\ held # NoFile /\ MayCompareEqual(held, new)
              /\ Log(new.id, "redundant", existing.id)

\* Mutant: a collision also dumps the new code object, over the old one.
handle_crc_collision_dumping(new, existing) ==
    /\ files' = [files EXCEPT ![Crc(new)] = new.content]
    /\ Log(new.id, "contents differ", existing.id)

handle_crc_collision(new, existing) ==
    LET held == files[Crc(existing)]
    IN  /\ UNCHANGED files
        /\ \/ /\ Size(new) # Size(existing)
              /\ Log(new.id, "size differs", existing.id)
           \/ /\ Size(new) = Size(existing)
              /\ ~DumpEnabled
              /\ Log(new.id, "same size", existing.id)
           \/ /\ Size(new) = Size(existing)
              /\ DumpEnabled
              /\ \/ /\ held = NoFile \/ "read" \in IoFaults
                    /\ Log(new.id, "cannot read", existing.id)
                 \/ /\ held # NoFile /\ MayDiffer(held, new)
                    /\ Log(new.id, "contents differ", existing.id)
                 \/ /\ held # NoFile /\ MayCompareEqual(held, new)
                    /\ Log(new.id, "redundant", existing.id)

\* The newest record other than the new one with its CRC; 0 if there is none.
crc_collision(crc) == SelectInSeq(codeObjects, LAMBDA co : Crc(co) = crc)

\* Mutant: the counter is read before it is incremented.
record_code_object_post_increment(ptr, content, hsaco, loaded) ==
    LET co == [id |-> loadCallCounter, ptr |-> ptr, content |-> content,
               hsaco |-> hsaco, symbols |-> NoSymbols]
    IN  /\ loadCallCounter' = loadCallCounter + 1
        /\ codeObjects' = IF loaded THEN Cons(co, codeObjects) ELSE codeObjects
        /\ Log(co.id, IF loaded THEN "not dumped" ELSE "load failed", 0)
        /\ UNCHANGED <<getInfoCallCounter, files>>

\* Mutant: new records go to the back of the list.
record_code_object_at_back(ptr, content, hsaco, loaded) ==
    LET co == [id |-> loadCallCounter + 1, ptr |-> ptr, content |-> content,
               hsaco |-> hsaco, symbols |-> NoSymbols]
    IN  /\ loadCallCounter' = loadCallCounter + 1
        /\ codeObjects' = IF loaded THEN Append(codeObjects, co) ELSE codeObjects
        /\ Log(co.id, IF loaded THEN "not dumped" ELSE "load failed", 0)
        /\ UNCHANGED <<getInfoCallCounter, files>>

\* Mutant: the search for a collision finds the new record itself.
record_code_object_with_itself(ptr, content, hsaco, loaded) ==
    LET co == [id |-> loadCallCounter + 1, ptr |-> ptr, content |-> content,
               hsaco |-> hsaco, symbols |-> NoSymbols]
    IN  /\ loadCallCounter' = loadCallCounter + 1
        /\ codeObjects' = IF loaded THEN Cons(co, codeObjects) ELSE codeObjects
        /\ IF loaded THEN handle_crc_collision(co, co)
           ELSE Log(co.id, "load failed", 0) /\ UNCHANGED files
        /\ UNCHANGED getInfoCallCounter

\* A failed load is counted and reported, but leaves no record.
record_code_object(ptr, content, hsaco, loaded) ==
    LET co == [id |-> loadCallCounter + 1, ptr |-> ptr, content |-> content,
               hsaco |-> hsaco, symbols |-> NoSymbols]
        collision == crc_collision(Crc(co))
    IN  /\ loadCallCounter' = loadCallCounter + 1
        /\ UNCHANGED getInfoCallCounter
        /\ \/ /\ ~loaded
              /\ Log(co.id, "load failed", 0)
              /\ UNCHANGED <<codeObjects, files>>
           \/ /\ loaded
              /\ codeObjects' = Cons(co, codeObjects)
              /\ \/ /\ collision # 0
                    /\ handle_crc_collision(co, codeObjects[collision])
                 \/ /\ collision = 0
                    /\ dump_code_object(co)

\* Mutant: the record of the handle that was made first.
find_code_object_oldest(hsaco) ==
    SelectLastInSeq(codeObjects, LAMBDA co : hsaco_eq(co, hsaco))

\* The position of the newest record of the handle; 0 if there is none.
find_code_object(hsaco) ==
    SelectInSeq(codeObjects, LAMBDA co : hsaco_eq(co, hsaco))

\* The symbols of the record at position i are replaced, not added to.
record_symbols(i, symbols) ==
    /\ codeObjects' = [codeObjects EXCEPT ![i].symbols = symbols]
    /\ UNCHANGED <<loadCallCounter, getInfoCallCounter, files, verdicts>>

\* The position of the newest record that holds the symbol; 0 if none does.
symbol_code_object(symbol) ==
    SelectInSeq(codeObjects, LAMBDA co : symbol \in DOMAIN co.symbols)

\* Every query is counted, also one of an unknown symbol.
record_get_info ==
    /\ getInfoCallCounter' = getInfoCallCounter + 1
    /\ UNCHANGED <<loadCallCounter, codeObjects, files, verdicts>>

----------------------------------------------------------------------------
(* The recorder on its own, called in any order                            *)

\* The directory may hold dumps of an earlier run.
Init ==
    /\ loadCallCounter = 0
    /\ getInfoCallCounter = 0
    /\ codeObjects = << >>
    /\ files \in [Crcs -> Leftovers \cup {NoFile}]
    /\ \A crc \in Crcs : files[crc] \in Leftovers => CrcOf[files[crc]] = crc
    /\ verdicts = << >>

RecordCodeObject ==
    /\ loadCallCounter < MaxLoads
    /\ \E ptr \in Ptrs, content \in Contents, hsaco \in Hsacos,
          loaded \in BOOLEAN :
         record_code_object(ptr, content, hsaco, loaded)

RecordSymbols ==
    \E hsaco \in Hsacos, symbols \in SymbolMaps :
        /\ find_code_object(hsaco) # 0
        /\ record_symbols(find_code_object(hsaco), symbols)

RecordGetInfo ==
    /\ getInfoCallCounter < MaxGetInfos
    /\ record_get_info

Next == RecordCodeObject \/ RecordSymbols \/ RecordGetInfo

Spec == Init /\ [][Next]_vars

----------------------------------------------------------------------------
(* Properties                                                              *)

\* Every record is of a load that was counted, and every verdict compares a
\* load with an earlier one (never with itself, code_object_recorder.cpp:27).
TypeOK ==
    /\ loadCallCounter \in Nat
    /\ getInfoCallCounter \in Nat
    /\ codeObjects \in Seq(RecordedCodeObject)
    /\ \A i \in DOMAIN codeObjects : codeObjects[i].id \in 1..loadCallCounter
    /\ files \in [Crcs -> Contents \cup {NoFile, Partial}]
    /\ verdicts \in Seq(Verdict)

Positions == DOMAIN codeObjects
LoggedOf(co) == verdicts[co.id].what

\* Load ids are unique, as co-load-id conditions and log lines need: the list
\* runs from the newest load to the oldest, every load has the verdict of its
\* number, and a failed load has no record.
LoadIdsOrdered ==
    /\ Len(verdicts) = loadCallCounter
    /\ \A n \in 1..Len(verdicts) : verdicts[n].id = n
    /\ \A i \in Positions : LoggedOf(codeObjects[i]) # "load failed"
    /\ \A i, j \in Positions : i < j => codeObjects[i].id > codeObjects[j].id

\* What the dump directory has of a code object: its contents, the beginning of
\* something, or something that it could not be compared with.
OnDisk(content) == files[CrcOf[content]] = content
CutShort(crc) == files[crc] = Partial
OtherSize(co) == files[Crc(co)] # NoFile /\ ~FileHasSizeOf(files[Crc(co)], co)

\* The log holds an error about a load of the contents, or of the CRC.
Reported(content) ==
    \E i \in Positions : codeObjects[i].content = content
                        /\ LoggedOf(codeObjects[i]) \in Errors
CrcReported(crc) ==
    \E i \in Positions : Crc(codeObjects[i]) = crc
                        /\ LoggedOf(codeObjects[i]) \in Errors

\* "Saving each code object loaded by an application to disk" (README.md): with
\* a dump directory, what the application loaded is in the file of its CRC, or
\* the log holds an error about a load of the same contents.  Failed opens and
\* reads, CRC collisions and dumps of earlier runs included.  The log is silent
\* about two losses: a dump that was cut short, and contents that were taken for
\* those of a file of another size; before the latter, some load of the CRC has
\* been reported.
SavedOrReported ==
    DumpEnabled =>
        \A i \in Positions :
            LET co == codeObjects[i]
            IN  \/ OnDisk(co.content) \/ CutShort(Crc(co))
                \/ Reported(co.content)
                \/ OtherSize(co) /\ CrcReported(Crc(co))

\* What the log said when a code object was loaded stays true of the dump
\* directory as later loads come: "written" and "redundant" name contents
\* that are in the file, and "contents differ" contents that are not.  (Of a
\* file that was cut short or has another size the log says nothing reliable.)
VerdictHoldsOnDisk(co) ==
    /\ LoggedOf(co) = "written" => OnDisk(co.content) \/ CutShort(Crc(co))
    /\ LoggedOf(co) = "redundant" => OnDisk(co.content) \/ OtherSize(co)
    /\ LoggedOf(co) = "contents differ" => ~OnDisk(co.content)
VerdictsHoldOnDisk == \A i \in Positions : VerdictHoldsOnDisk(codeObjects[i])

\* The strengthening under which SavedOrReported is inductive: with a dump
\* directory every record was written, compared or reported, and before a CRC has
\* a record that is not on disk, one of its records was reported.
AccountedFor(co) == OnDisk(co.content) \/ CutShort(Crc(co)) \/ CrcReported(Crc(co))
DiskInv ==
    /\ VerdictsHoldOnDisk
    /\ DumpEnabled => \A i \in Positions :
         /\ LoggedOf(codeObjects[i]) \in Errors \cup {"written", "redundant"}
         /\ AccountedFor(codeObjects[i])

\* The file of a CRC is written at most once in the life of the process: no
\* later load overwrites the dump that earlier log lines refer to.
DumpKept ==
    [][\A i \in Positions :
          files'[Crc(codeObjects[i])] = files[Crc(codeObjects[i])]]_vars

\* "we can load the contents of the existing code object and compare them to
\* the new code object" (code_object_recorder.cpp:69): a load said to have, or
\* not to have, the contents of an earlier load does have them, or does not.
ContentOfLoad(n) ==
    codeObjects[SelectInSeq(codeObjects, LAMBDA co : co.id = n)].content
VerdictTruthful ==
    \A i \in Positions :
        LET co == codeObjects[i]
            other == verdicts[co.id].other
        IN  /\ LoggedOf(co) = "redundant" => ContentOfLoad(other) = co.content
            /\ LoggedOf(co) = "contents differ" => ContentOfLoad(other) # co.content

\* "we can load the contents of the existing code object and compare them to the
\* new code object" (code_object_recorder.cpp:69): what is read back fits into the
\* buffer of the existing record's size.  (A file that was compared is not written
\* again: it still is what was read.)
Compared(co) == LoggedOf(co) \in {"redundant", "contents differ"}
ComparedWithinBuffer ==
    \A i \in Positions :
        LET co == codeObjects[i]
            held == files[Crc(co)]
        IN  Compared(co) /\ held \in Contents => SizeOf[held] <= Size(co)
====
