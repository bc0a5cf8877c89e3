---- MODULE CodeObjectRecorder_proof ----
(***************************************************************************)
(* Proofs about the code object recorder, for all contents, CRCs, sizes,   *)
(* faults and bounds.                                                      *)
(***************************************************************************)
EXTENDS CodeObjectRecorder, SearchLemmas, TLAPS, SequenceTheorems

USE DEF vars

----------------------------------------------------------------------------
(* Lemmas about searches in the list of records                            *)

LEMMA RecordAt ==
    ASSUME codeObjects \in Seq(RecordedCodeObject)
    PROVE  /\ Len(codeObjects) \in Nat
           /\ Positions = 1..Len(codeObjects)
           /\ \A i \in Positions : codeObjects[i] \in RecordedCodeObject
BY LenProperties, ElementOfSeq DEF Positions

\* A new code object collides with a record of its CRC, if there is one.
LEMMA CollisionFound ==
    ASSUME codeObjects \in Seq(RecordedCodeObject), NEW crc
    PROVE  /\ crc_collision(crc) = 0 => \A i \in Positions : Crc(codeObjects[i]) # crc
           /\ crc_collision(crc) # 0 => /\ crc_collision(crc) \in Positions
                                        /\ Crc(codeObjects[crc_collision(crc)]) = crc
<1> DEFINE I == {i \in 1..Len(codeObjects) : Crc(codeObjects[i]) = crc}
<1>1. crc_collision(crc) = IF I # {} THEN Min(I) ELSE 0
  BY DEF crc_collision, SelectInSeq
<1>2. Len(codeObjects) \in Nat /\ Positions = 1..Len(codeObjects)
  BY RecordAt
<1> HIDE DEF I
<1>3. I \in SUBSET (1..Len(codeObjects))
  BY DEF I
<1>4. /\ crc_collision(crc) = 0 <=> I = {}
      /\ crc_collision(crc) # 0 => crc_collision(crc) \in I
  BY <1>1, <1>2, <1>3, FirstOrZero
<1>. QED
  BY <1>2, <1>4 DEF I

----------------------------------------------------------------------------
(* What one call of record_code_object does                                *)

NewRecord(ptr, content, hsaco) ==
    [id |-> loadCallCounter + 1, ptr |-> ptr, content |-> content,
     hsaco |-> hsaco, symbols |-> NoSymbols]

\* The log entry the call appends.
NewVerdict(what, other) ==
    [id |-> loadCallCounter + 1, what |-> what, other |-> other]

LEMMA NewRecordType ==
    ASSUME TypeOK, NEW ptr \in Ptrs, NEW content \in Contents, NEW hsaco \in Hsacos
    PROVE  NewRecord(ptr, content, hsaco) \in RecordedCodeObject
<1>1. NoSymbols \in SymbolMaps
  <2>1. NoSymbols \in [{} -> SymNames]
    BY DEF NoSymbols
  <2>. QED
    BY <2>1 DEF SymbolMaps
<1>. QED
  BY <1>1 DEF NewRecord, RecordedCodeObject, TypeOK

\* The call fails, collides or dumps; only a dump writes to the directory, and
\* only to a file whose CRC no record has.
Fails(what) ==
    /\ what = "load failed"
    /\ codeObjects' = codeObjects /\ files' = files

Collides(new, crc, what) ==
    /\ codeObjects' = Cons(new, codeObjects)
    /\ files' = files
    /\ what \in {"size differs", "same size", "cannot read", "contents differ",
                 "redundant"}
    /\ \E i \in Positions :
         /\ Crc(codeObjects[i]) = crc
         /\ what # "size differs" => Size(codeObjects[i]) = Size(new)
    /\ what = "same size" => ~DumpEnabled
    /\ what = "contents differ" => DumpEnabled /\ MayDiffer(files[crc], new)
    /\ what = "redundant" => /\ DumpEnabled /\ files[crc] # NoFile
                             /\ MayCompareEqual(files[crc], new)

Dumps(new, crc, what) ==
    /\ codeObjects' = Cons(new, codeObjects)
    /\ \A i \in Positions : Crc(codeObjects[i]) # crc
    /\ what \in {"not dumped", "cannot write", "written"}
    /\ what # "written" => files' = files
    /\ what = "not dumped" => ~DumpEnabled
    /\ what = "written" =>
         \E held \in {new.content} \cup (IF "short" \in IoFaults THEN {Partial} ELSE {}) :
            files' = [files EXCEPT ![crc] = held]

Concludes(new, crc, what) ==
    /\ \E other \in 0..loadCallCounter : verdicts' = Append(verdicts, NewVerdict(what, other))
    /\ Fails(what) \/ Collides(new, crc, what) \/ Dumps(new, crc, what)

LEMMA LoadOutcome ==
    ASSUME TypeOK,
           NEW ptr \in Ptrs, NEW content \in Contents, NEW hsaco \in Hsacos,
           NEW loaded \in BOOLEAN,
           record_code_object(ptr, content, hsaco, loaded),
           NEW new, new = NewRecord(ptr, content, hsaco),
           NEW crc, crc = CrcOf[content]
    PROVE  \E what \in Conclusions : Concludes(new, crc, what)
<1>1. new.id = loadCallCounter + 1 /\ Crc(new) = crc /\ new.content = content
  BY DEF NewRecord, Crc
<1>. DEFINE c == crc_collision(crc)
            C == codeObjects[c]
<1>2. codeObjects \in Seq(RecordedCodeObject)
  BY DEF TypeOK
<1>3. /\ c = 0 => \A i \in Positions : Crc(codeObjects[i]) # crc
      /\ c # 0 => c \in Positions /\ Crc(C) = crc
  BY <1>2, CollisionFound
<1>4. /\ c # 0 => C.id \in 0..loadCallCounter
      /\ 0 \in 0..loadCallCounter
  BY <1>3 DEF TypeOK, Positions
<1>5. /\ ~loaded => /\ Log(new.id, "load failed", 0)
                    /\ codeObjects' = codeObjects /\ files' = files
      /\ loaded => codeObjects' = Cons(new, codeObjects)
      /\ loaded /\ c # 0 => handle_crc_collision(new, C)
      /\ loaded /\ c = 0 => dump_code_object(new)
  BY <1>1 DEF record_code_object, NewRecord
<1>. HIDE DEF c, C
<1>6. ASSUME NEW what, NEW other \in 0..loadCallCounter, Log(new.id, what, other)
      PROVE  \E o \in 0..loadCallCounter : verdicts' = Append(verdicts, NewVerdict(what, o))
  BY <1>1, <1>6 DEF Log, NewVerdict
<1>7. CASE ~loaded
  <2>1. Fails("load failed")
    BY <1>5, <1>7 DEF Fails
  <2>2. Concludes(new, crc, "load failed")
    BY <1>4, <1>5, <1>6, <1>7, <2>1 DEF Concludes
  <2>. QED
    BY <2>2 DEF Conclusions
<1>8. CASE loaded /\ c # 0
  <2>1. /\ handle_crc_collision(new, C) /\ codeObjects' = Cons(new, codeObjects)
        /\ C.id \in 0..loadCallCounter /\ Crc(C) = crc
        /\ \E i \in Positions : codeObjects[i] = C
    BY <1>3, <1>4, <1>5, <1>8 DEF C
  <2>2. files' = files
    BY <2>1 DEF handle_crc_collision
  <2>3. \E what \in {"size differs", "same size", "cannot read", "contents differ",
                     "redundant"} :
          /\ Log(new.id, what, C.id)
          /\ what # "size differs" => Size(C) = Size(new)
          /\ what = "same size" => ~DumpEnabled
          /\ what = "contents differ" => DumpEnabled /\ MayDiffer(files[crc], new)
          /\ what = "redundant" => /\ DumpEnabled /\ files[crc] # NoFile
                                   /\ MayCompareEqual(files[crc], new)
    <3>. USE <2>1 DEF handle_crc_collision
    <3>1. CASE Log(new.id, "size differs", C.id)
      BY <3>1
    <3>2. CASE /\ Log(new.id, "same size", C.id) /\ ~DumpEnabled
               /\ Size(C) = Size(new)
      BY <3>2
    <3>3. CASE Log(new.id, "cannot read", C.id) /\ Size(C) = Size(new)
      BY <3>3
    <3>4. CASE /\ Log(new.id, "contents differ", C.id) /\ Size(C) = Size(new)
               /\ DumpEnabled /\ MayDiffer(files[crc], new)
      BY <3>4
    <3>5. CASE /\ Log(new.id, "redundant", C.id) /\ Size(C) = Size(new)
               /\ DumpEnabled /\ files[crc] # NoFile
               /\ MayCompareEqual(files[crc], new)
      BY <3>5
    <3>. QED
      BY <3>1, <3>2, <3>3, <3>4, <3>5
  <2>4. PICK what \in {"size differs", "same size", "cannot read", "contents differ",
                      "redundant"} :
          /\ Log(new.id, what, C.id)
          /\ Collides(new, crc, what)
    BY <2>1, <2>2, <2>3 DEF Collides
  <2>5. Concludes(new, crc, what)
    BY <1>6, <2>1, <2>4 DEF Concludes
  <2>. QED
    BY <2>5 DEF Conclusions, Errors
<1>9. CASE loaded /\ c = 0
  <2>1. /\ dump_code_object(new) /\ codeObjects' = Cons(new, codeObjects)
        /\ \A i \in Positions : Crc(codeObjects[i]) # crc
    BY <1>3, <1>5, <1>9
  <2>2. PICK what \in {"not dumped", "cannot write", "written"} :
          /\ Log(new.id, what, 0)
          /\ Dumps(new, crc, what)
    <3>. USE <1>1, <2>1 DEF dump_code_object, Dumps
    <3>1. CASE ~DumpEnabled
      BY <3>1
    <3>2. CASE DumpEnabled /\ Log(new.id, "cannot write", 0) /\ files' = files
      BY <3>2
    <3>3. CASE /\ DumpEnabled /\ Log(new.id, "written", 0)
               /\ \E held \in {new.content}
                             \cup (IF "short" \in IoFaults THEN {Partial} ELSE {}) :
                    files' = [files EXCEPT ![crc] = held]
      BY <3>3
    <3>. QED
      BY <3>1, <3>2, <3>3
  <2>3. Concludes(new, crc, what)
    BY <1>4, <1>6, <2>2 DEF Concludes
  <2>. QED
    BY <2>3 DEF Conclusions, Errors
<1>. QED
  BY <1>7, <1>8, <1>9

----------------------------------------------------------------------------
(* Type correctness                                                        *)

\* A list that grows by the record of the current load.
LEMMA ListGrows ==
    ASSUME TypeOK, NEW new \in RecordedCodeObject,
           codeObjects' = Cons(new, codeObjects)
    PROVE  /\ Positions' = 1..(Len(codeObjects) + 1)
           /\ codeObjects'[1] = new
           /\ \A i \in Positions' : i # 1 => /\ i - 1 \in Positions
                                            /\ codeObjects'[i] = codeObjects[i - 1]
<1>1. codeObjects \in Seq(RecordedCodeObject)
  BY DEF TypeOK
<1>2. Len(codeObjects) \in Nat /\ Positions = 1..Len(codeObjects)
  BY <1>1, RecordAt
<1>3. /\ DOMAIN codeObjects' = 1..(Len(codeObjects) + 1)
      /\ codeObjects'[1] = new
      /\ \A i \in 2..(Len(codeObjects) + 1) :
            i - 1 \in 1..Len(codeObjects) /\ codeObjects'[i] = codeObjects[i - 1]
  <2>. DEFINE seq == codeObjects
  <2>1. seq \in Seq(RecordedCodeObject) /\ new \in RecordedCodeObject
    BY <1>1
  <2>. HIDE DEF seq
  <2>2. /\ DOMAIN Cons(new, seq) = 1..(Len(seq) + 1)
        /\ Cons(new, seq)[1] = new
        /\ \A i \in 2..(Len(seq) + 1) : /\ i - 1 \in 1..Len(seq)
                                       /\ Cons(new, seq)[i] = seq[i - 1]
    BY <2>1, ConsProperties
  <2>. QED
    BY <2>2 DEF seq
<1>. QED
  BY <1>2, <1>3 DEF Positions

LEMMA LoadKeepsType ==
    ASSUME TypeOK,
           NEW ptr \in Ptrs, NEW content \in Contents, NEW hsaco \in Hsacos,
           NEW loaded \in BOOLEAN,
           record_code_object(ptr, content, hsaco, loaded)
    PROVE  TypeOK'
<1>. DEFINE new == NewRecord(ptr, content, hsaco)
            crc == CrcOf[content]
<1>1. new \in RecordedCodeObject /\ new.content = content
  BY NewRecordType DEF NewRecord
<1>2. PICK what \in Conclusions : Concludes(new, crc, what)
  BY LoadOutcome
<1>3. PICK other \in 0..loadCallCounter : verdicts' = Append(verdicts, NewVerdict(what, other))
  BY <1>2 DEF Concludes
<1>. HIDE DEF new
<1>4. verdicts' \in Seq(Verdict)
  BY <1>3, AppendProperties DEF TypeOK, NewVerdict, Verdict
<1>5. codeObjects' \in Seq(RecordedCodeObject)
  <2>1. codeObjects' = codeObjects \/ codeObjects' = Cons(new, codeObjects)
    BY <1>2 DEF Concludes, Fails, Collides, Dumps
  <2>2. codeObjects \in Seq(RecordedCodeObject)
    BY DEF TypeOK
  <2>. QED
    BY <1>1, <2>1, <2>2, ConsProperties
<1>6. files' \in [Crcs -> Contents \cup {NoFile, Partial}]
  BY <1>1, <1>2, RecorderAssumption DEF Concludes, Fails, Collides, Dumps, TypeOK
<1>7. loadCallCounter' \in Nat /\ getInfoCallCounter' \in Nat
  <2>1. /\ loadCallCounter' = loadCallCounter + 1
        /\ getInfoCallCounter' = getInfoCallCounter
    BY DEF record_code_object
  <2>. QED
    BY <2>1 DEF TypeOK
<1>8. ASSUME NEW i \in DOMAIN codeObjects'
      PROVE  codeObjects'[i].id \in 1..loadCallCounter'
  <2>1. /\ loadCallCounter \in Nat /\ loadCallCounter' = loadCallCounter + 1
        /\ new.id = loadCallCounter + 1
    BY DEF TypeOK, record_code_object, new, NewRecord
  <2>2. codeObjects'[i] = new \/ \E k \in Positions : codeObjects'[i] = codeObjects[k]
    <3>1. CASE codeObjects' = codeObjects
      BY <3>1 DEF Positions
    <3>2. CASE codeObjects' = Cons(new, codeObjects)
      <4>1. i \in Positions'
        BY DEF Positions
      <4>2. /\ codeObjects'[1] = new
            /\ \A k \in Positions' : k # 1 => /\ k - 1 \in Positions
                                             /\ codeObjects'[k] = codeObjects[k - 1]
        BY <1>1, <3>2, ListGrows
      <4>. QED
        BY <4>1, <4>2
    <3>. QED
      BY <1>2, <3>1, <3>2 DEF Concludes, Fails, Collides, Dumps
  <2>3. codeObjects'[i].id \in 1..loadCallCounter
        \/ codeObjects'[i].id = loadCallCounter + 1
    <3>1. CASE codeObjects'[i] = new
      BY <2>1, <3>1
    <3>2. ASSUME NEW k \in Positions, codeObjects'[i] = codeObjects[k]
          PROVE  codeObjects'[i].id \in 1..loadCallCounter
      BY <3>2 DEF TypeOK, Positions
    <3>. QED
      BY <2>2, <3>1, <3>2
  <2>. QED
    BY <2>1, <2>3
<1>. QED
  BY <1>4, <1>5, <1>6, <1>7, <1>8 DEF TypeOK

\* A search by handle stops at a record of the handle.
LEMMA HandleFound ==
    ASSUME codeObjects \in Seq(RecordedCodeObject), NEW hsaco
    PROVE  /\ find_code_object(hsaco) \in Nat
           /\ find_code_object(hsaco) # 0 =>
                /\ find_code_object(hsaco) \in Positions
                /\ codeObjects[find_code_object(hsaco)].hsaco = hsaco
                /\ \A j \in Positions : codeObjects[j].hsaco = hsaco
                                        => find_code_object(hsaco) <= j
           /\ find_code_object(hsaco) = 0 =>
                \A j \in Positions : codeObjects[j].hsaco # hsaco
<1> DEFINE I == {i \in 1..Len(codeObjects) : codeObjects[i].hsaco = hsaco}
<1>1. find_code_object(hsaco) = IF I # {} THEN Min(I) ELSE 0
  BY DEF find_code_object, SelectInSeq, hsaco_eq
<1>2. Len(codeObjects) \in Nat /\ Positions = 1..Len(codeObjects)
  BY RecordAt
<1>3. I \in SUBSET (1..Len(codeObjects))
  OBVIOUS
<1> HIDE DEF I
<1>4. /\ find_code_object(hsaco) \in 0..Len(codeObjects)
      /\ find_code_object(hsaco) = 0 <=> I = {}
      /\ find_code_object(hsaco) # 0 =>
           find_code_object(hsaco) \in I /\ \A i \in I : find_code_object(hsaco) <= i
  BY <1>1, <1>2, <1>3, FirstOrZero
<1>. QED
  BY <1>2, <1>4 DEF I

LEMMA SymbolsKeepType ==
    ASSUME TypeOK, NEW i \in Positions, NEW symbols \in SymbolMaps,
           record_symbols(i, symbols)
    PROVE  /\ TypeOK'
           /\ Positions' = Positions
           /\ \A j \in Positions : codeObjects'[j] =
                IF j = i THEN [codeObjects[i] EXCEPT !.symbols = symbols]
                ELSE codeObjects[j]
<1>1. codeObjects \in Seq(RecordedCodeObject)
  BY DEF TypeOK
<1>2. codeObjects[i] \in RecordedCodeObject /\ i \in 1..Len(codeObjects)
  BY <1>1, RecordAt
<1>. DEFINE new == [codeObjects[i] EXCEPT !.symbols = symbols]
<1>3. new \in RecordedCodeObject
  BY <1>2 DEF RecordedCodeObject
<1>4. codeObjects' = [codeObjects EXCEPT ![i] = new]
  BY DEF record_symbols
<1>. HIDE DEF new
<1>5. codeObjects' \in Seq(RecordedCodeObject)
  BY <1>1, <1>2, <1>3, <1>4, ExceptSeq
<1>6. /\ Positions' = Positions
      /\ \A j \in Positions : codeObjects'[j] = IF j = i THEN new ELSE codeObjects[j]
  BY <1>4 DEF Positions
<1>. QED
  BY <1>5, <1>6 DEF TypeOK, record_symbols, new

\* TypeOK holds in every reachable state.
THEOREM TypeCorrect == Spec => []TypeOK
<1>1. Init => TypeOK
  BY RecorderAssumption, EmptySeq DEF Init, TypeOK
<1>2. TypeOK /\ [Next]_vars => TypeOK'
  <2>. SUFFICES ASSUME TypeOK, [Next]_vars PROVE TypeOK'
    OBVIOUS
  <2>1. CASE RecordCodeObject
    BY <2>1, LoadKeepsType DEF RecordCodeObject
  <2>2. CASE RecordSymbols
    <3>1. PICK hsaco \in Hsacos, symbols \in SymbolMaps :
            /\ find_code_object(hsaco) # 0
            /\ record_symbols(find_code_object(hsaco), symbols)
      BY <2>2 DEF RecordSymbols
    <3>2. find_code_object(hsaco) \in Positions
      BY <3>1, HandleFound DEF TypeOK
    <3>. QED
      BY <3>1, <3>2, SymbolsKeepType
  <2>3. CASE RecordGetInfo
    BY <2>3 DEF RecordGetInfo, record_get_info, TypeOK
  <2>4. CASE UNCHANGED vars
    BY <2>4 DEF TypeOK
  <2>. QED
    BY <2>1, <2>2, <2>3, <2>4 DEF Next
<1>. QED
  BY <1>1, <1>2, PTL DEF Spec

----------------------------------------------------------------------------
(* Load ids                                                                *)

\* A log that grows by the entry of the current load.
LEMMA LogGrows ==
    ASSUME TypeOK, LoadIdsOrdered,
           NEW what \in Conclusions, NEW other \in 0..loadCallCounter,
           verdicts' = Append(verdicts, NewVerdict(what, other))
    PROVE  /\ Len(verdicts') = loadCallCounter + 1
           /\ verdicts'[loadCallCounter + 1] = NewVerdict(what, other)
           /\ \A n \in 1..loadCallCounter : verdicts'[n] = verdicts[n]
<1>1. verdicts \in Seq(Verdict) /\ Len(verdicts) = loadCallCounter
  BY DEF TypeOK, LoadIdsOrdered
<1>2. NewVerdict(what, other) \in Verdict
  BY DEF TypeOK, NewVerdict, Verdict
<1>. QED
  BY <1>1, <1>2, AppendProperties

LEMMA LoadKeepsIds ==
    ASSUME TypeOK, LoadIdsOrdered,
           NEW ptr \in Ptrs, NEW content \in Contents, NEW hsaco \in Hsacos,
           NEW loaded \in BOOLEAN,
           record_code_object(ptr, content, hsaco, loaded)
    PROVE  LoadIdsOrdered'
<1>. DEFINE new == NewRecord(ptr, content, hsaco)
            crc == CrcOf[content]
<1>1. new \in RecordedCodeObject /\ new.id = loadCallCounter + 1
  BY NewRecordType DEF NewRecord
<1>2. PICK what \in Conclusions : Concludes(new, crc, what)
  BY LoadOutcome
<1>3. PICK other \in 0..loadCallCounter : verdicts' = Append(verdicts, NewVerdict(what, other))
  BY <1>2 DEF Concludes
<1>. HIDE DEF new
<1>4. loadCallCounter \in Nat /\ loadCallCounter' = loadCallCounter + 1
  BY DEF TypeOK, record_code_object
<1>. /\ \A id \in 1..loadCallCounter : id \in 1..loadCallCounter'
     /\ loadCallCounter + 1 \in 1..loadCallCounter'
  <2>. DEFINE n == loadCallCounter
  <2>1. n \in Nat => /\ \A id \in 1..n : id \in 1..(n + 1)
                    /\ n + 1 \in 1..(n + 1)
    <3>. HIDE DEF n
    <3>. QED
      OBVIOUS
  <2>. QED
    BY <1>4, <2>1
<1>5. /\ Len(verdicts') = loadCallCounter + 1
      /\ verdicts'[loadCallCounter + 1] = NewVerdict(what, other)
      /\ \A n \in 1..loadCallCounter : verdicts'[n] = verdicts[n]
  BY <1>3, LogGrows
<1>6. /\ Len(verdicts') = loadCallCounter'
      /\ \A n \in 1..Len(verdicts') : verdicts'[n].id = n
  <2>1. Len(verdicts) = loadCallCounter
    BY DEF LoadIdsOrdered
  <2>2. ASSUME NEW n \in 1..(loadCallCounter + 1)
        PROVE  verdicts'[n].id = n
    <3>1. CASE n = loadCallCounter + 1
      BY <1>5, <3>1 DEF NewVerdict
    <3>2. CASE n # loadCallCounter + 1
      <4>1. n \in 1..loadCallCounter
        BY <1>4, <3>2
      <4>. QED
        BY <1>5, <2>1, <4>1 DEF LoadIdsOrdered
    <3>. QED
      BY <3>1, <3>2
  <2>. QED
    BY <1>4, <1>5, <2>2
<1>7. \A i \in Positions :
        /\ codeObjects[i].id \in 1..loadCallCounter
        /\ verdicts'[codeObjects[i].id].what # "load failed"
  BY <1>4, <1>5 DEF TypeOK, LoadIdsOrdered, LoggedOf, Positions
<1>8. CASE codeObjects' = codeObjects
  <2>1. Positions' = Positions
    BY <1>8 DEF Positions
  <2>2. \A i \in Positions : codeObjects[i].id \in 1..loadCallCounter'
    BY <1>4, <1>7
  <2>. QED
    BY <1>6, <1>7, <1>8, <2>1, <2>2 DEF LoadIdsOrdered, LoggedOf
<1>9. CASE codeObjects' = Cons(new, codeObjects) /\ what # "load failed"
  <2>1. /\ codeObjects'[1] = new
        /\ \A i \in Positions' : i # 1 => /\ i - 1 \in Positions
                                         /\ codeObjects'[i] = codeObjects[i - 1]
        /\ Positions' = 1..(Len(codeObjects) + 1) /\ Len(codeObjects) \in Nat
    BY <1>1, <1>9, ListGrows, RecordAt DEF TypeOK
  <2>2. ASSUME NEW i \in Positions'
        PROVE  /\ codeObjects'[i].id \in 1..loadCallCounter'
               /\ verdicts'[codeObjects'[i].id].what # "load failed"
    <3>1. CASE i = 1
      <4>1. codeObjects'[i].id = loadCallCounter + 1
        BY <1>1, <2>1, <3>1
      <4>2. verdicts'[codeObjects'[i].id].what = what
        BY <1>5, <4>1 DEF NewVerdict
      <4>. QED
        BY <1>4, <1>9, <4>1, <4>2
    <3>2. CASE i # 1
      <4>1. i - 1 \in Positions /\ codeObjects'[i] = codeObjects[i - 1]
        BY <2>1, <3>2
      <4>2. /\ codeObjects'[i].id \in 1..loadCallCounter
            /\ verdicts'[codeObjects'[i].id].what # "load failed"
        BY <1>7, <4>1
      <4>. QED
        BY <1>4, <4>2
    <3>. QED
      BY <3>1, <3>2
  <2>3. ASSUME NEW i \in Positions', NEW j \in Positions', i < j
        PROVE  codeObjects'[i].id > codeObjects'[j].id
    <3>1. i \in Nat /\ j \in Nat /\ i >= 1
      BY <2>1
    <3>2. j # 1
      BY <2>3, <3>1
    <3>3. j - 1 \in Positions /\ codeObjects'[j] = codeObjects[j - 1]
      BY <2>1, <3>2
    <3>4. CASE i = 1
      <4>1. codeObjects'[i].id = loadCallCounter + 1
        BY <1>1, <2>1, <3>4
      <4>2. codeObjects'[j].id \in 1..loadCallCounter
        BY <1>7, <3>3
      <4>. QED
        BY <1>4, <4>1, <4>2
    <3>5. CASE i # 1
      <4>1. i - 1 \in Positions /\ codeObjects'[i] = codeObjects[i - 1]
        BY <2>1, <3>5
      <4>2. i - 1 < j - 1
        BY <2>3, <3>1
      <4>. QED
        BY <3>3, <4>1, <4>2 DEF LoadIdsOrdered
    <3>. QED
      BY <3>4, <3>5
  <2>. QED
    BY <1>6, <2>2, <2>3 DEF LoadIdsOrdered, LoggedOf
<1>. QED
  BY <1>2, <1>8, <1>9 DEF Concludes, Fails, Collides, Dumps

\* Replacing the symbols of a record changes nothing else about it.
LEMMA SymbolsKeepRest ==
    ASSUME TypeOK, NEW i \in Positions, NEW symbols \in SymbolMaps,
           record_symbols(i, symbols)
    PROVE  /\ TypeOK'
           /\ Positions' = Positions
           /\ \A j \in Positions : /\ codeObjects'[j].id = codeObjects[j].id
                                  /\ codeObjects'[j].content = codeObjects[j].content
                                  /\ codeObjects'[j].hsaco = codeObjects[j].hsaco
           /\ UNCHANGED <<loadCallCounter, getInfoCallCounter, files, verdicts>>
<1>1. codeObjects[i] \in RecordedCodeObject
  BY RecordAt DEF TypeOK
<1>2. LET new == [codeObjects[i] EXCEPT !.symbols = symbols]
      IN  /\ new.id = codeObjects[i].id
          /\ new.content = codeObjects[i].content
          /\ new.hsaco = codeObjects[i].hsaco
  BY <1>1 DEF RecordedCodeObject
<1>3. UNCHANGED <<loadCallCounter, getInfoCallCounter, files, verdicts>>
  BY DEF record_symbols
<1>. QED
  BY <1>2, <1>3, SymbolsKeepType

\* What each kind of step of the recorder is, in the terms of these lemmas.
LEMMA RecordSymbolsStep ==
    ASSUME TypeOK, RecordSymbols
    PROVE  \E i \in Positions, symbols \in SymbolMaps : record_symbols(i, symbols)
BY HandleFound DEF RecordSymbols, TypeOK

\* LoadIdsOrdered holds in every reachable state.
THEOREM LoadIdsCorrect == Spec => []LoadIdsOrdered
<1>1. Init => LoadIdsOrdered
  BY EmptySeq DEF Init, LoadIdsOrdered, Positions
<1>2. TypeOK /\ LoadIdsOrdered /\ [Next]_vars => LoadIdsOrdered'
  <2>. SUFFICES ASSUME TypeOK, LoadIdsOrdered, [Next]_vars PROVE LoadIdsOrdered'
    OBVIOUS
  <2>1. CASE RecordCodeObject
    BY <2>1, LoadKeepsIds DEF RecordCodeObject
  <2>2. CASE RecordSymbols
    <3>1. PICK i \in Positions, symbols \in SymbolMaps : record_symbols(i, symbols)
      BY <2>2, RecordSymbolsStep
    <3>. QED
      BY <3>1, SymbolsKeepRest DEF LoadIdsOrdered, LoggedOf
  <2>3. CASE RecordGetInfo
    BY <2>3 DEF RecordGetInfo, record_get_info, LoadIdsOrdered, LoggedOf, Positions
  <2>4. CASE UNCHANGED vars
    BY <2>4 DEF LoadIdsOrdered, LoggedOf, Positions
  <2>. QED
    BY <2>1, <2>2, <2>3, <2>4 DEF Next
<1>. QED
  BY <1>1, <1>2, TypeCorrect, PTL DEF Spec

----------------------------------------------------------------------------
(* The dump directory                                                      *)

\* DumpKept holds of every step: a file is written only for a CRC that no
\* record has.
THEOREM DumpsAreKept == Spec => DumpKept
<1>1. ASSUME TypeOK, [Next]_vars, NEW i \in Positions
      PROVE  files'[Crc(codeObjects[i])] = files[Crc(codeObjects[i])]
  <2>1. CASE RecordCodeObject
    <3>1. PICK ptr \in Ptrs, content \in Contents, hsaco \in Hsacos,
               loaded \in BOOLEAN :
                 record_code_object(ptr, content, hsaco, loaded)
      BY <2>1 DEF RecordCodeObject
    <3>. DEFINE new == NewRecord(ptr, content, hsaco)
    <3>2. PICK what \in Conclusions : Concludes(new, CrcOf[content], what)
      BY <1>1, <3>1, LoadOutcome
    <3>. HIDE DEF new
    <3>3. CASE files' = files
      BY <3>3
    <3>4. CASE /\ Crc(codeObjects[i]) # CrcOf[content]
               /\ \E held : files' = [files EXCEPT ![CrcOf[content]] = held]
      BY <1>1, <3>4 DEF TypeOK
    <3>. QED
      BY <1>1, <3>2, <3>3, <3>4 DEF Concludes, Fails, Collides, Dumps
  <2>2. CASE RecordSymbols
    BY <2>2 DEF RecordSymbols, record_symbols
  <2>3. CASE RecordGetInfo
    BY <2>3 DEF RecordGetInfo, record_get_info
  <2>. QED
    BY <1>1, <2>1, <2>2, <2>3 DEF Next
<1>2. TypeOK /\ [Next]_vars =>
        [\A i \in Positions :
            files'[Crc(codeObjects[i])] = files[Crc(codeObjects[i])]]_vars
  BY <1>1
<1>. QED
  BY <1>2, TypeCorrect, PTL DEF Spec, DumpKept

\* A load adds a verdict that holds of the directory, and breaks no other; and
\* if it is not on disk, some load of its CRC was reported.
LEMMA LoadKeepsDiskInv ==
    ASSUME TypeOK, LoadIdsOrdered, DiskInv,
           NEW ptr \in Ptrs, NEW content \in Contents, NEW hsaco \in Hsacos,
           NEW loaded \in BOOLEAN,
           record_code_object(ptr, content, hsaco, loaded)
    PROVE  DiskInv'
<1>. DEFINE new == NewRecord(ptr, content, hsaco)
            crc == CrcOf[content]
            Said(co) == verdicts'[co.id].what
            Held(co) == files'[Crc(co)]
            Fine(co) ==
              /\ DumpEnabled => Said(co) \in Errors \cup {"written", "redundant"}
              /\ Said(co) = "written" => Held(co) \in {co.content, Partial}
              /\ Said(co) = "redundant" =>
                    \/ Held(co) = co.content
                    \/ Held(co) # NoFile /\ ~FileHasSizeOf(Held(co), co)
              /\ Said(co) = "contents differ" => Held(co) # co.content
            Saved(co) ==
              \/ Held(co) \in {co.content, Partial}
              \/ \E j \in Positions' : /\ Crc(codeObjects'[j]) = Crc(co)
                                       /\ Said(codeObjects'[j]) \in Errors
<1>1. new \in RecordedCodeObject /\ new.content = content /\ Crc(new) = crc
      /\ new.id = loadCallCounter + 1 /\ crc \in Crcs
  BY NewRecordType, RecorderAssumption DEF NewRecord, Crc
<1>2. PICK what \in Conclusions : Concludes(new, crc, what)
  BY LoadOutcome
<1>3. PICK other \in 0..loadCallCounter : verdicts' = Append(verdicts, NewVerdict(what, other))
  BY <1>2 DEF Concludes
<1>. HIDE DEF new, crc, Said, Held, Fine, Saved
<1>4. /\ verdicts'[loadCallCounter + 1] = NewVerdict(what, other)
      /\ \A n \in 1..loadCallCounter : verdicts'[n] = verdicts[n]
  BY <1>3, LogGrows
<1>5. \/ Fails(what)
      \/ /\ codeObjects' = Cons(new, codeObjects)
         /\ Collides(new, crc, what) \/ Dumps(new, crc, what)
  BY <1>2 DEF Concludes, Collides, Dumps
<1>6. \/ files' = files
      \/ /\ \E held \in {content, Partial} : files' = [files EXCEPT ![crc] = held]
         /\ \A i \in Positions : Crc(codeObjects[i]) # crc
  BY <1>1, <1>5 DEF Fails, Collides, Dumps
<1>7. Said(new) = what
  BY <1>1, <1>4 DEF NewVerdict, Said
\* The records are those there were, and the new one if the load succeeded;
<1>8. /\ \A i \in Positions' : \/ codeObjects'[i] = new /\ ~Fails(what)
                               \/ \E k \in Positions : codeObjects'[i] = codeObjects[k]
      /\ \A k \in Positions : \E i \in Positions' : codeObjects'[i] = codeObjects[k]
      /\ ~Fails(what) => \E i \in Positions' : codeObjects'[i] = new
  <2>1. CASE Fails(what)
    BY <2>1 DEF Fails, Positions
  <2>2. CASE ~Fails(what)
    <3>1. /\ Positions' = 1..(Len(codeObjects) + 1) /\ codeObjects'[1] = new
          /\ \A i \in Positions' : i # 1 => /\ i - 1 \in Positions
                                           /\ codeObjects'[i] = codeObjects[i - 1]
      BY <1>1, <1>5, <2>2, ListGrows
    <3>2. Positions = 1..Len(codeObjects) /\ Len(codeObjects) \in Nat
      BY RecordAt DEF TypeOK
    <3>3. ASSUME NEW k \in Positions PROVE \E i \in Positions' : codeObjects'[i] = codeObjects[k]
      <4>1. k + 1 \in Positions' /\ k + 1 # 1 /\ (k + 1) - 1 = k
        BY <3>1, <3>2
      <4>. QED
        BY <3>1, <4>1
    <3>4. 1 \in Positions'
      BY <3>1, <3>2
    <3>5. ASSUME NEW i \in Positions'
          PROVE  codeObjects'[i] = new \/ \E k \in Positions : codeObjects'[i] = codeObjects[k]
      BY <3>1
    <3>. QED
      BY <2>2, <3>1, <3>3, <3>4, <3>5
  <2>. QED
    BY <2>1, <2>2
\* of the old ones neither the file nor the verdict changes.
<1>9. ASSUME NEW k \in Positions
      PROVE  /\ Held(codeObjects[k]) = files[Crc(codeObjects[k])]
             /\ Said(codeObjects[k]) = LoggedOf(codeObjects[k])
  <2>1. Said(codeObjects[k]) = LoggedOf(codeObjects[k])
    BY <1>4 DEF TypeOK, Positions, LoggedOf, Said
  <2>2. CASE files' = files
    BY <2>1, <2>2 DEF Held
  <2>3. CASE /\ Crc(codeObjects[k]) # crc
             /\ \E held : files' = [files EXCEPT ![crc] = held]
    BY <2>1, <2>3 DEF TypeOK, Held
  <2>. QED
    BY <1>6, <2>2, <2>3
<1>10. ASSUME NEW k \in Positions PROVE Fine(codeObjects[k])
  BY <1>9 DEF DiskInv, VerdictsHoldOnDisk, VerdictHoldsOnDisk, OnDisk, CutShort,
              OtherSize, Crc, Fine
<1>11. ASSUME NEW k \in Positions, DumpEnabled PROVE Saved(codeObjects[k])
  <2>1. CASE OnDisk(codeObjects[k].content) \/ CutShort(Crc(codeObjects[k]))
    BY <1>9, <2>1 DEF OnDisk, CutShort, Crc, Saved
  <2>2. CASE CrcReported(Crc(codeObjects[k]))
    <3>1. PICK j \in Positions : /\ Crc(codeObjects[j]) = Crc(codeObjects[k])
                                 /\ LoggedOf(codeObjects[j]) \in Errors
      BY <2>2 DEF CrcReported
    <3>2. PICK i \in Positions' : codeObjects'[i] = codeObjects[j]
      BY <1>8
    <3>. QED
      BY <1>9, <3>1, <3>2 DEF Saved
  <2>. QED
    BY <1>11, <2>1, <2>2 DEF DiskInv, AccountedFor
\* The verdict on the new one holds,
<1>12. ~Fails(what) => Fine(new)
  <2>1. CASE Collides(new, crc, what)
    <3>1. /\ files' = files
          /\ what # "written"
          /\ DumpEnabled => what \in Errors \cup {"redundant"}
          /\ what = "contents differ" => files[crc] # content
          /\ what = "redundant" => files[crc] # NoFile /\ MayCompareEqual(files[crc], new)
      BY <1>1, <2>1 DEF Collides, Errors, MayDiffer
    <3>. QED
      BY <1>1, <1>7, <3>1 DEF MayCompareEqual, Fine, Held
  <2>2. CASE Dumps(new, crc, what)
    <3>1. /\ DumpEnabled => what \in Errors \cup {"written"}
          /\ what # "redundant" /\ what # "contents differ"
          /\ what = "written" => \E held \in {content, Partial} :
                                    files' = [files EXCEPT ![crc] = held]
      BY <1>1, <2>2 DEF Dumps, Errors
    <3>2. what = "written" => files'[crc] \in {content, Partial}
      BY <1>1, <3>1 DEF TypeOK
    <3>. QED
      BY <1>1, <1>7, <3>1, <3>2 DEF Fine, Held
  <2>. QED
    BY <1>5, <2>1, <2>2
\* and where it is no error, it was compared with a record of its size, which is
\* on disk if none of the CRC was reported.
<1>13. ASSUME ~Fails(what), DumpEnabled PROVE Saved(new)
  <2>1. CASE what \in Errors
    BY <1>1, <1>7, <1>8, <1>13, <2>1 DEF Saved
  <2>2. CASE what = "written"
    BY <1>1, <1>7, <1>12, <1>13, <2>2 DEF Fine, Saved
  <2>3. CASE what = "redundant"
    <3>1. Collides(new, crc, what)
      BY <1>5, <1>13, <2>3 DEF Dumps
    <3>2. PICK k \in Positions : /\ Crc(codeObjects[k]) = crc
                                 /\ Size(codeObjects[k]) = Size(new)
      BY <2>3, <3>1 DEF Collides
    <3>3. files' = files /\ MayCompareEqual(files[crc], new)
      BY <2>3, <3>1 DEF Collides
    <3>4. codeObjects[k].content \in Contents
      BY RecordAt DEF TypeOK, RecordedCodeObject
    <3>5. CASE files[crc] = codeObjects[k].content
      <4>1. FileHasSizeOf(files[crc], new)
        BY <1>1, <3>2, <3>4, <3>5 DEF FileHasSizeOf, Size
      <4>. QED
        BY <1>1, <3>3, <4>1 DEF MayCompareEqual, Saved, Held
    <3>6. CASE files[crc] # codeObjects[k].content
      BY <1>1, <1>11, <1>13, <3>2, <3>3, <3>6 DEF Saved, Held
    <3>. QED
      BY <3>5, <3>6
  <2>. QED
    BY <1>7, <1>12, <1>13, <2>1, <2>2, <2>3 DEF Fine
<1>14. ASSUME NEW i \in Positions'
       PROVE  Fine(codeObjects'[i]) /\ (DumpEnabled => Saved(codeObjects'[i]))
  BY <1>8, <1>10, <1>11, <1>12, <1>13
<1>. QED
  BY <1>14 DEF DiskInv, VerdictsHoldOnDisk, VerdictHoldsOnDisk, AccountedFor, CrcReported,
               LoggedOf, OnDisk, CutShort, OtherSize, Crc, Positions, Fine, Saved, Said, Held

\* DiskInv holds in every reachable state.
LEMMA DiskInvCorrect == Spec => []DiskInv
<1>1. Init => DiskInv
  <2>1. Init => Positions = {}
    BY EmptySeq DEF Init, Positions
  <2>. QED
    BY <2>1 DEF DiskInv, VerdictsHoldOnDisk
<1>2. TypeOK /\ LoadIdsOrdered /\ DiskInv /\ [Next]_vars => DiskInv'
  <2>. SUFFICES ASSUME TypeOK, LoadIdsOrdered, DiskInv, [Next]_vars PROVE DiskInv'
    OBVIOUS
  <2>1. CASE RecordCodeObject
    BY <2>1, LoadKeepsDiskInv DEF RecordCodeObject
  <2>2. CASE RecordSymbols
    <3>1. PICK i \in Positions, symbols \in SymbolMaps : record_symbols(i, symbols)
      BY <2>2, RecordSymbolsStep
    <3>2. /\ Positions' = Positions /\ files' = files /\ verdicts' = verdicts
          /\ \A j \in Positions : codeObjects'[j].id = codeObjects[j].id
                                 /\ codeObjects'[j].content = codeObjects[j].content
      BY <3>1, SymbolsKeepRest
    <3>3. ASSUME NEW j \in Positions
          PROVE  /\ Crc(codeObjects'[j]) = Crc(codeObjects[j])
                 /\ verdicts'[codeObjects'[j].id] = verdicts[codeObjects[j].id]
                 /\ \A held : FileHasSizeOf(held, codeObjects'[j])
                                <=> FileHasSizeOf(held, codeObjects[j])
      BY <3>2 DEF Crc, Size, FileHasSizeOf
    <3>4. ASSUME NEW j \in Positions, VerdictHoldsOnDisk(codeObjects[j])
          PROVE  VerdictHoldsOnDisk(codeObjects[j])'
      BY <3>2, <3>3, <3>4 DEF VerdictHoldsOnDisk, LoggedOf, OnDisk, CutShort, OtherSize
    <3>5. ASSUME NEW j \in Positions, AccountedFor(codeObjects[j])
          PROVE  AccountedFor(codeObjects[j])'
      BY <3>2, <3>3, <3>5 DEF AccountedFor, CrcReported, LoggedOf, OnDisk, CutShort
    <3>. QED
      BY <3>2, <3>3, <3>4, <3>5 DEF DiskInv, VerdictsHoldOnDisk, LoggedOf
  <2>3. CASE UNCHANGED <<codeObjects, files, verdicts>>
    BY <2>3 DEF DiskInv, VerdictsHoldOnDisk, VerdictHoldsOnDisk, LoggedOf, OnDisk,
                CutShort, OtherSize, AccountedFor, CrcReported, Crc, Positions
  <2>. QED
    BY <2>1, <2>2, <2>3 DEF Next, RecordGetInfo, record_get_info
<1>. QED
  BY <1>1, <1>2, TypeCorrect, LoadIdsCorrect, PTL DEF Spec

\* VerdictsHoldOnDisk holds in every reachable state: what the log said of a load
\* stays true of the dump directory, except of files that were cut short or are of
\* another size.
THEOREM LogIsTrueOfDisk == Spec => []VerdictsHoldOnDisk
<1>1. DiskInv => VerdictsHoldOnDisk
  BY DEF DiskInv
<1>. QED
  BY <1>1, DiskInvCorrect, PTL

\* SavedOrReported holds in every reachable state: what the application loaded is
\* on disk or was reported, for any faults of the file system, any dumps of earlier
\* runs, and contents of any sizes that share a CRC.
THEOREM LoadsAreSavedOrReported == Spec => []SavedOrReported
<1>1. DiskInv => SavedOrReported
  <2>. SUFFICES ASSUME DiskInv, DumpEnabled, NEW i \in Positions,
                       ~OnDisk(codeObjects[i].content), ~CutShort(Crc(codeObjects[i])),
                       ~Reported(codeObjects[i].content)
                PROVE  OtherSize(codeObjects[i]) /\ CrcReported(Crc(codeObjects[i]))
    BY DEF SavedOrReported
  <2>1. LoggedOf(codeObjects[i]) \notin Errors
    BY DEF Reported
  <2>2. LoggedOf(codeObjects[i]) = "redundant"
    BY <2>1 DEF DiskInv, VerdictsHoldOnDisk, VerdictHoldsOnDisk
  <2>. QED
    BY <2>2 DEF DiskInv, VerdictsHoldOnDisk, VerdictHoldsOnDisk, AccountedFor
<1>. QED
  BY <1>1, DiskInvCorrect, PTL
====
