-------------------------- MODULE StreamTableProofs --------------------------
(***************************************************************************)
(* The stream table for any number of ids, cache slots, streams and any    *)
(* limit: an open stream is the one its id leads to, the counter is exact  *)
(* and the limit holds, and the cache lets closed streams go.              *)
(* Then what a client reaches before it has logged in, and the deadline of *)
(* the handshake, for any number of terminals, ids and packets (Session).  *)
(***************************************************************************)
EXTENDS StreamTable, Session, FiniteSetTheorems, TLAPS

Made == 1..created

\* Types: the table and the cache lead to objects that were made.
TypeOK ==
    /\ created \in Nat /\ created <= MaxCreated
    /\ streams \in [Ids -> 0..created] /\ cache \in [Slots -> 0..created]
    /\ streamCount \in Int
    /\ idOf \in [Objects -> Ids \cup {0}] /\ isOpen \in [Objects -> BOOLEAN]
    /\ closing \in [Objects -> [pc : {"none", "ready", "delete", "look", "swap", "count", "done"},
                                seen : Nat]]
    /\ reader \in [pc : {"idle", "count", "fill", "found", "range", "ended"},
                   id : Ids \cup {0}, obj : 0..created]

\* An object that was not made yet is not open and not being closed; one that
\* was has an id of the client's.
FreshUntouched ==
    \A o \in Objects : IF o <= created THEN idOf[o] \in Ids
                       ELSE ~isOpen[o] /\ closing[o].pc = "none"

\* What an id leads to has that id.
MappedHasId == \A i \in Ids : streams[i] # 0 => idOf[streams[i]] = i

\* The close() of a stream: open and in the table until it begins, in the table
\* and not open until the Delete, neither after it.
Phases ==
    \A o \in Made :
       /\ closing[o].pc \in {"none", "ready"} => isOpen[o]
       /\ closing[o].pc \notin {"none", "ready"} => ~isOpen[o]
       /\ closing[o].pc \in {"none", "ready", "delete"} => streams[idOf[o]] = o
       /\ closing[o].pc \in {"look", "swap", "count", "done"} => streams[idOf[o]] # o

\* Only the stream the reader has just stored is not counted yet, and the
\* reader holds its packet's stream.
ReaderHolds ==
    /\ \A o \in Made : closing[o].pc = "none" <=> (reader.pc = "count" /\ reader.obj = o)
    /\ reader.pc \in {"count", "fill", "found"} =>
          reader.obj \in Made /\ reader.id \in Ids /\ idOf[reader.obj] = reader.id

\* The count is that of the streams between ConnectCount and CloseCount, below
\* the limit when one more is about to be counted.
Counted ==
    /\ streamCount = Cardinality(Counting)
    /\ MaxStreams > 0 => /\ streamCount <= MaxStreams
                         /\ reader.pc = "count" => streamCount < MaxStreams

\* The inductive invariant.
TableInv == TypeOK /\ FreshUntouched /\ MappedHasId /\ Phases /\ ReaderHolds /\ Counted

-----------------------------------------------------------------------------
(* Counting.                                                               *)

\* The streams being counted are finitely many.
LEMMA CountingFinite == IsFiniteSet(Counting) /\ Cardinality(Counting) \in Nat
<1>1. IsFiniteSet(Objects)
  BY LimitsType, FS_Interval DEF Objects
<1>2. Counting \subseteq Objects
  BY DEF Counting
<1> QED
  BY <1>1, <1>2, FS_Subset, FS_CardinalityType

\* The reader counts a stream that was not counted.
LEMMA CountingGains ==
    ASSUME NEW o \in Objects, o \notin Counting, Counting' = Counting \cup {o}
    PROVE  Cardinality(Counting') = Cardinality(Counting) + 1
BY CountingFinite, FS_AddElement

\* The end of a close() takes one stream that was counted away.
LEMMA CountingLoses ==
    ASSUME NEW o \in Objects, o \in Counting, Counting' = Counting \ {o}
    PROVE  Cardinality(Counting') = Cardinality(Counting) - 1
BY CountingFinite, FS_RemoveElement

\* Every stream in the table is counted, but for the one the reader has just
\* stored: the limit on the count is one on the table.
LEMMA LimitHolds == TableInv => CountIsExact
<1> SUFFICES ASSUME TableInv PROVE CountIsExact
  OBVIOUS
<1>1. /\ TypeOK /\ Phases /\ ReaderHolds /\ Counted /\ MappedHasId /\ FreshUntouched
  BY DEF TableInv
<1>2. SUFFICES ASSUME MaxStreams > 0 PROVE Cardinality(Mapped) <= MaxStreams
  BY <1>1 DEF CountIsExact, Counted
<1>3. MaxStreams \in Nat /\ MaxCreated \in Nat
  BY LimitsType
<1>4. \A o \in Mapped : o \in Made /\ o \in Objects /\ closing[o].pc # "done"
  <2> SUFFICES ASSUME NEW o \in Objects, NEW i \in Ids, streams[i] = o
               PROVE  o \in Made /\ closing[o].pc # "done"
    BY DEF Mapped
  <2>1. o \in Made
    BY <1>1, <1>3 DEF TypeOK, Made, Objects
  <2>2. idOf[o] = i
    BY <1>1, <1>3 DEF MappedHasId, Objects
  <2> QED
    BY <1>1, <2>1, <2>2 DEF Phases
<1>5. CASE reader.pc = "count"
  <2>1. Mapped \subseteq Counting \cup {reader.obj}
    BY <1>1, <1>4 DEF ReaderHolds, Counting
  <2>2. reader.obj \notin Counting
    BY <1>1, <1>5 DEF ReaderHolds, Counting
  <2>3. /\ IsFiniteSet(Counting \cup {reader.obj})
        /\ Cardinality(Counting \cup {reader.obj}) = Cardinality(Counting) + 1
    BY <2>2, CountingFinite, FS_AddElement
  <2>4. Cardinality(Mapped) <= Cardinality(Counting) + 1 /\ Cardinality(Mapped) \in Nat
    BY <2>1, <2>3, FS_Subset, FS_CardinalityType
  <2> QED
    BY <1>1, <1>2, <1>3, <1>5, <2>4, CountingFinite DEF Counted
<1>6. CASE reader.pc # "count"
  <2>1. Mapped \subseteq Counting
    BY <1>1, <1>4, <1>6 DEF ReaderHolds, Counting
  <2>2. Cardinality(Mapped) <= Cardinality(Counting) /\ Cardinality(Mapped) \in Nat
    BY <2>1, CountingFinite, FS_Subset, FS_CardinalityType
  <2> QED
    BY <1>1, <1>2, <1>3, <2>2, CountingFinite DEF Counted
<1> QED
  BY <1>5, <1>6

-----------------------------------------------------------------------------
(* The inductive invariant.                                                *)

\* A connection starts without streams.
LEMMA TableInit == Init => TableInv
<1> SUFFICES ASSUME Init PROVE TableInv
  OBVIOUS
<1>1. TypeOK
  BY LimitsType DEF Init, TypeOK, Idle, Objects
<1>2. FreshUntouched /\ MappedHasId /\ Phases /\ ReaderHolds
  BY LimitsType DEF Init, FreshUntouched, MappedHasId, Phases, ReaderHolds, Made, Objects, Idle
<1>3. Counting = {}
  BY DEF Init, Counting
<1>4. Counted
  BY <1>3, FS_EmptySet, LimitsType DEF Init, Counted, Idle
<1> QED
  BY <1>1, <1>2, <1>4 DEF TableInv

\* CONNECT: the new object takes an id that led nowhere.
LEMMA ConnectStoreStep == ASSUME TableInv, NEW i \in Ids, ConnectStore(i) PROVE TableInv'
<1> DEFINE o == created + 1
<1>0. /\ TypeOK /\ FreshUntouched /\ MappedHasId /\ Phases /\ ReaderHolds /\ Counted
      /\ MaxCreated \in Nat /\ MaxStreams \in Nat
  BY LimitsType DEF TableInv
<1>1. /\ o \in Objects /\ o \in Nat /\ o # 0 /\ o <= MaxCreated /\ created' = o
      /\ ~(o <= created) /\ o \notin Made
  BY <1>0 DEF ConnectStore, TypeOK, Objects, Made
<1>2. /\ Made' = Made \cup {o} /\ Made \subseteq Objects /\ 0 \notin Made
      /\ \A x \in 0..created : x \in 0..created'
      /\ \A x \in Objects : x <= created' <=> (x <= created \/ x = o)
  BY <1>0, <1>1 DEF Made, TypeOK, Objects
<1>3. /\ closing[o].pc = "none" /\ streams[i] = 0 /\ reader.pc = "idle"
  BY <1>0, <1>1 DEF ConnectStore, FreshUntouched, IdFree, Reading
<1>4. /\ idOf' = [idOf EXCEPT ![o] = i] /\ isOpen' = [isOpen EXCEPT ![o] = TRUE]
      /\ streams' = [streams EXCEPT ![i] = o] /\ reader' = [pc |-> "count", id |-> i, obj |-> o]
      /\ UNCHANGED <<cache, streamCount, closing>> /\ ~AtLimit
  BY DEF ConnectStore
<1> HIDE DEF o
<1>5. TypeOK'
  BY <1>0, <1>1, <1>2, <1>4 DEF TypeOK
<1>6. FreshUntouched'
  BY <1>0, <1>1, <1>2, <1>4 DEF FreshUntouched, TypeOK
<1>7. MappedHasId'
  <2> SUFFICES ASSUME NEW j \in Ids, streams'[j] # 0 PROVE idOf'[streams'[j]] = j
    BY DEF MappedHasId
  <2>1. CASE j = i
    BY <1>0, <1>1, <1>4, <2>1 DEF TypeOK
  <2>2. CASE j # i
    <3>1. streams'[j] = streams[j] /\ streams[j] # o /\ streams[j] \in Objects
      BY <1>0, <1>1, <1>4, <2>2 DEF TypeOK, Objects
    <3> QED
      BY <1>0, <1>4, <3>1 DEF TypeOK, MappedHasId
  <2> QED
    BY <2>1, <2>2
<1>8. Phases'
  <2> SUFFICES ASSUME NEW x \in Made'
               PROVE  /\ closing[x].pc \in {"none", "ready"} => isOpen'[x]
                      /\ closing[x].pc \notin {"none", "ready"} => ~isOpen'[x]
                      /\ closing[x].pc \in {"none", "ready", "delete"} => streams'[idOf'[x]] = x
                      /\ closing[x].pc \in {"look", "swap", "count", "done"} => streams'[idOf'[x]] # x
    BY <1>4 DEF Phases
  <2>1. CASE x = o
    BY <1>0, <1>1, <1>3, <1>4, <2>1 DEF TypeOK
  <2>2. CASE x # o
    <3>0. x \in Made
      BY <1>2, <2>2
    <3>a. x \in Objects /\ x # 0 /\ x <= created
      BY <1>0, <1>2, <3>0 DEF TypeOK, Made
    <3>1. idOf'[x] = idOf[x] /\ isOpen'[x] = isOpen[x] /\ idOf[x] \in Ids
      BY <1>0, <1>4, <2>2, <3>a DEF TypeOK, FreshUntouched
    <3>2. streams'[idOf[x]] = x <=> streams[idOf[x]] = x
      BY <1>0, <1>3, <1>4, <2>2, <3>a, <3>1 DEF TypeOK
    <3> QED
      BY <1>0, <3>0, <3>1, <3>2 DEF Phases
  <2> QED
    BY <2>1, <2>2
<1>9. ReaderHolds'
  BY <1>0, <1>1, <1>2, <1>3, <1>4 DEF ReaderHolds, TypeOK
<1>10. Counted'
  BY <1>0, <1>4 DEF Counted, Counting, AtLimit, TypeOK
<1> QED
  BY <1>5, <1>6, <1>7, <1>8, <1>9, <1>10 DEF TableInv

\* The reader counts the stream it stored.
LEMMA ConnectCountStep == ASSUME TableInv, ConnectCount PROVE TableInv'
<1> DEFINE o == reader.obj
<1>0. /\ TypeOK /\ FreshUntouched /\ MappedHasId /\ Phases /\ ReaderHolds /\ Counted
      /\ MaxCreated \in Nat /\ MaxStreams \in Nat
  BY LimitsType DEF TableInv
<1>1. o \in Made /\ o \in Objects /\ closing[o].pc = "none"
  BY <1>0 DEF ConnectCount, ReaderHolds, TypeOK, Made, Objects
<1>2. /\ closing' = [closing EXCEPT ![o].pc = "ready"] /\ reader' = Idle
      /\ streamCount' = streamCount + 1
      /\ UNCHANGED <<streams, cache, created, idOf, isOpen>> /\ reader.pc = "count"
  BY DEF ConnectCount, CountAfterConnect
<1> HIDE DEF o
<1>3. TypeOK'
  BY <1>0, <1>1, <1>2 DEF TypeOK, Idle
<1>4. FreshUntouched' /\ MappedHasId' /\ Phases'
  BY <1>0, <1>1, <1>2 DEF FreshUntouched, MappedHasId, Phases, Made, TypeOK, Objects
<1>5. ReaderHolds'
  BY <1>0, <1>1, <1>2 DEF ReaderHolds, Made, TypeOK, Objects, Idle, o
<1>6. Counted'
  <2>1. o \notin Counting /\ Counting' = Counting \cup {o}
    BY <1>0, <1>1, <1>2 DEF Counting, TypeOK
  <2>2. Cardinality(Counting') = Cardinality(Counting) + 1
    BY <1>1, <2>1, CountingGains
  <2> QED
    BY <1>0, <1>2, <2>2, CountingFinite DEF Counted, Idle
<1> QED
  BY <1>3, <1>4, <1>5, <1>6 DEF TableInv

\* DATA: the stream found in the table or in the cache has the packet's id.
LEMMA DataStep ==
    ASSUME TableInv, DataHandle \/ DataFill \/ \E i \in Ids : DataCached(i) \/ DataLoad(i)
    PROVE  TableInv'
<1>0. /\ TypeOK /\ FreshUntouched /\ MappedHasId /\ Phases /\ ReaderHolds /\ Counted
      /\ MaxCreated \in Nat /\ MaxStreams \in Nat
  BY LimitsType DEF TableInv
<1>1. UNCHANGED <<streams, streamCount, created, idOf, isOpen, closing>>
  BY DEF DataHandle, DataFill, DataCached, DataLoad
<1>2. FreshUntouched' /\ MappedHasId' /\ Phases' /\ Counting' = Counting /\ Made' = Made
  BY <1>0, <1>1 DEF FreshUntouched, MappedHasId, Phases, Made, Counting
<1>3. ASSUME TypeOK', reader.pc # "count", reader'.pc # "count",
             reader'.pc \in {"fill", "found"} =>
                reader'.obj \in Made /\ reader'.id \in Ids /\ idOf[reader'.obj] = reader'.id
      PROVE  TableInv'
  <2>1. ReaderHolds'
    BY <1>0, <1>1, <1>2, <1>3 DEF ReaderHolds
  <2>2. Counted'
    BY <1>0, <1>1, <1>2, <1>3 DEF Counted
  <2> QED
    BY <1>2, <1>3, <2>1, <2>2 DEF TableInv
<1>4. CASE DataHandle
  BY <1>0, <1>1, <1>3, <1>4 DEF DataHandle, Idle, TypeOK
<1>5. CASE DataFill
  <2>1. Slot[reader.id] \in Slots
    BY <1>0, <1>5, SlotType DEF DataFill, ReaderHolds
  <2>2. /\ reader' = [reader EXCEPT !.pc = "found"] /\ reader.pc = "fill"
        /\ cache' = [cache EXCEPT ![Slot[reader.id]] = reader.obj]
    BY <1>5 DEF DataFill
  <2>3. /\ reader'.pc = "found" /\ reader'.obj = reader.obj /\ reader'.id = reader.id
        /\ TypeOK'
    BY <1>0, <1>1, <2>1, <2>2 DEF TypeOK
  <2> QED
    BY <1>0, <1>3, <2>2, <2>3 DEF ReaderHolds
<1>6. ASSUME NEW i \in Ids, DataCached(i) PROVE TableInv'
  <2>1. /\ reader' = [pc |-> "found", id |-> i, obj |-> cache[Slot[i]]] /\ UNCHANGED cache
        /\ cache[Slot[i]] # 0 /\ idOf[cache[Slot[i]]] = i /\ reader.pc = "idle"
    BY <1>6 DEF DataCached, CacheHit, Reading
  <2>2. cache[Slot[i]] \in 0..created
    BY <1>0, SlotType DEF TypeOK
  <2>3. cache[Slot[i]] \in Made
    BY <1>0, <2>1, <2>2 DEF Made, TypeOK
  <2> QED
    BY <1>0, <1>1, <1>3, <2>1, <2>2, <2>3 DEF TypeOK
<1>7. ASSUME NEW i \in Ids, DataLoad(i) PROVE TableInv'
  <2>1. /\ reader' = [pc |-> "fill", id |-> i, obj |-> streams[i]] /\ UNCHANGED cache
        /\ streams[i] # 0 /\ reader.pc = "idle"
    BY <1>7 DEF DataLoad, Reading
  <2>2. streams[i] \in 0..created /\ idOf[streams[i]] = i
    BY <1>0, <2>1 DEF TypeOK, MappedHasId
  <2>3. streams[i] \in Made
    BY <1>0, <2>1, <2>2 DEF Made, TypeOK
  <2> QED
    BY <1>0, <1>1, <1>3, <2>1, <2>2, <2>3 DEF TypeOK
<1> QED
  BY <1>4, <1>5, <1>6, <1>7

\* The first step of a close(), the reader's own (RangeClose) or another's.
LEMMA BeginStep ==
    ASSUME TableInv, NEW o \in Objects, closing[o].pc = "ready",
           isOpen' = [isOpen EXCEPT ![o] = FALSE],
           closing' = [closing EXCEPT ![o].pc = "delete"],
           reader'.pc = reader.pc, reader.pc = "range" \/ reader' = reader,
           reader' \in [pc : {"idle", "count", "fill", "found", "range", "ended"},
                        id : Ids \cup {0}, obj : 0..created],
           UNCHANGED <<streams, cache, streamCount, created, idOf>>
    PROVE  TableInv'
<1>0. /\ TypeOK /\ FreshUntouched /\ MappedHasId /\ Phases /\ ReaderHolds /\ Counted
      /\ MaxCreated \in Nat /\ MaxStreams \in Nat
  BY LimitsType DEF TableInv
<1>1. TypeOK'
  BY <1>0 DEF TypeOK
<1>2. Made' = Made /\ Made \subseteq Objects
  BY <1>0 DEF Made, Objects, TypeOK
<1>3. FreshUntouched' /\ MappedHasId' /\ Phases'
  BY <1>0, <1>2 DEF FreshUntouched, MappedHasId, Phases, TypeOK
<1>4. ReaderHolds'
  BY <1>0, <1>2 DEF ReaderHolds, TypeOK
<1>5. Counting' = Counting
  BY <1>0 DEF Counting, TypeOK
<1>6. Counted'
  BY <1>0, <1>5 DEF Counted
<1> QED
  BY <1>1, <1>3, <1>4, <1>6 DEF TableInv

\* Once its object is made, a close() under way is that of a made object.
LEMMA ClosingIsMade ==
    ASSUME TypeOK, FreshUntouched, NEW o \in Objects, closing[o].pc # "none"
    PROVE  o \in Made /\ idOf[o] \in Ids /\ Slot[idOf[o]] \in Slots
<1>1. o \in Nat /\ 1 <= o /\ created \in Nat
  BY LimitsType DEF Objects, TypeOK
<1>2. o <= created /\ idOf[o] \in Ids
  BY <1>1 DEF FreshUntouched
<1> QED
  BY <1>1, <1>2, SlotType DEF Made

\* The Delete goes by id and removes this stream, which still has the id.
LEMMA DeleteStep == ASSUME TableInv, NEW o \in Objects, CloseDelete(o) PROVE TableInv'
<1>0. /\ TypeOK /\ FreshUntouched /\ MappedHasId /\ Phases /\ ReaderHolds /\ Counted
      /\ MaxCreated \in Nat /\ MaxStreams \in Nat
  BY LimitsType DEF TableInv
<1>1. /\ closing[o].pc = "delete" /\ closing' = [closing EXCEPT ![o].pc = "look"]
      /\ streams' = [streams EXCEPT ![idOf[o]] = 0]
      /\ UNCHANGED <<cache, streamCount, created, idOf, isOpen, reader>>
  BY DEF CloseDelete
<1>2. o \in Made /\ idOf[o] \in Ids
  BY <1>0, <1>1, ClosingIsMade
<1>3. Made' = Made /\ Made \subseteq Objects /\ 0 \notin Made
  BY <1>0, <1>1 DEF Made, Objects, TypeOK
<1>4. TypeOK'
  BY <1>0, <1>1, <1>2 DEF TypeOK
<1>5. FreshUntouched' /\ MappedHasId'
  BY <1>0, <1>1, <1>2 DEF FreshUntouched, MappedHasId, TypeOK
<1>6. Phases'
  <2>1. \A x \in Made : idOf[x] \in Ids
    BY <1>0, <1>3 DEF FreshUntouched, Made, TypeOK
  <2>2. \A x \in Made \ {o} : streams'[idOf[x]] = x <=> streams[idOf[x]] = x
    <3>1. streams[idOf[o]] = o
      BY <1>0, <1>1, <1>2 DEF Phases
    <3> QED
      BY <1>0, <1>1, <1>2, <1>3, <2>1, <3>1 DEF TypeOK
  <2>3. streams'[idOf[o]] # o
    BY <1>0, <1>1, <1>2, <1>3 DEF TypeOK
  <2> QED
    BY <1>0, <1>1, <1>2, <1>3, <2>2, <2>3 DEF Phases, TypeOK
<1>7. ReaderHolds'
  BY <1>0, <1>1, <1>2, <1>3 DEF ReaderHolds, TypeOK
<1>8. Counting' = Counting
  BY <1>0, <1>1 DEF Counting, TypeOK
<1>9. Counted'
  BY <1>0, <1>1, <1>8 DEF Counted
<1> QED
  BY <1>4, <1>5, <1>6, <1>7, <1>9 DEF TableInv

\* The cache is looked up, and the entry removed if it has not changed.
LEMMA UncacheStep ==
    ASSUME TableInv, NEW o \in Objects, CloseLook(o) \/ CloseSwap(o)
    PROVE  TableInv'
<1>0. /\ TypeOK /\ FreshUntouched /\ MappedHasId /\ Phases /\ ReaderHolds /\ Counted
      /\ MaxCreated \in Nat /\ MaxStreams \in Nat
  BY LimitsType DEF TableInv
<1>1. UNCHANGED <<streams, streamCount, created, idOf, isOpen, reader>>
  BY DEF CloseLook, CloseSwap
<1>2. closing[o].pc \in {"look", "swap"}
  BY DEF CloseLook, CloseSwap
<1>3. o \in Made /\ idOf[o] \in Ids /\ Slot[idOf[o]] \in Slots
  BY <1>0, <1>2, ClosingIsMade
<1>4. /\ cache' \in [Slots -> 0..created]
      /\ closing' \in [Objects -> [pc : {"none", "ready", "delete", "look", "swap", "count", "done"},
                                   seen : Nat]]
      /\ closing'[o].pc \in {"swap", "count"}
      /\ \A x \in Objects \ {o} : closing'[x] = closing[x]
  <2>1. CASE CloseLook(o)
    <3> DEFINE s == IF CacheHit(idOf[o]) THEN cache[Slot[idOf[o]]] ELSE 0
    <3>1. s \in Nat
      BY <1>0, <1>3 DEF TypeOK
    <3>2. closing' = [closing EXCEPT ![o] = [pc |-> "swap", seen |-> s]] /\ cache' = cache
      BY <2>1 DEF CloseLook
    <3> HIDE DEF s
    <3> QED
      BY <1>0, <3>1, <3>2 DEF TypeOK
  <2>2. CASE CloseSwap(o)
    BY <1>0, <1>3, <2>2 DEF CloseSwap, TypeOK
  <2> QED
    BY <2>1, <2>2
<1>5. TypeOK'
  BY <1>0, <1>1, <1>4 DEF TypeOK
<1>6. Made' = Made /\ Made \subseteq Objects
  BY <1>0, <1>1 DEF Made, Objects, TypeOK
<1>7. FreshUntouched' /\ MappedHasId'
  BY <1>0, <1>1, <1>2, <1>3, <1>4 DEF FreshUntouched, MappedHasId, Made
<1>8. Phases' /\ ReaderHolds'
  BY <1>0, <1>1, <1>2, <1>4, <1>6 DEF Phases, ReaderHolds
<1>9. Counting' = Counting
  BY <1>2, <1>4 DEF Counting
<1>10. Counted'
  BY <1>0, <1>1, <1>9 DEF Counted
<1> QED
  BY <1>5, <1>7, <1>8, <1>10 DEF TableInv

\* The end of the close().
LEMMA CloseCountStep == ASSUME TableInv, NEW o \in Objects, CloseCount(o) PROVE TableInv'
<1>0. /\ TypeOK /\ FreshUntouched /\ MappedHasId /\ Phases /\ ReaderHolds /\ Counted
      /\ MaxCreated \in Nat /\ MaxStreams \in Nat
  BY LimitsType DEF TableInv
<1>1. /\ closing[o].pc = "count" /\ closing' = [closing EXCEPT ![o].pc = "done"]
      /\ streamCount' = streamCount - 1
      /\ UNCHANGED <<streams, cache, created, idOf, isOpen, reader>>
  BY DEF CloseCount, CountAfterClose
<1>2. o \in Made /\ Made' = Made /\ Made \subseteq Objects
  BY <1>0, <1>1, ClosingIsMade DEF Made, Objects, TypeOK
<1>3. TypeOK'
  BY <1>0, <1>1 DEF TypeOK
<1>4. FreshUntouched' /\ MappedHasId'
  BY <1>0, <1>1, <1>2 DEF FreshUntouched, MappedHasId, TypeOK
<1>5. Phases' /\ ReaderHolds'
  BY <1>0, <1>1, <1>2 DEF Phases, ReaderHolds, TypeOK
<1>6. Counted'
  <2>1. o \in Counting /\ Counting' = Counting \ {o}
    BY <1>0, <1>1 DEF Counting, TypeOK
  <2>2. Cardinality(Counting') = Cardinality(Counting) - 1
    BY <2>1, CountingLoses
  <2> QED
    BY <1>0, <1>1, <2>2, CountingFinite DEF Counted
<1> QED
  BY <1>3, <1>4, <1>5, <1>6 DEF TableInv

\* The reader takes up or ends its range over the table.
LEMMA RangeStep == ASSUME TableInv, ReaderRange \/ RangeDone PROVE TableInv'
<1>0. /\ TypeOK /\ FreshUntouched /\ MappedHasId /\ Phases /\ ReaderHolds /\ Counted
      /\ MaxCreated \in Nat /\ MaxStreams \in Nat
  BY LimitsType DEF TableInv
<1>1. /\ UNCHANGED <<streams, cache, streamCount, created, idOf, isOpen, closing>>
      /\ reader.pc \in {"idle", "range"} /\ reader'.pc \in {"range", "ended"}
      /\ TypeOK'
  BY <1>0 DEF ReaderRange, RangeDone, RangeFree, Idle, TypeOK
<1>2. FreshUntouched' /\ MappedHasId' /\ Phases' /\ ReaderHolds'
  BY <1>0, <1>1 DEF FreshUntouched, MappedHasId, Phases, ReaderHolds, Made
<1>3. Counted'
  BY <1>0, <1>1 DEF Counted, Counting
<1> QED
  BY <1>1, <1>2, <1>3 DEF TableInv

\* What leaves the streams alone keeps the invariant.
LEMMA OtherStep ==
    ASSUME TableInv,
           UNCHANGED <<streams, cache, streamCount, created, idOf, isOpen, closing, reader>>
    PROVE  TableInv'
BY DEF TableInv, TypeOK, FreshUntouched, MappedHasId, Phases, ReaderHolds, Counted, Counting, Made

\* Every step keeps the inductive invariant.
LEMMA TableStep == TableInv /\ [Next]_vars => TableInv'
<1> SUFFICES ASSUME TableInv, [Next]_vars PROVE TableInv'
  OBVIOUS
<1>1. ASSUME NEW o \in Objects, CloseBegin(o) PROVE TableInv'
  BY <1>1, BeginStep DEF CloseBegin, TableInv, TypeOK
<1>2. ASSUME NEW i \in Ids, RangeClose(i) PROVE TableInv'
  <2>1. streams[i] \in 0..created /\ streams[i] # 0 /\ created \in Nat /\ created <= MaxCreated
    BY <1>2 DEF RangeClose, TableInv, TypeOK
  <2>2. streams[i] \in Objects
    BY <2>1, LimitsType DEF Objects
  <2>3. /\ reader' = [reader EXCEPT !.obj = streams[i]] /\ reader.pc = "range"
        /\ closing[streams[i]].pc = "ready"
        /\ isOpen' = [isOpen EXCEPT ![streams[i]] = FALSE]
        /\ closing' = [closing EXCEPT ![streams[i]].pc = "delete"]
        /\ UNCHANGED <<streams, cache, streamCount, created, idOf>>
    BY <1>2 DEF RangeClose, RangeFree
  <2>4. /\ reader'.pc = reader.pc
        /\ reader' \in [pc : {"idle", "count", "fill", "found", "range", "ended"},
                        id : Ids \cup {0}, obj : 0..created]
    BY <2>1, <2>3 DEF TableInv, TypeOK
  <2> QED
    BY <2>2, <2>3, <2>4, BeginStep
<1>3. ASSUME NEW o \in Objects, CloseStep(o) PROVE TableInv'
  BY <1>3, DeleteStep, UncacheStep, CloseCountStep DEF CloseStep
<1>4. ASSUME \/ ConnectThrottled \/ ConnCloseBegin \/ ConnCloseSocket \/ Finished
             \/ UNCHANGED vars
      PROVE  TableInv'
  BY <1>4, OtherStep DEF ConnectThrottled, ConnCloseBegin, ConnCloseSocket, Finished, vars
<1>5. ASSUME ReaderEof \/ ReaderEnd \/ RangeDone PROVE TableInv'
  BY <1>5, RangeStep DEF ReaderEof, ReaderEnd
<1> QED
  BY <1>1, <1>2, <1>3, <1>4, <1>5, ConnectStoreStep, ConnectCountStep, DataStep
     DEF Next, ReaderStep

-----------------------------------------------------------------------------
(* The theorems.                                                           *)

\* Types are kept: the table, the cache and the reader only ever lead to
\* streams that were made.
THEOREM TableTypeCorrect == Spec => []TypeOK
<1>1. TableInv => TypeOK
  BY DEF TableInv
<1> QED
  BY <1>1, TableInit, TableStep, PTL DEF Spec

\* For any ids and any number of streams, reused ids included, the stream an id
\* leads to is the open one with that id: deleteWispStream, which deletes by id,
\* never removes a newer stream from the table.
THEOREM OpenStreamsAreMapped == Spec => []OpenIsMapped
<1>1. TableInv => OpenIsMapped
  BY LimitsType DEF TableInv, TypeOK, FreshUntouched, Phases, OpenIsMapped, Made, Objects
<1> QED
  BY <1>1, TableInit, TableStep, PTL DEF Spec

\* For any limit, streamCount counts the streams between the Add of
\* handleConnectPacket and that of deleteWispStream, and the table never has
\* more streams than MaxConcurrentStreamsPerConnection.
THEOREM StreamCountIsExact == Spec => []CountIsExact
BY LimitHolds, TableInit, TableStep, PTL DEF Spec

\* A stream on its way out of the cache: from the Delete on, if the reader is not about to cache it.
Leaving(o) ==
    /\ closing[o].pc \in {"look", "swap", "count", "done"}
    /\ ~(reader.pc = "fill" /\ reader.obj = o)
    /\ closing[o].pc = "swap" /\ cache[Slot[idOf[o]]] = o => closing[o].seen = o
    /\ closing[o].pc \in {"count", "done"} => cache[Slot[idOf[o]]] # o

\* No step puts it back: the table does not lead to it any more, so nor does the reader.
LEMMA LeavingStep ==
    ASSUME TableInv, [Next]_vars, NEW o \in Objects, Leaving(o)
    PROVE  Leaving(o)'
<1>0. /\ TypeOK /\ FreshUntouched /\ MappedHasId /\ Phases /\ ReaderHolds
      /\ MaxCreated \in Nat /\ closing[o].pc \in {"look", "swap", "count", "done"}
      /\ ~(reader.pc = "fill" /\ reader.obj = o)
  BY LimitsType DEF TableInv, Leaving
<1>1. /\ o \in Made /\ o \in Nat /\ o # 0 /\ o # created + 1
      /\ idOf[o] \in Ids /\ Slot[idOf[o]] \in Slots
  BY <1>0, ClosingIsMade DEF Made, TypeOK, Objects
<1>2. \A i \in Ids : streams[i] # o
  BY <1>0, <1>1 DEF Phases, MappedHasId
<1>3. ASSUME idOf'[o] = idOf[o], closing'[o] = closing[o], cache' = cache,
             ~(reader'.pc = "fill" /\ reader'.obj = o)
      PROVE  Leaving(o)'
  BY <1>3 DEF Leaving
<1>4. ASSUME NEW i \in Ids, ConnectStore(i) PROVE Leaving(o)'
  <2>1. idOf'[o] = idOf[o] /\ closing' = closing /\ cache' = cache /\ reader'.pc = "count"
    BY <1>0, <1>1, <1>4 DEF ConnectStore, TypeOK
  <2> QED
    BY <1>3, <2>1
<1>5. CASE ConnectCount
  <2>1. closing[reader.obj].pc = "none" /\ reader.obj # o
    BY <1>0, <1>5 DEF ConnectCount, ReaderHolds
  <2>2. idOf' = idOf /\ closing'[o] = closing[o] /\ cache' = cache /\ reader'.pc = "idle"
    BY <1>0, <1>5, <2>1 DEF ConnectCount, Idle, TypeOK
  <2> QED
    BY <1>3, <2>2
<1>6. ASSUME NEW i \in Ids, DataCached(i) \/ DataLoad(i) PROVE Leaving(o)'
  BY <1>2, <1>3, <1>6 DEF DataCached, DataLoad
<1>7. CASE DataFill
  <2>1. /\ reader.obj # o /\ reader'.pc = "found" /\ UNCHANGED <<idOf, closing>>
        /\ cache'[Slot[idOf[o]]] \in {cache[Slot[idOf[o]]], reader.obj}
    BY <1>0, <1>1, <1>7 DEF DataFill, TypeOK
  <2> QED
    BY <2>1 DEF Leaving
<1>8. ASSUME NEW x \in Objects, CloseBegin(x) \/ CloseDelete(x) \/ CloseCount(x) PROVE Leaving(o)'
  <2>1. UNCHANGED <<idOf, cache, reader>>
    BY <1>8 DEF CloseBegin, CloseDelete, CloseCount
  <2>2. CASE x # o
    BY <1>0, <1>3, <1>8, <2>1, <2>2 DEF CloseBegin, CloseDelete, CloseCount, TypeOK
  <2>3. CASE x = o
    <3>1. closing[o].pc = "count" /\ closing' = [closing EXCEPT ![o].pc = "done"]
      BY <1>0, <1>8, <2>3 DEF CloseBegin, CloseDelete, CloseCount
    <3>2. closing'[o].pc = "done"
      BY <1>0, <3>1 DEF TypeOK
    <3> QED
      BY <2>1, <3>1, <3>2 DEF Leaving
  <2> QED
    BY <2>2, <2>3
<1>9. ASSUME NEW x \in Objects, CloseLook(x) PROVE Leaving(o)'
  <2>1. UNCHANGED <<idOf, cache, reader>>
    BY <1>9 DEF CloseLook
  <2>2. CASE x # o
    BY <1>0, <1>3, <1>9, <2>1, <2>2 DEF CloseLook, TypeOK
  <2>3. CASE x = o
    <3>1. closing'[o] = [pc |-> "swap",
                         seen |-> IF CacheHit(idOf[o]) THEN cache[Slot[idOf[o]]] ELSE 0]
      BY <1>0, <1>9, <2>3 DEF CloseLook, TypeOK
    <3>2. cache[Slot[idOf[o]]] = o => closing'[o].seen = o
      BY <1>1, <3>1 DEF CacheHit
    <3> QED
      BY <2>1, <3>1, <3>2 DEF Leaving
  <2> QED
    BY <2>2, <2>3
<1>10. ASSUME NEW x \in Objects, CloseSwap(x) PROVE Leaving(o)'
  <2>1. /\ UNCHANGED <<idOf, reader>> /\ closing'[o].seen = closing[o].seen
        /\ cache' = [cache EXCEPT ![Slot[idOf[x]]] = IF @ = closing[x].seen THEN 0 ELSE @]
    BY <1>0, <1>10 DEF CloseSwap, TypeOK
  <2>2. cache'[Slot[idOf[o]]] \in {0, cache[Slot[idOf[o]]]}
    BY <1>0, <1>1, <2>1 DEF TypeOK
  <2>3. CASE x # o
    <3>1. closing'[o] = closing[o]
      BY <1>0, <1>10, <2>3 DEF CloseSwap, TypeOK
    <3> QED
      BY <1>1, <2>1, <2>2, <3>1 DEF Leaving
  <2>4. CASE x = o
    <3>1. closing[o].pc = "swap" /\ closing'[o].pc = "count"
      BY <1>0, <1>10, <2>4 DEF CloseSwap, TypeOK
    <3>2. cache'[Slot[idOf[o]]] # o
      BY <1>0, <1>1, <2>1, <2>4, <3>1 DEF Leaving, TypeOK
    <3> QED
      BY <2>1, <3>1, <3>2 DEF Leaving
  <2> QED
    BY <2>3, <2>4
<1>11. ASSUME NEW i \in Ids, RangeClose(i) PROVE Leaving(o)'
  <2>1. /\ UNCHANGED <<idOf, cache>> /\ reader'.pc = "range" /\ streams[i] # o
        /\ closing' = [closing EXCEPT ![streams[i]].pc = "delete"]
    BY <1>0, <1>2, <1>11 DEF RangeClose, RangeFree, TypeOK
  <2>2. closing'[o] = closing[o]
    BY <1>0, <2>1 DEF TypeOK
  <2> QED
    BY <1>3, <2>1, <2>2
<1>12. CASE \/ ConnectThrottled \/ ConnCloseBegin \/ ConnCloseSocket \/ Finished \/ UNCHANGED vars
            \/ DataHandle \/ ReaderEof \/ ReaderEnd \/ RangeDone
  <2>1. UNCHANGED <<idOf, cache, closing>> /\ ~(reader'.pc = "fill" /\ reader'.obj = o)
    BY <1>0, <1>12 DEF ConnectThrottled, ConnCloseBegin, ConnCloseSocket, Finished, vars, DataHandle,
                       ReaderEof, ReaderEnd, ReaderRange, RangeDone, Idle, TypeOK
  <2> QED
    BY <1>3, <2>1
<1> QED
  BY <1>4, <1>5, <1>6, <1>7, <1>8, <1>9, <1>10, <1>11, <1>12 DEF Next, ReaderStep, CloseStep

\* For any ids, slots and streams, a stream whose close() has returned is not in the cache, unless
\* handleDataPacket had it in hand, between the table and the cache, when close() looked at the
\* entry (deleteWispStream).
THEOREM ClosedStreamsLeaveCache == Spec => CacheForgets
<1>1. ASSUME NEW o \in Objects
      PROVE  Spec => [](closing[o].pc = "look" /\ ~(reader.pc = "fill" /\ reader.obj = o) =>
                           [](closing[o].pc = "done" => cache[Slot[idOf[o]]] # o))
  <2>1. closing[o].pc = "look" /\ ~(reader.pc = "fill" /\ reader.obj = o) => Leaving(o)
    BY DEF Leaving
  <2>2. Leaving(o) => (closing[o].pc = "done" => cache[Slot[idOf[o]]] # o)
    BY DEF Leaving
  <2>3. TableInv /\ [Next]_vars /\ Leaving(o) => Leaving(o)'
    BY LeavingStep
  <2> QED
    BY <2>1, <2>2, <2>3, TableInit, TableStep, PTL DEF Spec
<1> QED
  BY <1>1 DEF CacheForgets

-----------------------------------------------------------------------------
(* The handshake and the terminals.                                        *)

\* The states of a terminal.
TermStates ==
    [pc : {"free", "starting", "started", "live", "failed"}, id : TermIds \cup {0},
     proc : {"none", "running", "exited", "killed"}, isOpen : BOOLEAN,
     closer : {"none", "remove", "kill", "done"}]

\* Types of the handshake and of the terminals.
SessionTypeOK ==
    /\ shake \in {"pending", "nil"} /\ deadline \in {"none", "armed", "expired"}
    /\ authenticated \in BOOLEAN /\ login \in BOOLEAN /\ opened \in BOOLEAN
    /\ term \in [Terms -> TermStates]
    /\ terminals \in [TermIds -> Terms \cup {None}]

\* The inductive invariant. That a terminal implies a checked password needs
\* that authenticated, on which handleConnect relies, does; that the deadline
\* cannot pass after the handshake needs that the handshake clears it.
LoginInv ==
    /\ SessionTypeOK
    /\ NothingBeforeLogin
    /\ authenticated => login /\ shake = "nil"
    /\ shake = "nil" => deadline = "none"

\* Before the first packet nothing is open and nobody is logged in.
LEMMA LoginInit == SessionInit => LoginInv
<1> SUFFICES ASSUME SessionInit PROVE LoginInv
  OBVIOUS
<1>1. SessionTypeOK
  BY DEF SessionInit, SessionTypeOK, TermStates, NoTerm, FirstDeadline
<1>2. \A t \in Terms : term[t].pc = "free"
  BY DEF SessionInit, NoTerm
<1>3. shake = "nil" => deadline = "none"
  BY DEF SessionInit, FirstDeadline
<1> QED
  BY <1>1, <1>2, <1>3 DEF SessionInit, LoginInv, NothingBeforeLogin

\* A step of the goroutines of the terminals starts no terminal.
LEMMA TermsOnly ==
    ASSUME LoginInv, UNCHANGED <<handshake, opened>>, SessionTypeOK',
           \A t \in Terms : term[t].pc = "free" => term'[t].pc = "free"
    PROVE  LoginInv'
BY DEF LoginInv, NothingBeforeLogin, handshake

\* The first caller of a terminal's close().
LEMMA BeginCloseKeeps ==
    ASSUME SessionTypeOK, NEW t \in Terms, BeginClose(t)
    PROVE  /\ term' \in [Terms -> TermStates]
           /\ \A u \in Terms : term[u].pc = "free" => term'[u].pc = "free"
BY ZenonT(40) DEF SessionTypeOK, TermStates, BeginClose

\* The client's packets.
LEMMA LoginClient == ASSUME LoginInv, Client PROVE LoginInv'
<1>0. SessionTypeOK
  BY DEF LoginInv
<1>1. ASSUME NEW kind \in {"invalid", "anonymous", "wrong", "right"}, InfoAccepted(kind)
      PROVE  LoginInv'
  <2>1. /\ authenticated' = AuthPassed(kind) /\ login' = (login \/ (config.auth /\ kind = "right"))
        /\ deadline' = "none" /\ shake' = "nil" /\ UNCHANGED <<config, opened, term, terminals>>
        /\ shake = "pending"
    BY <1>1 DEF InfoAccepted, Cleared, terms, BeforeHandshake
  <2>2. authenticated' \in BOOLEAN /\ login' \in BOOLEAN /\ (authenticated' => login')
    BY <2>1 DEF AuthPassed
  <2>3. SessionTypeOK'
    BY <1>0, <2>1, <2>2 DEF SessionTypeOK
  <2>4. NothingBeforeLogin'
    BY <2>1 DEF LoginInv, NothingBeforeLogin
  <2> QED
    BY <2>1, <2>2, <2>3, <2>4 DEF LoginInv
<1>2. ASSUME NEW id \in TermIds, NEW t \in Terms, Connect(t, id)
      PROVE  LoginInv'
  <2>1. /\ config.v2 /\ authenticated /\ shake = "nil" /\ UNCHANGED <<handshake, opened, terminals>>
        /\ term' = [term EXCEPT ![t] = [NoTerm EXCEPT !.pc = "starting", !.id = id]]
    BY <1>0, <1>2 DEF Connect, TwispAllowed, Data, BeforeHandshake, SessionTypeOK
  <2>2. SessionTypeOK'
    BY <1>0, <2>1 DEF SessionTypeOK, TermStates, NoTerm, handshake
  <2>3. NothingBeforeLogin'
    BY <2>1 DEF LoginInv, NothingBeforeLogin, handshake
  <2> QED
    BY <2>1, <2>2, <2>3 DEF LoginInv, handshake
<1>3. CASE OpenStream
  <2>1. shake = "nil" /\ opened' = TRUE /\ UNCHANGED <<handshake, term, terminals>>
    BY <1>0, <1>3 DEF OpenStream, Data, BeforeHandshake, SessionTypeOK, terms
  <2> QED
    BY <2>1 DEF LoginInv, NothingBeforeLogin, SessionTypeOK, handshake
<1>4. ASSUME NEW id \in TermIds, DataFails(id)
      PROVE  LoginInv'
  <2>1. terminals[id] \in Terms /\ BeginClose(terminals[id]) /\ UNCHANGED <<handshake, opened, terminals>>
    BY <1>0, <1>4 DEF DataFails, SessionTypeOK
  <2>2. /\ term' \in [Terms -> TermStates]
        /\ \A u \in Terms : term[u].pc = "free" => term'[u].pc = "free"
    BY <1>0, <2>1, BeginCloseKeeps
  <2>3. SessionTypeOK'
    BY <1>0, <2>1, <2>2 DEF SessionTypeOK, handshake
  <2> QED
    BY <2>1, <2>2, <2>3, TermsOnly
<1>5. ASSUME UNCHANGED <<handshake, opened, term, terminals>>
      PROVE  LoginInv'
  BY <1>0, <1>5 DEF LoginInv, NothingBeforeLogin, SessionTypeOK, handshake
<1> QED
  BY <1>1, <1>2, <1>3, <1>4, <1>5
     DEF Client, InfoRefused, Ignored, CloseConnection, ClosePacket, terms

\* The goroutines of a terminal.
LEMMA LoginTerm ==
    ASSUME LoginInv, NEW t \in Terms, TermStep(t) \/ ProcessExits(t) \/ CloseOwn(t)
    PROVE  LoginInv'
<1>0. SessionTypeOK
  BY DEF LoginInv
<1>1. UNCHANGED <<handshake, opened>>
  BY DEF TermStep, ProcessExits, CloseOwn, StartProcess, StartFails, Register, CloseExited,
         CloseAsked, CloseRemove, CloseKill
<1>2. /\ term' \in [Terms -> TermStates]
      /\ \A u \in Terms : term[u].pc = "free" => term'[u].pc = "free"
  <2>1. CASE StartProcess(t) \/ StartFails(t) \/ ProcessExits(t)
    BY <1>0, <2>1 DEF StartProcess, StartFails, ProcessExits, SessionTypeOK, TermStates
  <2>2. CASE Register(t) \/ CloseRemove(t)
    BY <1>0, <2>2 DEF Register, CloseRemove, SessionTypeOK, TermStates
  <2>3. CASE CloseKill(t)
    <3>1. Killed(term[t].proc) \in {"none", "running", "exited", "killed"}
      BY <1>0 DEF Killed, SessionTypeOK, TermStates
    <3> QED
      BY <1>0, <2>3, <3>1, ZenonT(40) DEF CloseKill, SessionTypeOK, TermStates
  <2>4. CASE CloseOwn(t) \/ CloseAsked(t)
    BY <1>0, <2>4, BeginCloseKeeps DEF CloseOwn, CloseAsked, SessionTypeOK
  <2> QED
    BY <2>1, <2>2, <2>3, <2>4 DEF TermStep, CloseExited
<1>3. terminals' \in [TermIds -> Terms \cup {None}]
  BY <1>0 DEF TermStep, ProcessExits, CloseOwn, StartProcess, StartFails, Register, CloseExited,
              CloseAsked, CloseRemove, CloseKill, SessionTypeOK
<1>4. SessionTypeOK'
  BY <1>0, <1>1, <1>2, <1>3 DEF SessionTypeOK, handshake
<1> QED
  BY <1>1, <1>2, <1>4, TermsOnly

\* Every step keeps the invariant.
LEMMA LoginStep == LoginInv /\ [SessionNext]_sessionVars => LoginInv'
<1> SUFFICES ASSUME LoginInv, [SessionNext]_sessionVars PROVE LoginInv'
  OBVIOUS
<1>0. SessionTypeOK
  BY DEF LoginInv
<1>1. CASE Deadline
  BY <1>1 DEF Deadline, LoginInv, NothingBeforeLogin, SessionTypeOK, terms
<1>2. ASSUME UNCHANGED <<handshake, opened, term, terminals>>
      PROVE  LoginInv'
  BY <1>0, <1>2 DEF LoginInv, NothingBeforeLogin, SessionTypeOK, handshake
<1>3. ASSUME NEW t \in Terms, SweepClose(t)
      PROVE  LoginInv'
  <2>1. UNCHANGED <<handshake, opened, terminals>>
    BY <1>3 DEF SweepClose
  <2>2. CASE term[t].isOpen
    <3>1. BeginClose(t)
      BY <1>3, <2>2 DEF SweepClose
    <3>2. \A u \in Terms : term[u].pc = "free" => term'[u].pc = "free"
      BY <1>0, <3>1, BeginCloseKeeps
    <3>3. SessionTypeOK'
      BY <1>0, <2>1, <3>1, BeginCloseKeeps DEF SessionTypeOK, handshake
    <3> QED
      BY <2>1, <3>2, <3>3, TermsOnly
  <2>3. CASE ~term[t].isOpen
    BY <1>2, <1>3, <2>3 DEF SweepClose
  <2> QED
    BY <2>2, <2>3
<1>4. CASE \/ CloseElsewhere \/ ReadEnds \/ ReadFails \/ SweepBegin \/ SweepEnd
           \/ Closed \/ UNCHANGED sessionVars
  BY <1>2, <1>4 DEF CloseElsewhere, ReadEnds, ReadFails, SweepBegin, SweepEnd,
                    Closed, sessionVars, terms
<1> QED
  BY <1>1, <1>3, <1>4, LoginClient, LoginTerm DEF SessionNext, End

\* On a v2 connection no stream is opened before the handshake is over and no
\* process starts for a client whose password was not checked.
THEOREM LoginComesFirst == SessionSpec => []NothingBeforeLogin
<1>1. LoginInv => NothingBeforeLogin
  BY DEF LoginInv
<1> QED
  BY <1>1, LoginInit, LoginStep, PTL DEF SessionSpec

\* The read deadline of the handshake never cuts off a client that completed
\* it: handleInfo clears it before it lets packets through, and the read that
\* could fail at the deadline is the one that brings the INFO packet.
THEOREM DeadlineEndsWithHandshake ==
    SessionSpec => [][shake = "nil" /\ rpc = "read" /\ rpc' = "end" => deadline # "expired"]_sessionVars
<1>1. LoginInv => (shake = "nil" => deadline # "expired")
  BY DEF LoginInv
<1>2. LoginInv /\ [SessionNext]_sessionVars =>
        [shake = "nil" /\ rpc = "read" /\ rpc' = "end" => deadline # "expired"]_sessionVars
  BY <1>1
<1> QED
  BY <1>2, LoginInit, LoginStep, PTL DEF SessionSpec
=============================================================================
