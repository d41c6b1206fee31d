---------------------------- MODULE DecoderProofs ----------------------------
(***************************************************************************)
(* Proofs about Decoder.  A tuple decoded with the layout it was encoded   *)
(* with gives back the row; so what is left to show is that the cached     *)
(* layout is the one last described whenever a change is read at the right *)
(* offsets, and that the offsets are wrong only after a connection was     *)
(* lost inside a chunk.                                                    *)
(***************************************************************************)
EXTENDS Decoder, TLAPS

ServerType ==
    /\ described \in [Rels -> Layouts \cup {Missing}]
    /\ stream_sent \in [Xids -> SUBSET Rels]
    /\ announced \subseteq Rels
    /\ bracket \in Xids \cup {Missing}

ClientType ==
    /\ relations \in [Rels -> Layouts \cup {Missing}]
    /\ outcome \in {"faithful", "failed", "differs"}

FlagType == cut \in BOOLEAN /\ streaming_active \in BOOLEAN

\* The Decoder disagrees with the walsender about the xid prefix exactly from a
\* drop inside a chunk to the next chunk, and never within a chunk.
MisframedOnlyCut ==
    /\ bracket # Missing => streaming_active /\ ~cut
    /\ bracket = Missing => (streaming_active <=> cut)

\* Read at the right offsets, every Relation of the connection is in the cache;
\* read at the wrong ones, every Relation still has its change to come, which
\* ends the process.
CacheFollows ==
    /\ ~cut => \A r \in Rels : described[r] # Missing => relations[r] = described[r]
    /\ cut => \A r \in Rels : described[r] # Missing => r \in announced

\* A decoder that raised is replaced before it reads anything else.
Synchronised == Running => MisframedOnlyCut /\ CacheFollows

DecoderInv ==
    /\ ServerType /\ ClientType /\ FlagType
    /\ Synchronised /\ DecodedFaithfully /\ FailsOnlyWhenCut

-----------------------------------------------------------------------------
(* Tuples *)

\* The columns of a layout have distinct names, at the positions 1..n.
LEMMA ColumnFacts ==
    ASSUME NEW l \in Layouts
    PROVE  /\ l.columns \in Seq(STRING)
           /\ DOMAIN l.columns = 1..Len(l.columns) /\ Len(l.columns) \in Nat
           /\ Names(l) = {l.columns[i] : i \in DOMAIN l.columns}
           /\ l.keys \subseteq Names(l)
           /\ \A i, j \in DOMAIN l.columns : l.columns[i] = l.columns[j] => i = j
<1>1. /\ l.columns \in Seq(STRING) /\ l.keys \subseteq ToSet(l.columns)
      /\ \A i, j \in DOMAIN l.columns : l.columns[i] = l.columns[j] => i = j
  BY LayoutAssumption
<1>2. ToSet(l.columns) = {l.columns[i] : i \in DOMAIN l.columns}
  BY DEF ToSet
<1>. QED  BY <1>1, <1>2 DEF Names

\* A tuple has one cell per column.
LEMMA CellsFit ==
    ASSUME NEW l \in Layouts, NEW row, NEW omitted, NEW nulled
    PROVE  Fits(Cells(l, row, omitted, nulled), l.columns)
<1>. DEFINE c == Cells(l, row, omitted, nulled)
<1>1. DOMAIN c = 1..Len(l.columns)
  BY ColumnFacts DEF Cells
<1>2. c \in Seq({c[i] : i \in 1..Len(l.columns)})
  <2>1. c = [i \in 1..Len(l.columns) |-> c[i]]
    BY <1>1 DEF Cells
  <2>. HIDE DEF c
  <2>2. c \in [1..Len(l.columns) -> {c[i] : i \in 1..Len(l.columns)}]
    BY <2>1
  <2>. QED  BY <2>2, ColumnFacts
<1>3. Len(c) = Len(l.columns)
  BY <1>1, <1>2, ColumnFacts
<1>. QED  BY <1>3 DEF Fits

\* What a cell carries.
LEMMA CellFacts ==
    ASSUME NEW v
    PROVE  /\ Cell(v).marker # "u"
           /\ (IF Cell(v).marker = "n" THEN Null ELSE Cell(v).value) = v
  BY DEF Cell

\* The columns of a row that a tuple carries.
Carried(l, row, omitted, nulled) ==
    [n \in Names(l) \ omitted |-> IF n \in nulled THEN Null ELSE row[n]]

\* Decoding with the layout of the row gives back the columns that were sent.
LEMMA DecodeCells ==
    ASSUME NEW l \in Layouts, NEW row, NEW omitted, NEW nulled
    PROVE  DecodeTupleData(Cells(l, row, omitted, nulled), l.columns) =
             Carried(l, row, omitted, nulled)
<1>. DEFINE c == Cells(l, row, omitted, nulled)
            cols == l.columns
            sent == {i \in DOMAIN c : c[i].marker # "u"}
            At(n) == CHOOSE j \in sent : cols[j] = n
            Value(i) == IF c[i].marker = "n" THEN Null ELSE c[i].value
<1>1. DOMAIN c = DOMAIN cols
  BY DEF Cells
<1>2. ASSUME NEW i \in DOMAIN cols
      PROVE  /\ cols[i] \in omitted => c[i].marker = "u"
             /\ cols[i] \notin omitted =>
                  /\ c[i].marker # "u"
                  /\ Value(i) = IF cols[i] \in nulled THEN Null ELSE row[cols[i]]
  <2>1. c[i] = IF cols[i] \in omitted THEN [marker |-> "u"]
               ELSE IF cols[i] \in nulled THEN [marker |-> "n"] ELSE Cell(row[cols[i]])
    BY DEF Cells
  <2>2. CASE cols[i] \in omitted
    BY <2>1, <2>2
  <2>3. CASE cols[i] \notin omitted /\ cols[i] \in nulled
    BY <2>1, <2>3
  <2>4. CASE cols[i] \notin omitted /\ cols[i] \notin nulled
    <3>1. c[i] = Cell(row[cols[i]])
      BY <2>1, <2>4
    <3>. QED  BY <2>4, <3>1, CellFacts
  <2>. QED  BY <2>2, <2>3, <2>4
<1>3. {cols[i] : i \in sent} = Names(l) \ omitted
  BY <1>1, <1>2, ColumnFacts
<1>4. ASSUME NEW n \in Names(l) \ omitted
      PROVE  Value(At(n)) = IF n \in nulled THEN Null ELSE row[n]
  <2>1. \E j \in sent : cols[j] = n
    BY <1>3
  <2>2. At(n) \in sent /\ cols[At(n)] = n
    BY <2>1
  <2>3. At(n) \in DOMAIN cols
    BY <1>1, <2>2
  <2>. QED  BY <1>2, <1>4, <2>2, <2>3
<1>5. DecodeTupleData(c, cols) = [n \in {cols[i] : i \in sent} |-> Value(At(n))]
  BY DEF DecodeTupleData
<1>. HIDE DEF c, sent, At, Value
<1>6. DecodeTupleData(c, cols) = Carried(l, row, omitted, nulled)
  BY <1>3, <1>4, <1>5 DEF Carried
<1>. QED  BY <1>6 DEF c

\* A tuple that leaves nothing out gives back the whole row.
LEMMA WholeCells ==
    ASSUME NEW l \in Layouts, NEW row
    PROVE  DecodeTupleData(Cells(l, row, {}, {}), l.columns) = [n \in Names(l) |-> row[n]]
<1>1. DecodeTupleData(Cells(l, row, {}, {}), l.columns) = Carried(l, row, {}, {})
  BY DecodeCells
<1>. QED  BY <1>1 DEF Carried

-----------------------------------------------------------------------------
(* Changes *)

\* A row is a function on the columns of its layout.
LEMMA RowFacts ==
    ASSUME NEW l \in Layouts, NEW row \in RowsOf(l)
    PROVE  row = [n \in Names(l) |-> row[n]]
  BY DEF RowsOf

\* An old tuple comes out as the image the application should see.
LEMMA OldDecodes ==
    ASSUME NEW l \in Layouts, NEW row \in RowsOf(l), NEW key_needed \in BOOLEAN
    PROVE  LET marker == OldMarker(l, key_needed)
           IN  DecodeOld(marker, OldCells(l, row), l) = OldImage(l, row, marker)
<1>0. l.keys \subseteq Names(l) /\ row = [n \in Names(l) |-> row[n]]
  BY ColumnFacts, RowFacts
<1>1. CASE l.full
  <2>1. DecodeTupleData(OldCells(l, row), l.columns) = [n \in Names(l) |-> row[n]]
    BY <1>1, WholeCells DEF OldCells
  <2>2. DecodeTupleData(OldCells(l, row), l.columns) = row
    BY <1>0, <2>1
  <2>. QED  BY <1>1, <2>2 DEF OldMarker, DecodeOld, OldImage
<1>2. CASE ~l.full /\ key_needed
  <2>1. DecodeTupleData(OldCells(l, row), l.columns) =
          Carried(l, row, {}, Names(l) \ l.keys)
    BY <1>2, DecodeCells DEF OldCells
  <2>2. Only(DecodeTupleData(OldCells(l, row), l.columns), l.keys) = Only(row, l.keys)
    BY <1>0, <2>1 DEF Only, Carried
  <2>. QED  BY <1>2, <2>2 DEF OldMarker, DecodeOld, OldImage
<1>3. CASE ~l.full /\ ~key_needed
  BY <1>3 DEF OldMarker, DecodeOld, OldImage
<1>. QED  BY <1>1, <1>2, <1>3

\* With the right layout in the cache an insert is decoded as it was made.
LEMMA InsertDecodes ==
    ASSUME NEW r \in Rels, NEW l \in Layouts, relations[r] = l, NEW row \in RowsOf(l)
    PROVE  LET m == [kind |-> "I", rel |-> r, marker |-> "none",
                     old |-> <<>>, new |-> Cells(l, row, {}, {})]
           IN  /\ ~ChangeRaises(m)
               /\ DecodeChange(m) = [kind |-> "I", table |-> l.name,
                                     old |-> Missing, new |-> row]
<1>1. DecodeTupleData(Cells(l, row, {}, {}), l.columns) = [n \in Names(l) |-> row[n]]
  BY WholeCells
<1>2. DecodeTupleData(Cells(l, row, {}, {}), l.columns) = row
  BY <1>1, RowFacts
<1>3. Fits(Cells(l, row, {}, {}), l.columns) /\ Known(r)
  BY CellsFit, MissingAssumption DEF Known
<1>. QED  BY <1>2, <1>3 DEF ChangeRaises, DecodeChange, DecodeOld

\* An update as it is sent and as it should be seen; k: its key changed.
UpdateMessage(r, l, old, new, unchanged, k) ==
    [kind |-> "U", rel |-> r, marker |-> OldMarker(l, k),
     old |-> OldCells(l, old), new |-> Cells(l, new, unchanged, {})]

UpdateImage(l, old, new, unchanged, k) ==
    [kind |-> "U", table |-> l.name, old |-> OldImage(l, old, OldMarker(l, k)),
     new |-> Only(new, Names(l) \ unchanged)]

\* So is an update, whatever old tuple it carries and whatever it leaves out.
LEMMA UpdateDecodes ==
    ASSUME NEW r \in Rels, NEW l \in Layouts, relations[r] = l,
           NEW old \in RowsOf(l), NEW new \in RowsOf(l), NEW unchanged,
           NEW key_needed \in BOOLEAN
    PROVE  /\ ~ChangeRaises(UpdateMessage(r, l, old, new, unchanged, key_needed))
           /\ DecodeChange(UpdateMessage(r, l, old, new, unchanged, key_needed))
                = UpdateImage(l, old, new, unchanged, key_needed)
<1>1. DecodeTupleData(Cells(l, new, unchanged, {}), l.columns) =
        Carried(l, new, unchanged, {})
  BY DecodeCells
<1>2. DecodeTupleData(Cells(l, new, unchanged, {}), l.columns) =
        Only(new, Names(l) \ unchanged)
  BY <1>1 DEF Only, Carried
<1>3. Fits(Cells(l, new, unchanged, {}), l.columns) /\ Known(r)
  BY CellsFit, MissingAssumption DEF Known
<1>4. Fits(OldCells(l, old), l.columns)
  BY CellsFit DEF OldCells
<1>5. DecodeOld(OldMarker(l, key_needed), OldCells(l, old), l)
        = OldImage(l, old, OldMarker(l, key_needed))
  BY OldDecodes
<1>. QED
  BY <1>2, <1>3, <1>4, <1>5
  DEF ChangeRaises, DecodeChange, UpdateMessage, UpdateImage

\* And a delete.
LEMMA DeleteDecodes ==
    ASSUME NEW r \in Rels, NEW l \in Layouts, relations[r] = l, NEW old \in RowsOf(l)
    PROVE  LET marker == OldMarker(l, TRUE)
               m == [kind |-> "D", rel |-> r, marker |-> marker,
                     old |-> OldCells(l, old), new |-> <<>>]
           IN  /\ ~ChangeRaises(m)
               /\ DecodeChange(m) = [kind |-> "D", table |-> l.name,
                                     old |-> OldImage(l, old, marker), new |-> Missing]
<1>1. Fits(OldCells(l, old), l.columns) /\ Known(r)
  BY CellsFit, MissingAssumption DEF OldCells, Known
<1>2. DecodeOld(OldMarker(l, TRUE), OldCells(l, old), l)
        = OldImage(l, old, OldMarker(l, TRUE))
  BY OldDecodes
<1>. QED  BY <1>1, <1>2 DEF ChangeRaises, DecodeChange

\* A change is read at the right offsets unless the connection was cut.
LEMMA FramedUnlessCut ==
    ASSUME FlagType, MisframedOnlyCut
    PROVE  Framed <=> ~cut
  BY DEF FlagType, MisframedOnlyCut, Framed

\* A change that a decoder at the right offsets decodes as it was made.
LEMMA ChangeStep ==
    ASSUME DecoderInv, NEW rels, Changes(rels),
           NEW raises, NEW decoded, NEW image, Judge(raises, decoded, image),
           ~cut => ~raises /\ decoded = image
    PROVE  DecoderInv'
<1>1. Running /\ MisframedOnlyCut /\ CacheFollows
  BY DEF Changes, DecoderInv, Synchronised
<1>2. Framed <=> ~cut
  BY <1>1, FramedUnlessCut DEF DecoderInv
<1>3. announced' = {}
  BY DEF Changes
<1>4. /\ UNCHANGED <<described, stream_sent, bracket, cut>>
      /\ UNCHANGED <<relations, streaming_active>>
  BY DEF Changes, decoderVars
<1>5. CASE cut
  <2>1. outcome' = "failed"
    BY <1>2, <1>5 DEF Judge
  <2>. QED
    BY <1>3, <1>4, <1>5, <2>1
    DEF DecoderInv, ServerType, ClientType, FlagType, Synchronised, Running,
        DecodedFaithfully, FailsOnlyWhenCut
<1>6. CASE ~cut
  <2>1. outcome' = "faithful"
    BY <1>2, <1>6 DEF Judge
  <2>2. MisframedOnlyCut' /\ CacheFollows'
    BY <1>1, <1>4, <1>6 DEF MisframedOnlyCut, CacheFollows
  <2>. QED
    BY <1>3, <1>4, <2>1, <2>2
    DEF DecoderInv, ServerType, ClientType, FlagType, Synchronised,
        DecodedFaithfully, FailsOnlyWhenCut
<1>. QED  BY <1>5, <1>6

\* The layout in the cache is the one the row was written with.
LEMMA CachedLayout ==
    ASSUME DecoderInv, Running, ~cut, NEW r \in Rels, NEW l \in Layouts,
           Described(r, l)
    PROVE  relations[r] = l
  BY MissingAssumption DEF DecoderInv, Synchronised, CacheFollows, Described

\* Every row message of Decoder preserves the invariant.
LEMMA RowSteps ==
    ASSUME DecoderInv, NEW r \in Rels, NEW l \in Layouts,
           SendInsert(r, l) \/ SendUpdate(r, l) \/ SendDelete(r, l)
    PROVE  DecoderInv'
<1>1. Running /\ Changes({r}) /\ Described(r, l)
  BY DEF SendInsert, SendUpdate, SendDelete, Changes
<1>2. ~cut => relations[r] = l
  BY <1>1, CachedLayout
<1>3. CASE SendInsert(r, l)
  <2>. DEFINE m(new) == [kind |-> "I", rel |-> r, marker |-> "none",
                         old |-> <<>>, new |-> Cells(l, new, {}, {})]
              image(new) == [kind |-> "I", table |-> l.name,
                             old |-> Missing, new |-> new]
  <2>1. PICK new \in RowsOf(l) : JudgeChange(m(new), image(new))
    BY <1>3 DEF SendInsert
  <2>2. ~cut => ~ChangeRaises(m(new)) /\ DecodeChange(m(new)) = image(new)
    BY <1>2, InsertDecodes
  <2>. HIDE DEF m, image
  <2>. QED  BY <1>1, <2>1, <2>2, ChangeStep DEF JudgeChange
<1>4. CASE SendUpdate(r, l)
  <2>. DEFINE changed(old, new) == Only(old, l.keys) # Only(new, l.keys)
  <2>1. PICK old \in RowsOf(l), new \in RowsOf(l) :
          \E unchanged \in Unchanged(l, old, new) :
             JudgeChange(UpdateMessage(r, l, old, new, unchanged, changed(old, new)),
                         UpdateImage(l, old, new, unchanged, changed(old, new)))
    BY <1>4 DEF SendUpdate, UpdateMessage, UpdateImage
  <2>2. PICK k \in BOOLEAN : k = changed(old, new)
    OBVIOUS
  <2>3. PICK unchanged \in Unchanged(l, old, new) :
          JudgeChange(UpdateMessage(r, l, old, new, unchanged, k),
                      UpdateImage(l, old, new, unchanged, k))
    BY <2>1, <2>2
  <2>4. ~cut => /\ ~ChangeRaises(UpdateMessage(r, l, old, new, unchanged, k))
                /\ DecodeChange(UpdateMessage(r, l, old, new, unchanged, k))
                     = UpdateImage(l, old, new, unchanged, k)
    BY <1>2, UpdateDecodes
  <2>. QED  BY <1>1, <2>3, <2>4, ChangeStep DEF JudgeChange
<1>5. CASE SendDelete(r, l)
  <2>. DEFINE marker == OldMarker(l, TRUE)
              m(old) == [kind |-> "D", rel |-> r, marker |-> marker,
                         old |-> OldCells(l, old), new |-> <<>>]
              image(old) == [kind |-> "D", table |-> l.name,
                             old |-> OldImage(l, old, marker), new |-> Missing]
  <2>1. PICK old \in RowsOf(l) : JudgeChange(m(old), image(old))
    BY <1>5 DEF SendDelete
  <2>2. ~cut => ~ChangeRaises(m(old)) /\ DecodeChange(m(old)) = image(old)
    BY <1>2, DeleteDecodes
  <2>. HIDE DEF m, image
  <2>. QED  BY <1>1, <2>1, <2>2, ChangeStep DEF JudgeChange
<1>. QED  BY <1>3, <1>4, <1>5

\* A truncation names the tables as they were described.
LEMMA TruncateStep ==
    ASSUME DecoderInv, NEW rels \in Orders, NEW ls \in [DOMAIN rels -> Layouts],
           SendTruncate(rels, ls)
    PROVE  DecoderInv'
<1>1. Running /\ Changes(ToSet(rels))
  BY DEF SendTruncate, Changes
<1>2. \A i \in DOMAIN rels : rels[i] \in Rels
  BY DEF Orders
<1>3. ASSUME ~cut, NEW i \in DOMAIN rels
      PROVE  relations[rels[i]] = ls[i] /\ ls[i] \in Layouts
  BY <1>1, <1>2, <1>3, CachedLayout DEF SendTruncate
<1>4. ~cut => ~TruncateRaises(rels)
  BY <1>3, MissingAssumption DEF TruncateRaises, Known
<1>5. ~cut => DecodeTruncate(rels) = [i \in DOMAIN rels |-> ls[i].name]
  BY <1>3 DEF DecodeTruncate
<1>6. PICK raises, decoded, image :
        /\ Judge(raises, decoded, image)
        /\ ~cut => ~raises /\ decoded = image
  BY <1>4, <1>5 DEF SendTruncate
<1>. QED  BY <1>1, <1>6, ChangeStep

\* A Relation goes to the cache when it is read at the right offsets; read at
\* the wrong ones it is announced and its change is still to come.
LEMMA RelationStep ==
    ASSUME DecoderInv, NEW r \in Rels, NEW l \in Layouts, SendRelation(r, l)
    PROVE  DecoderInv'
<1>1. Running /\ MisframedOnlyCut /\ CacheFollows
  BY DEF SendRelation, DecoderInv, Synchronised
<1>2. Framed <=> ~cut
  BY <1>1, FramedUnlessCut DEF DecoderInv
<1>3. ServerType'
  BY DEF SendRelation, DecoderInv, ServerType
<1>4. /\ UNCHANGED <<bracket, cut, streaming_active>>
      /\ described' = [described EXCEPT ![r] = l]
      /\ announced' = announced \cup {r}
  BY DEF SendRelation
<1>5. FlagType' /\ MisframedOnlyCut'
  BY <1>1, <1>4 DEF DecoderInv, FlagType, MisframedOnlyCut
<1>6. CASE ~cut
  <2>1. relations' = [relations EXCEPT ![r] = l] /\ outcome' = "faithful"
    BY <1>2, <1>6 DEF SendRelation, Cache
  <2>2. CacheFollows'
    BY <1>1, <1>4, <1>6, <2>1
    DEF CacheFollows, DecoderInv, ServerType, ClientType
  <2>3. ClientType'
    BY <2>1 DEF DecoderInv, ClientType
  <2>. QED
    BY <1>3, <1>5, <2>1, <2>2, <2>3
    DEF DecoderInv, Synchronised, DecodedFaithfully, FailsOnlyWhenCut
<1>7. CASE cut
  <2>1. UNCHANGED relations /\ outcome' \in {"faithful", "failed"}
    BY <1>2, <1>7 DEF SendRelation
  <2>2. CacheFollows'
    BY <1>1, <1>4, <1>7 DEF CacheFollows, DecoderInv, ServerType
  <2>3. ClientType'
    BY <2>1 DEF DecoderInv, ClientType
  <2>. QED
    BY <1>3, <1>4, <1>5, <1>7, <2>1, <2>2, <2>3
    DEF DecoderInv, Synchronised, DecodedFaithfully, FailsOnlyWhenCut
<1>. QED  BY <1>6, <1>7 DEF DecoderInv, FlagType

\* A chunk starts when no change is to come: whatever the offsets were before,
\* nothing described is missing from the cache.
LEMMA ChunkSteps ==
    ASSUME DecoderInv,
           (\E x \in Xids : StreamStart(x) \/ StreamEnd(x)) \/ StreamStop
    PROVE  DecoderInv'
<1>0. Running /\ MisframedOnlyCut /\ CacheFollows /\ announced = {}
  BY DEF StreamStart, StreamEnd, StreamStop, DecoderInv, Synchronised
<1>1. \A r \in Rels : described[r] # Missing => relations[r] = described[r]
  BY <1>0 DEF CacheFollows, DecoderInv, FlagType
<1>2. outcome' = "faithful" /\ UNCHANGED <<described, announced, relations>>
  BY DEF StreamStart, StreamEnd, StreamStop, decoderVars
<1>3. ServerType' /\ ClientType'
  BY <1>2
  DEF StreamStart, StreamEnd, StreamStop, DecoderInv, ServerType, ClientType
<1>4. FlagType'
  BY DEF StreamStart, StreamEnd, StreamStop, DecoderInv, FlagType, decoderVars
<1>5. MisframedOnlyCut'
  <2>1. CASE StreamStop
    BY <1>0, <2>1 DEF StreamStop, MisframedOnlyCut
  <2>2. CASE \E x \in Xids : StreamEnd(x)
    BY <1>0, <2>2 DEF StreamEnd, MisframedOnlyCut, decoderVars
  <2>3. CASE \E x \in Xids : StreamStart(x)
    BY <1>0, <2>3, MissingAssumption DEF StreamStart, MisframedOnlyCut
  <2>. QED  BY <2>1, <2>2, <2>3
<1>6. CacheFollows'
  <2>1. \A r \in Rels : described'[r] # Missing => relations'[r] = described'[r]
    BY <1>1, <1>2
  <2>2. cut' => cut
    BY DEF StreamStart, StreamEnd, StreamStop
  <2>. QED  BY <1>0, <1>2, <2>1, <2>2 DEF CacheFollows
<1>. QED
  BY <1>2, <1>3, <1>4, <1>5, <1>6
  DEF DecoderInv, Synchronised, DecodedFaithfully, FailsOnlyWhenCut

\* A new walsender has described nothing, to the old decoder or to a new one.
LEMMA ConnectionSteps ==
    ASSUME DecoderInv, Drop \/ Restart
    PROVE  DecoderInv'
<1>1. /\ described' = [r \in Rels |-> Missing] /\ stream_sent' = [x \in Xids |-> {}]
      /\ announced' = {} /\ bracket' = Missing
  BY DEF Drop, Restart, NewConnection
<1>2. ServerType' /\ CacheFollows'
  BY <1>1 DEF ServerType, CacheFollows
<1>3. CASE Drop
  <2>1. Running /\ MisframedOnlyCut
    BY <1>3 DEF Drop, DecoderInv, Synchronised
  <2>2. cut' = (cut \/ bracket # Missing) /\ UNCHANGED <<relations, streaming_active, outcome>>
    BY <1>3 DEF Drop, decoderVars
  <2>3. FlagType' /\ ClientType' /\ MisframedOnlyCut'
    BY <1>1, <2>1, <2>2 DEF DecoderInv, FlagType, ClientType, MisframedOnlyCut
  <2>. QED
    BY <1>2, <2>1, <2>2, <2>3
    DEF DecoderInv, Synchronised, DecodedFaithfully, FailsOnlyWhenCut, Running
<1>4. CASE Restart
  <2>1. /\ relations' = [r \in Rels |-> Missing] /\ outcome' = "faithful"
        /\ cut' = FALSE /\ streaming_active' = FALSE
    BY <1>4 DEF Restart
  <2>2. FlagType' /\ ClientType' /\ MisframedOnlyCut'
    BY <1>1, <2>1 DEF FlagType, ClientType, MisframedOnlyCut
  <2>. QED
    BY <1>2, <2>1, <2>2
    DEF DecoderInv, Synchronised, DecodedFaithfully, FailsOnlyWhenCut
<1>. QED  BY <1>3, <1>4

\* Every step of Decoder preserves the invariant.
LEMMA NextDecoder == DecoderInv /\ [Next]_vars => DecoderInv'
<1>. SUFFICES ASSUME DecoderInv, [Next]_vars PROVE DecoderInv'
  OBVIOUS
<1>1. CASE UNCHANGED vars
  BY <1>1
  DEF vars, serverVars, decoderVars, DecoderInv, ServerType, ClientType, FlagType,
      Synchronised, Running, MisframedOnlyCut, CacheFollows, DecodedFaithfully,
      FailsOnlyWhenCut
<1>2. CASE SendUnactionable
  <2>1. Running /\ (Framed <=> ~cut) /\ UNCHANGED <<serverVars, decoderVars>>
    BY <1>2, FramedUnlessCut DEF SendUnactionable, DecoderInv, Synchronised
  <2>2. outcome' \in {"faithful", "failed"} /\ (outcome' = "failed" => cut)
    BY <1>2, <2>1 DEF SendUnactionable
  <2>. QED
    BY <2>1, <2>2
    DEF serverVars, decoderVars, DecoderInv, ServerType, ClientType, FlagType,
        Synchronised, Running, MisframedOnlyCut, CacheFollows, DecodedFaithfully,
        FailsOnlyWhenCut
<1>3. CASE \E r \in Rels, l \in Layouts :
             SendRelation(r, l) \/ SendInsert(r, l) \/ SendUpdate(r, l) \/ SendDelete(r, l)
  BY <1>3, RowSteps, RelationStep
<1>4. CASE \E rels \in Orders : \E ls \in [DOMAIN rels -> Layouts] : SendTruncate(rels, ls)
  BY <1>4, TruncateStep
<1>5. CASE (\E x \in Xids : StreamStart(x) \/ StreamEnd(x)) \/ StreamStop
  BY <1>5, ChunkSteps
<1>6. CASE Drop \/ Restart
  BY <1>6, ConnectionSteps
<1>. QED  BY <1>1, <1>2, <1>3, <1>4, <1>5, <1>6 DEF Next

\* The invariant holds in every reachable state.
LEMMA DecoderInvariant == Spec => []DecoderInv
<1>1. Init => DecoderInv
  BY DEF Init, DecoderInv, ServerType, ClientType, FlagType, Synchronised,
         MisframedOnlyCut, CacheFollows, DecodedFaithfully, FailsOnlyWhenCut
<1>. QED  BY <1>1, NextDecoder, PTL DEF Spec

(* Every change the Decoder returns is the change that was made: for any tables,
   layouts and values, through altered tables, retransmissions in an older
   layout, key-only old tuples, omitted TOAST values and a relation cache that
   outlives its connection. *)
THEOREM ChangesFaithful == Spec => []DecodedFaithfully
<1>1. DecoderInv => DecodedFaithfully
  BY DEF DecoderInv
<1>. QED  BY <1>1, DecoderInvariant, PTL

(* Decoding fails only after a connection was lost inside a chunk. *)
THEOREM CutBeforeFailure == Spec => []FailsOnlyWhenCut
<1>1. DecoderInv => FailsOnlyWhenCut
  BY DEF DecoderInv
<1>. QED  BY <1>1, DecoderInvariant, PTL
=============================================================================
