------------------------------- MODULE Decoder -------------------------------
(***************************************************************************)
(* Decoder and RelationCache (walbox/pgoutput.py): rows arrive as tuples   *)
(* of cells without names, and are resolved with the Relation message last *)
(* seen for their table; inside a stream bracket every message carries an  *)
(* xid that shifts all other fields.                                       *)
(*                                                                         *)
(* The walsender is external.  It sends a Relation before the first row of *)
(* a table on a connection, before its first row in a streamed             *)
(* transaction, and whenever the layout a row was written with is not the  *)
(* one it described last.  A row may come in any layout the table has or   *)
(* had: a retransmission goes back to an older one, a transaction in       *)
(* progress may have altered the table for itself.  Each message is        *)
(* decoded when it is sent, as only the order of the messages matters.     *)
(***************************************************************************)
EXTENDS Integers, Sequences, SequencesExt

CONSTANTS
    Rels,       \* relation OIDs
    Layouts,    \* the layouts a table goes through
    Xids,       \* streamed transactions
    KeyValues, Values,  \* values of key and of other columns
    Null, Missing

\* A layout: qualified name, column names, key columns, REPLICA IDENTITY FULL.
ASSUME LayoutAssumption ==
    \A l \in Layouts :
        /\ l.columns \in Seq(STRING)
        /\ l.keys \subseteq ToSet(l.columns) /\ l.full \in BOOLEAN
        /\ \A i, j \in DOMAIN l.columns : l.columns[i] = l.columns[j] => i = j
ASSUME MissingAssumption == Missing \notin Layouts \cup Xids

VARIABLES
    \* walsender
    described,        \* the layout last described for each table
    stream_sent,      \* the tables described within each streamed transaction
    announced,        \* the tables described since the last change
    bracket,          \* the transaction whose chunk is open
    cut,              \* the last connection was lost inside a chunk
    \* Decoder
    relations,        \* _relations
    streaming_active, \* _streaming_active
    outcome           \* what became of the last message

serverVars == <<described, stream_sent, announced, bracket, cut>>
decoderVars == <<relations, streaming_active>>
vars == <<serverVars, decoderVars, outcome>>

-----------------------------------------------------------------------------
(* Rows, and what pgoutput makes of them (external) *)

Names(l) == ToSet(l.columns)

RowsOf(l) ==
    {row \in [Names(l) -> KeyValues \cup Values \cup {Null}] :
        \A n \in Names(l) :
            row[n] \in IF n \in l.keys THEN KeyValues ELSE Values \cup {Null}}

Only(row, names) == [n \in names |-> row[n]]

\* The columns of an updated row whose values are TOASTed and unchanged.
Unchanged(l, old, new) == SUBSET {n \in Names(l) \ l.keys : old[n] = new[n] /\ new[n] # Null}

Cell(v) == IF v = Null THEN [marker |-> "n"] ELSE [marker |-> "t", value |-> v]

Cells(l, row, omitted, nulled) ==
    [i \in DOMAIN l.columns |->
        LET n == l.columns[i]
        IN IF n \in omitted THEN [marker |-> "u"]
           ELSE IF n \in nulled THEN [marker |-> "n"] ELSE Cell(row[n])]

\* The old tuple: all of it, the key with every other column null, or nothing.
OldMarker(l, key_needed) ==
    IF l.full THEN "O" ELSE IF key_needed THEN "K" ELSE "none"

OldCells(l, row) ==
    Cells(l, row, {}, IF l.full THEN {} ELSE Names(l) \ l.keys)

\* What the application should see of the old tuple.
OldImage(l, row, marker) ==
    CASE marker = "O" -> row
      [] marker = "K" -> Only(row, l.keys)
      [] OTHER -> Missing

-----------------------------------------------------------------------------
(* Decoding *)

\* Mutant: the first description of a table stays.
CacheKeepsFirst(r, l) ==
    [relations EXCEPT ![r] = IF @ = Missing THEN l ELSE @]

\* RelationCache.add: last write wins.
Cache(r, l) == [relations EXCEPT ![r] = l]

\* _decode_tuple_data raises unless the tuple has one cell per column.
Fits(cells, columns) == Len(cells) = Len(columns)

\* _decode_tuple_data: by position; 'u' leaves the column out, 'n' is None.
DecodeTupleData(cells, columns) ==
    LET sent == {i \in DOMAIN cells : cells[i].marker # "u"}
    IN  [n \in {columns[i] : i \in sent} |->
            LET i == CHOOSE j \in sent : columns[j] = n
            IN  IF cells[i].marker = "n" THEN Null ELSE cells[i].value]

\* _restrict_to_key_columns, for an old tuple marked 'K'.
DecodeOld(marker, cells, l) ==
    CASE marker = "O" -> DecodeTupleData(cells, l.columns)
      [] marker = "K" -> Only(DecodeTupleData(cells, l.columns), l.keys)
      [] OTHER -> Missing

\* RelationCache.get raises for a table that no Relation has described.
Known(r) == relations[r] # Missing

\* decode_insert, decode_update and decode_delete behind the relation cache:
\* when they raise, and what they return.
ChangeRaises(m) ==
    \/ ~Known(m.rel)
    \/ m.marker # "none" /\ ~Fits(m.old, relations[m.rel].columns)
    \/ m.kind # "D" /\ ~Fits(m.new, relations[m.rel].columns)

DecodeChange(m) ==
    LET l == relations[m.rel]
    IN  [kind |-> m.kind, table |-> l.name,
         old |-> DecodeOld(m.marker, m.old, l),
         new |-> IF m.kind = "D" THEN Missing ELSE DecodeTupleData(m.new, l.columns)]

\* decode_truncate: the names of the tables, in the order of the message.
TruncateRaises(rels) == \E i \in DOMAIN rels : ~Known(rels[i])

DecodeTruncate(rels) == [i \in DOMAIN rels |-> relations[rels[i]].name]

\* A message is read at the right offsets: it has an xid and one is expected,
\* or neither.
Framed == (bracket # Missing) = streaming_active

\* A decoded change against the one that was made.  Misframed, the relation id
\* is read from other fields and is not one that was ever described.
Judge(raises, decoded, image) ==
    outcome' = IF ~Framed \/ raises THEN "failed"
               ELSE IF decoded = image THEN "faithful" ELSE "differs"

JudgeChange(m, image) == Judge(ChangeRaises(m), DecodeChange(m), image)

-----------------------------------------------------------------------------
(* Messages: the walsender sends, the Decoder decodes *)

Running == outcome # "failed"

Described(r, l) ==
    /\ described[r] = l
    /\ bracket # Missing => r \in stream_sent[bracket]

\* A change of tables rels follows the Relations it needs, and nothing else.
Changes(rels) ==
    /\ Running
    /\ announced \subseteq rels
    /\ announced' = {}
    /\ UNCHANGED <<described, stream_sent, bracket, cut, decoderVars>>

\* A Relation.  Misframed, decode_relation raises or caches a table that
\* nothing refers to.
SendRelation(r, l) ==
    /\ Running
    /\ ~Described(r, l)
    /\ described' = [described EXCEPT ![r] = l]
    /\ stream_sent' = IF bracket = Missing THEN stream_sent
                      ELSE [stream_sent EXCEPT ![bracket] = @ \cup {r}]
    /\ announced' = announced \cup {r}
    /\ \/ /\ Framed
          /\ relations' = Cache(r, l)
          /\ outcome' = "faithful"
       \/ /\ ~Framed
          /\ outcome' \in {"faithful", "failed"}
          /\ UNCHANGED relations
    /\ UNCHANGED <<bracket, cut, streaming_active>>

SendInsert(r, l) ==
    /\ Changes({r}) /\ Described(r, l)
    /\ \E new \in RowsOf(l) :
          JudgeChange([kind |-> "I", rel |-> r, marker |-> "none",
                       old |-> <<>>, new |-> Cells(l, new, {}, {})],
                      [kind |-> "I", table |-> l.name, old |-> Missing, new |-> new])

SendUpdate(r, l) ==
    /\ Changes({r}) /\ Described(r, l)
    /\ \E old, new \in RowsOf(l) : \E unchanged \in Unchanged(l, old, new) :
          LET marker == OldMarker(l, Only(old, l.keys) # Only(new, l.keys))
          IN  JudgeChange([kind |-> "U", rel |-> r, marker |-> marker,
                           old |-> OldCells(l, old),
                           new |-> Cells(l, new, unchanged, {})],
                          [kind |-> "U", table |-> l.name,
                           old |-> OldImage(l, old, marker),
                           new |-> Only(new, Names(l) \ unchanged)])

SendDelete(r, l) ==
    /\ Changes({r}) /\ Described(r, l)
    /\ \E old \in RowsOf(l) :
          LET marker == OldMarker(l, TRUE)
          IN  JudgeChange([kind |-> "D", rel |-> r, marker |-> marker,
                           old |-> OldCells(l, old), new |-> <<>>],
                          [kind |-> "D", table |-> l.name,
                           old |-> OldImage(l, old, marker), new |-> Missing])

\* One or several tables, in any order.
SendTruncate(rels, ls) ==
    /\ Changes(ToSet(rels))
    /\ \A i \in DOMAIN rels : Described(rels[i], ls[i])
    /\ Judge(TruncateRaises(rels), DecodeTruncate(rels),
             [i \in DOMAIN rels |-> ls[i].name])

\* Type and Message, which the client discards; misframed, their text is read
\* at the wrong place and may not be text.
SendUnactionable ==
    /\ Running
    /\ outcome' \in IF Framed THEN {"faithful"} ELSE {"faithful", "failed"}
    /\ UNCHANGED <<serverVars, decoderVars>>

StreamStart(x) ==
    /\ Running /\ bracket = Missing /\ announced = {}
    /\ bracket' = x
    /\ streaming_active' = TRUE
    /\ cut' = FALSE
    /\ outcome' = "faithful"
    /\ UNCHANGED <<described, stream_sent, announced, relations>>

\* Mutant: the flag is cleared by StreamCommit and StreamAbort, not by the end
\* of a chunk.
StreamStopKeepsFlag ==
    /\ Running /\ bracket # Missing /\ announced = {}
    /\ bracket' = Missing
    /\ outcome' = "faithful"
    /\ UNCHANGED <<described, stream_sent, announced, cut, decoderVars>>

StreamStop ==
    /\ Running /\ bracket # Missing /\ announced = {}
    /\ bracket' = Missing
    /\ streaming_active' = FALSE
    /\ outcome' = "faithful"
    /\ UNCHANGED <<described, stream_sent, announced, cut, relations>>

\* StreamCommit or StreamAbort: the walsender forgets the transaction.
StreamEnd(x) ==
    /\ Running /\ bracket = Missing /\ announced = {}
    /\ stream_sent' = [stream_sent EXCEPT ![x] = {}]
    /\ outcome' = "faithful"
    /\ UNCHANGED <<described, announced, bracket, cut, decoderVars>>

NewConnection ==
    /\ described' = [r \in Rels |-> Missing]
    /\ stream_sent' = [x \in Xids |-> {}]
    /\ announced' = {}
    /\ bracket' = Missing

\* The connection is lost and another one starts; the Decoder belongs to the
\* Client and stays as it is.
Drop ==
    /\ Running
    /\ NewConnection
    /\ cut' = (cut \/ bracket # Missing)
    /\ UNCHANGED <<decoderVars, outcome>>

\* An exception of decode ends run; the process is restarted.
Restart ==
    /\ ~Running
    /\ NewConnection
    /\ cut' = FALSE
    /\ relations' = [r \in Rels |-> Missing]
    /\ streaming_active' = FALSE
    /\ outcome' = "faithful"

-----------------------------------------------------------------------------
Init ==
    /\ described = [r \in Rels |-> Missing]
    /\ stream_sent = [x \in Xids |-> {}]
    /\ announced = {}
    /\ bracket = Missing
    /\ cut = FALSE
    /\ relations = [r \in Rels |-> Missing]
    /\ streaming_active = FALSE
    /\ outcome = "faithful"

Orders == {s \in [1..1 -> Rels] \cup [1..2 -> Rels] : IsInjective(s)}

Next ==
    \/ \E r \in Rels, l \in Layouts :
          SendRelation(r, l) \/ SendInsert(r, l) \/ SendUpdate(r, l) \/ SendDelete(r, l)
    \/ \E rels \in Orders : \E ls \in [DOMAIN rels -> Layouts] : SendTruncate(rels, ls)
    \/ SendUnactionable
    \/ \E x \in Xids : StreamStart(x) \/ StreamEnd(x)
    \/ StreamStop \/ Drop \/ Restart

Spec == Init /\ [][Next]_vars

-----------------------------------------------------------------------------
(* Properties *)

(* Every change the Decoder returns is the change that was made, with the names
   its columns and its table had then: through ALTER TABLE between two rows,
   layouts private to a transaction in progress, retransmissions of rows in an
   older layout, key-only old tuples and omitted TOAST values, and with a cache
   that outlives its connection. *)
DecodedFaithfully == outcome # "differs"

(* Decoding fails only when a connection was lost inside a chunk and the next
   one sends anything but another chunk first. *)
FailsOnlyWhenCut == outcome = "failed" => cut
=============================================================================
