------------------------------- MODULE Keyset -------------------------------
(***************************************************************************)
(* Keyset pagination (pagination.py), as every list of the API and the      *)
(* reprocessing job do it: rows in the order of (key, id), a cursor that is *)
(* the last row of a page, and the next page from the rows whose key is     *)
(* beyond the cursor's.  A row is a pair <<key, id>>.                       *)
(***************************************************************************)
EXTENDS Integers, Sequences, FiniteSets, SequencesExt

CONSTANT Start   \* the cursor of a first page, and of no further page

(* The order of the pages                                                   *)
Less(one, other) == one[1] < other[1] \/ (one[1] = other[1] /\ one[2] < other[2])

Follows(row, other, descending) == IF descending THEN Less(row, other) ELSE Less(other, row)

(* Mutant: the last row of a page comes again.                              *)
BeyondOrEqual(row, cursor, descending) ==
  \/ cursor = Start
  \/ IF descending THEN row[1] <= cursor[1] ELSE cursor[1] <= row[1]

(* "(Alert.timestamp, Alert.id) < (last_timestamp, last_id)" compares tuples  *)
(* of Python, by the first places that differ; a column never equals a value, *)
(* so only the keys reach the database.                                      *)
Beyond(row, cursor, descending) ==
  \/ cursor = Start
  \/ IF descending THEN row[1] < cursor[1] ELSE cursor[1] < row[1]

(* Ghost: the ids of the rows that come after the last one of a page but      *)
(* share its key, which no further page reaches.                             *)
Tied(rows, last, descending) ==
  { row[2] : row \in { row \in rows : row[1] = last[1] /\ Follows(row, last, descending) } }

Remaining(rows, cursor, descending) == { row \in rows : Beyond(row, cursor, descending) }

(* How many of the rows come before this one                                *)
Rank(row, rows, descending) == Cardinality({ other \in rows : Follows(row, other, descending) })

(* At most limit rows, in order                                             *)
Page(rows, cursor, descending, limit) ==
  LET remaining == Remaining(rows, cursor, descending)
      size      == IF Cardinality(remaining) < limit THEN Cardinality(remaining) ELSE limit
  IN [ i \in 1 .. size |-> CHOOSE row \in remaining : Rank(row, remaining, descending) = i - 1 ]

(* The cursor the page comes with, if one row more than the limit was found *)
NextCursor(rows, cursor, descending, limit) ==
  IF Cardinality(Remaining(rows, cursor, descending)) > limit
  THEN Last(Page(rows, cursor, descending, limit)) ELSE Start
=============================================================================
