---------------------------- MODULE CursorOrder ----------------------------
(***************************************************************************)
(* The orders by which the watchers tell new entries from old ones.  Times *)
(* are natural numbers, and so are arXiv ids and feed keys: the code       *)
(* compares the strings, and nothing else about them matters.  0 is the    *)
(* empty string.                                                           *)
(***************************************************************************)
EXTENDS Integers

NoTime == -1            \* a nil *time.Time

\* Mutant of After: the id does not decide between equal times.
AfterTime(e, cursor) ==
  cursor.time = NoTime \/ cursor.id = 0 \/ e.updated > cursor.time

\* internal/arxiv: Entry.After.  An entry is [id, updated], a cursor
\* [id, time].
After(e, cursor) ==
  \/ cursor.time = NoTime \/ cursor.id = 0
  \/ e.updated > cursor.time
  \/ e.updated = cursor.time /\ e.id > cursor.id

\* Mutant of MaxComposite: ties go to the smallest id.
MaxUpdated(entries) ==
  CHOOSE b \in entries : \A e \in entries :
    e.updated < b.updated \/ (e.updated = b.updated /\ e.id >= b.id)

\* internal/arxiv: MaxComposite, of a non-empty page.
MaxComposite(entries) ==
  CHOOSE b \in entries : \A e \in entries :
    e.updated < b.updated \/ (e.updated = b.updated /\ e.id <= b.id)

\* Mutants of AfterCursor: the key does not decide between equal dates, and it
\* decides between any dates.
AfterCursorByDate(item, cursor) ==
  /\ item.key # 0
  /\ \/ cursor.key = 0
     \/ item.time = NoTime /\ item.key > cursor.key
     \/ item.time # NoTime /\ (cursor.time = NoTime \/ item.time > cursor.time)

AfterCursorByKey(item, cursor) ==
  /\ item.key # 0
  /\ \/ cursor.key = 0
     \/ item.key > cursor.key
     \/ item.time # NoTime /\ (cursor.time = NoTime \/ item.time > cursor.time)

\* internal/rssx: AfterCursor.  An item and a cursor are [key, time].
AfterCursor(item, cursor) ==
  /\ item.key # 0
  /\ \/ cursor.key = 0
     \/ item.time = NoTime /\ item.key > cursor.key
     \/ item.time # NoTime /\ cursor.time = NoTime
     \/ item.time # NoTime /\ item.time > cursor.time
     \/ item.time # NoTime /\ item.time = cursor.time /\ item.key > cursor.key
=============================================================================
