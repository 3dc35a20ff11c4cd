----------------------------- MODULE AuditChain -----------------------------
(***************************************************************************)
(* The hash chain of an audit log and its verification: memory/audit.ts.   *)
(* The log is the one FactMemory's handlers append to.  A row stores the   *)
(* detail of its entry as a text; its hash is computed from the detail     *)
(* itself, which verification gets by parsing the text.  A hash is the     *)
(* value it was computed from, so that only equal inputs have equal        *)
(* hashes; hashes are stored with each row, where somebody with access to  *)
(* the database can change them like everything else.                      *)
(***************************************************************************)
EXTENDS FactMemory

-----------------------------------------------------------------------------
(* Entries and rows *)

\* What an entry says in columns of its own, and in the detail.
Columns(e) == [at |-> e.at, actor |-> e.actor, action |-> e.action, target |-> e.target]

Detail(e) == [grants |-> e.grants, toSeq |-> e.toSeq]

\* How a text spells a detail: as JSON.stringify writes it, in another way
\* that it would write the same once parsed (other white space, say), or so
\* that it does not parse.
Spelling == {"written", "other", "broken"}

Text(detail, spelling) == [spelling |-> spelling, of |-> detail]

Parses(text) == text.spelling # "broken"

\* JSON.parse of a text that parses, up to what JSON.stringify tells apart.
Parsed(text) == text.of

GenesisHash == << >>

RowHash(seq, columns, detail, prev) == <<seq, columns, detail, prev>>

EntryHash(seq, e, prev) == RowHash(seq, Columns(e), Detail(e), prev)

\* The row appendAudit writes.
StoredRow(seq, e, prev, hash) ==
  [seq |-> seq, columns |-> Columns(e), detail |-> Text(Detail(e), "written"),
   prev |-> prev, hash |-> hash]

\* appendAudit, entry by entry: the rows of table audit_log for a log.
StoredRows(log) ==
  LET hash[n \in 0 .. Len(log)] ==
        IF n = 0 THEN GenesisHash ELSE EntryHash(n, log[n], hash[n - 1])
  IN [n \in DOMAIN log |-> StoredRow(n, log[n], hash[n - 1], hash[n])]

-----------------------------------------------------------------------------
(* Verification *)

\* The hash verification carries from the row before; rows are read in the
\* order of their numbers.
CarriedHash(rows, n) == IF n = 1 THEN GenesisHash ELSE rows[n - 1].hash

\* The hash of a row as it was read, after the row with hash prev.
ReadHash(row, prev) == RowHash(row.seq, row.columns, Parsed(row.detail), prev)

UnlinkedRow(rows, n) ==  \* mutated RowFits: each row is checked by itself
  rows[n].hash = ReadHash(rows[n], rows[n].prev)

RowFits(rows, n) ==
  /\ rows[n].prev = CarriedHash(rows, n)
  /\ rows[n].hash = ReadHash(rows[n], CarriedHash(rows, n))

Passes(rows, n) == Parses(rows[n].detail) /\ RowFits(rows, n)

\* The row verifyAuditChain stops at: the first that does not pass.
StopsAt(rows) ==
  {n \in DOMAIN rows : ~Passes(rows, n) /\ \A m \in 1 .. n - 1 : Passes(rows, m)}

Verifies(rows) == StopsAt(rows) = {}

\* Verification answers that the row with number seq is the first bad one.
Reports(rows, seq) == \E n \in StopsAt(rows) : Parses(rows[n].detail) /\ rows[n].seq = seq

\* Verification ends with the exception of JSON.parse, which names no row.
Throws(rows) == \E n \in StopsAt(rows) : ~Parses(rows[n].detail)

-----------------------------------------------------------------------------
(* Changes made to the stored rows behind the service's back *)

\* The row says entry e, with its detail in the spelling given.
Altered(rows, n, e, spelling) ==
  [rows EXCEPT ![n].columns = Columns(e), ![n].detail = Text(Detail(e), spelling)]

\* The row is altered and its own hash computed anew.
Forged(rows, n, e, spelling) ==
  [Altered(rows, n, e, spelling) EXCEPT
     ![n].hash = EntryHash(rows[n].seq, e, rows[n].prev)]

Removed(rows, n) ==
  [m \in 1 .. Len(rows) - 1 |-> IF m < n THEN rows[m] ELSE rows[m + 1]]

\* Two rows exchange what they say but their numbers.
Exchanged(rows, n, m) ==
  [rows EXCEPT ![n] = [rows[m] EXCEPT !.seq = n], ![m] = [rows[n] EXCEPT !.seq = m]]

\* Verification passes the log as it was written.  After a row was made to say
\* something else, with its own hash computed anew or not, or was removed or
\* exchanged with another, it reports the first row that shows it; a detail
\* that no longer parses makes it end in an exception.  What goes unnoticed is
\* a detail spelt in another way, a change of the last row together with its
\* hash, and rows missing at the end.  (audit.ts verifyAuditChain)
TamperingShows ==
  LET rows == StoredRows(audit)
      end  == Len(audit)
  IN /\ Verifies(rows)
     /\ \A n \in 1 .. end, e \in {audit[m] : m \in 1 .. end}, spelling \in Spelling :
          LET altered == Altered(rows, n, e, spelling)
              forged  == Forged(rows, n, e, spelling)
          IN IF spelling = "broken" THEN Throws(altered) /\ Throws(forged)
             ELSE IF e = audit[n] THEN Verifies(altered)
             ELSE /\ Reports(altered, n)
                  /\ IF n < end THEN Reports(forged, n + 1) ELSE Verifies(forged)
     /\ \A n \in 1 .. end - 1 : Reports(Removed(rows, n), n + 1)
     /\ \A n, m \in 1 .. end : n < m => Reports(Exchanged(rows, n, m), n)
     /\ end > 0 => Verifies(Removed(rows, end))
=============================================================================
