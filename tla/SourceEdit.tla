----------------------------- MODULE SourceEdit -----------------------------
(***************************************************************************)
(* Editing one file of an item's source over the bridge: ReadFileVersioned, *)
(* EditFile and WriteFile of shell2/src/main.rs, and edit_source_file and   *)
(* write_source_file of app_host/src/lib.rs.  An open item's source is the  *)
(* running app's document; a closed one's is read from the vault for each   *)
(* request.  Requests run one at a time, on the shell's thread.             *)
(*                                                                         *)
(* A source is a sequence of characters, some of which are two bytes long. *)
(* A revision is a digest of the content: ideal, so it is the content.     *)
(***************************************************************************)
EXTENDS Naturals, Sequences, SequencesExt, FiniteSetsExt

CONSTANTS Clients, Batches,   \* sequences of [old, new]
          Writes,             \* contents WriteFile is called with
          Wide,               \* the characters of two bytes
          MaxLength,          \* bounds the sources that edits make
          Absent, Closed      \* no such file; no running app

VARIABLES saved,   \* the file in the vault's source
          doc,     \* the file in the running app's source, or Closed
          read,    \* client -> the revision it was last told
          blind    \* observer: an edit was made to a text its client had not seen
vars == <<saved, doc, read, blind>>

SourceNow == IF doc = Closed THEN saved ELSE doc

-----------------------------------------------------------------------------
Width(c) == IF c \in Wide THEN 2 ELSE 1
Bytes(s) == FoldLeft(LAMBDA n, c : n + Width(c), 0, s)
\* chars().count() of what lies before a byte that begins a character.
Chars(s, byte) == Cardinality({k \in 1 .. Len(s) : Bytes(SubSeq(s, 1, k)) <= byte})

\* Where old begins: one character's index for each occurrence.
Occurs(s, old) ==
  {i \in 1 .. Len(s) + 1 - Len(old) : SubSeq(s, i, i + Len(old) - 1) = old}
\* str::match_indices: from the left, and on from the end of the last match.
Matched(s, old) ==
  LET hit[i \in Nat] ==
        IF Occurs(s, old) \cap (i .. Len(s)) = {} THEN {}
        ELSE LET m == Min(Occurs(s, old) \cap (i .. Len(s))) IN {m} \cup hit[m + Len(old)]
  IN hit[1]

\* The byte range of each edit, if its old text matches.
Ranges(s, batch) ==
  {[start |-> Bytes(SubSeq(s, 1, m - 1)),
    end |-> Bytes(SubSeq(s, 1, m - 1 + Len(batch[k].old))), new |-> batch[k].new, by |-> k] :
     <<k, m>> \in {<<k, m>> \in (1 .. Len(batch)) \X (1 .. Len(s)) : m \in Matched(s, batch[k].old)}}
Overlap(p, q) == p.start < q.end /\ q.start < p.end
Accepts(s, batch) ==
  /\ \A k \in 1 .. Len(batch) :
       batch[k].old # <<>> /\ Cardinality(Matched(s, batch[k].old)) = 1
  /\ \A p, q \in Ranges(s, batch) : p.by # q.by => ~Overlap(p, q)

\* text.delete and text.insert of one range, in characters of the document.
SpliceAtBytes(s, now, r) ==
  SubSeq(now, 1, r.start) \o r.new \o SubSeq(now, r.end + 1, Len(now))
Splice(s, now, r) ==
  SubSeq(now, 1, Chars(s, r.start)) \o r.new \o SubSeq(now, Chars(s, r.end) + 1, Len(now))
InOrder(s, batch) ==
  SetToSortSeq(Ranges(s, batch), LAMBDA p, q : p.start < q.start)
\* From the end backward, so that earlier offsets stay what they were.
Apply(s, batch) == FoldRight(LAMBDA r, now : Splice(s, now, r), InOrder(s, batch), s)

-----------------------------------------------------------------------------
ReadFileVersioned(c) ==
  /\ SourceNow # Absent
  /\ read' = [read EXCEPT ![c] = SourceNow]
  /\ UNCHANGED <<saved, doc, blind>>

\* The document, then the vault, whose put may fail: a running app keeps the
\* text for all that, and the client is told of the failure alone.
Put(text, ok) ==
  /\ saved' = IF ok THEN text ELSE saved
  /\ doc' = IF doc = Closed THEN Closed ELSE text

Fresh(c) == read[c] = SourceNow
EditFile(c, batch, ok) ==
  /\ SourceNow # Absent /\ Fresh(c) /\ Accepts(SourceNow, batch)
  /\ Len(Apply(SourceNow, batch)) <= MaxLength
  /\ Put(Apply(SourceNow, batch), ok)
  /\ read' = IF ok THEN [read EXCEPT ![c] = Apply(SourceNow, batch)] ELSE read
  /\ blind' = (blind \/ read[c] # SourceNow)

WriteFile(text, ok) == Put(text, ok) /\ UNCHANGED <<read, blind>>

OpenItem == doc = Closed /\ saved # Absent /\ doc' = saved /\ UNCHANGED <<saved, read, blind>>
\* Closed by its user, by a lock, or with the process.
Close == doc # Closed /\ doc' = Closed /\ UNCHANGED <<saved, read, blind>>

Init == saved = Absent /\ doc = Closed /\ read = [c \in Clients |-> Absent] /\ blind = FALSE
Next ==
  \/ \E c \in Clients : ReadFileVersioned(c) \/ \E b \in Batches, ok \in BOOLEAN : EditFile(c, b, ok)
  \/ \E text \in Writes, ok \in BOOLEAN : WriteFile(text, ok)
  \/ OpenItem \/ Close
Spec == Init /\ [][Next]_vars

-----------------------------------------------------------------------------
\* "Resolve all edits against that same original source": the batch that is
\* taken replaces every old text where it stood in the source as it was read,
\* whatever the widths of the characters and the order of the edits.
Simultaneous ==
  SourceNow # Absent => \A batch \in Batches : Accepts(SourceNow, batch) =>
    LET at(i) == {k \in 1 .. Len(batch) : i \in Matched(SourceNow, batch[k].old)}
        within(i) == \E k \in 1 .. Len(batch) : \E m \in Matched(SourceNow, batch[k].old) :
                       m <= i /\ i < m + Len(batch[k].old)
        part(i) == IF at(i) # {} THEN batch[CHOOSE k \in at(i) : TRUE].new
                   ELSE IF within(i) THEN <<>> ELSE <<SourceNow[i]>>
    IN Apply(SourceNow, batch) = FlattenSeq([i \in 1 .. Len(SourceNow) |-> part(i)])

\* No edit is made to a text its client has not seen, though another client
\* writes between, saves fail and the app closes and reopens.
SeenIsEdited == ~blind

\* "Require nonempty old_text with exactly one occurrence in the original
\* source for each edit.  Missing and ambiguous matches are errors."
ExactlyOne ==
  SourceNow # Absent => \A batch \in Batches : Accepts(SourceNow, batch) =>
    \A k \in 1 .. Len(batch) : Cardinality(Occurs(SourceNow, batch[k].old)) = 1
=============================================================================
