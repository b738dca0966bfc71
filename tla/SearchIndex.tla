----------------------------- MODULE SearchIndex -----------------------------
(***************************************************************************)
(* The search index of one item: index.lua decides what the records of a   *)
(* document are (app_host/index.rs), the indexer plans what changed since  *)
(* the fingerprints of the last plan (shell2/indexer.rs), and the index    *)
(* seals its files and then the fingerprints in the vault (search/).       *)
(*                                                                         *)
(* An index.lua is what it says: the documents it covers, the key it reads *)
(* from a record, and what `fields' answers for each value ("error" and    *)
(* "nil" beside the texts).  A record's fingerprint is the record.         *)
(***************************************************************************)
EXTENDS Naturals, FiniteSets

CONSTANTS
  Docs, Names, Values,
  Texts,     \* what index.lua may be: specs, Broken, None
  Broken, None,
  Closed, NoIndex,
  Faults,    \* which of "crash", "files", "prints" may happen
  MaxEdits   \* bound: messages handled in a behaviour

VARIABLES
  text,      \* index.lua in the source
  live,      \* what the open app's cores hold, None for a document not opened
  vault,     \* what the vault holds of each document
  ix,        \* the open item's index: Closed, NoIndex or an ItemIndex
  files,     \* the records the sealed index files hold
  prints,    \* the sealed fingerprints of each document
  hist,      \* what the properties remember
  left       \* messages still to come

vars == <<text, live, vault, ix, files, prints, hist, left>>

Rests == {0, 1}
Contents == [rest : Rests, els : [Names -> Values \cup {None}]]
Nothing == [rest |-> 0, els |-> [n \in Names |-> None]]
NoPrints == [rest |-> None, of |-> {}]
There(c) == {n \in Names : c.els[n] # None}
Ids(of) == {p[1] : p \in of}
-----------------------------------------------------------------------------
(* What a spec says of a document *)

Keyed(spec, c, n) == c.els[n] \notin spec.unkeyed
Said(spec, c, n) == spec.says[c.els[n]]
IsText(t) == t \notin {"nil", "error"}
Key(spec, n) == <<spec.key, n>>
Rest(spec, c) == <<c.rest, spec>>

(* The records a spec makes of a document indexed from nothing *)
Reference(spec, c) ==
  {<<Key(spec, n), <<Said(spec, c, n), c.rest>>>> :
     n \in {m \in There(c) : Keyed(spec, c, m) /\ IsText(Said(spec, c, m))}}

(* The id of a list's record: that of the fingerprint if it was seen, and
   what `key' answers if it was not *)
Id(spec, prev, fp) ==
  IF \E p \in prev.of : p[2] = fp
  THEN (CHOOSE p \in prev.of : p[2] = fp)[1]
  ELSE Key(spec, fp[1])

Fp(c, n) == <<n, c.els[n]>>
Seen(prev, fp) == \E p \in prev.of : p[2] = fp

(* Ids that leave: those with a fingerprint before and none now, but for
   the ones whose record failed *)
Vanished(prev, next, failed) == Ids(prev.of) \ (Ids(next) \cup failed)

(* Whether every record is planned: the rest of the document changed, or
   index.lua did *)
Full(spec, c, prev) == Rest(spec, c) # prev.rest

Plan(spec, c, prev) ==
  LET listed == {n \in There(c) : Seen(prev, Fp(c, n)) \/ Keyed(spec, c, n)}
      id(n) == Id(spec, prev, Fp(c, n))
      ran == {n \in listed : \/ Full(spec, c, prev)
                             \/ <<id(n), Fp(c, n)>> \notin prev.of}
      failed == {id(n) : n \in {m \in ran : Said(spec, c, m) = "error"}}
      next == {<<id(n), Fp(c, n)>> : n \in {m \in listed : id(m) \notin failed}}
  IN [upserts |-> {<<id(n), <<Said(spec, c, n), c.rest>>>> :
                     n \in {m \in ran : IsText(Said(spec, c, m))}},
      deletes |-> {id(n) : n \in {m \in ran : /\ Said(spec, c, m) = "nil"
                                              /\ id(m) \in Ids(prev.of)}}
                    \cup Vanished(prev, next, failed),
      prints  |-> [rest |-> Rest(spec, c), of |-> next],
      failed  |-> failed \cup {Key(spec, n) : n \in {m \in There(c) : ~Keyed(spec, c, m)}},
      ran     |-> ran]
-----------------------------------------------------------------------------
(* The index: a writer's records, the reader's, and what is staged *)

Opened(f) ==
  [src |-> None, spec |-> None, reader |-> f, writer |-> f,
   staged |-> [d \in Docs |-> None], dirty |-> FALSE, memo |-> None]

Covered(i, names) == IF i.spec = None THEN {} ELSE names \cap i.spec.covers

(* Index::prints: what is staged, before what is stored *)
PrintsOf(i, d) == IF i.staged[d] # None THEN i.staged[d] ELSE prints[d]

Parsed(p) == IF p = None THEN NoPrints ELSE p

Plans(i, names, content) ==
  [d \in names |-> Plan(i.spec, content[d], Parsed(PrintsOf(i, d)))]

(* A plan's upserts and deletes, in the writer: a record is known by its
   document and its id *)
Written(w, plans) ==
  {r \in w : \/ r[1] \notin DOMAIN plans
             \/ r[2] \notin plans[r[1]].deletes \cup {u[1] : u \in plans[r[1]].upserts}}
    \cup UNION {{<<d, u[1], u[2]>> : u \in plans[d].upserts} : d \in DOMAIN plans}

(* ItemIndex::apply, for each of a set of documents *)
Applied(i, names, content) ==
  LET plans == Plans(i, names, content)
      moved == {d \in names : plans[d].prints # PrintsOf(i, d)}
  IN [i EXCEPT !.writer = Written(i.writer, plans),
               !.staged = [d \in Docs |-> IF d \in moved THEN plans[d].prints ELSE i.staged[d]],
               !.dirty = \/ i.dirty
                         \/ moved # {}
                         \/ \E d \in names : plans[d].upserts # {} \/ plans[d].deletes # {}]

Staged(i) == {d \in Docs : i.staged[d] # None}
Unstaged == [d \in Docs |-> None]

(* How a commit ends: the files' part and the fingerprints that landed *)
Ends(i) ==
  LET all == Staged(i) IN
  {[ok |-> TRUE, alive |-> TRUE, files |-> TRUE, prints |-> all]}
    \cup (IF "files" \in Faults
          THEN {[ok |-> FALSE, alive |-> TRUE, files |-> FALSE, prints |-> {}]} ELSE {})
    \cup (IF "prints" \in Faults
          THEN {[ok |-> FALSE, alive |-> TRUE, files |-> TRUE, prints |-> p] :
                  p \in (SUBSET all) \ {all}} ELSE {})
    \cup (IF "crash" \in Faults
          THEN {[ok |-> FALSE, alive |-> FALSE, files |-> p # {} \/ b, prints |-> p] :
                  p \in SUBSET all, b \in BOOLEAN} ELSE {})

(* What a commit that ends so lands: the fingerprints only after the files *)
(* Mutant: all that is staged, files or not *)
PrintsFirst(i, e) == [d \in Docs |-> IF i.staged[d] # None THEN i.staged[d] ELSE prints[d]]
LandedPrints(i, e) == [d \in Docs |-> IF d \in e.prints THEN i.staged[d] ELSE prints[d]]

(* The index after a commit: `dirty' and the staged fingerprints are taken
   before the calls that may fail *)
Landed(i, e) ==
  IF ~e.files THEN [i EXCEPT !.dirty = FALSE]
  ELSE [i EXCEPT !.dirty = FALSE, !.reader = i.writer, !.staged = Unstaged,
                 !.memo = IF e.ok THEN None ELSE i.memo]
-----------------------------------------------------------------------------
(* What the properties remember: what was planned last of a document, what
   the files were brought up to, what ever failed, what ran *)

Planned(names, i, content, plans) ==
  [hist EXCEPT
     !.planned = [d \in Docs |-> IF d \in names THEN <<content[d], i.spec>> ELSE hist.planned[d]],
     !.failed = hist.failed \cup UNION {{d} \X plans[d].failed : d \in names},
     !.ran = {x \in names \X Names : x[2] \in plans[x[1]].ran}]

Remembered(h, i, e) ==
  [h EXCEPT
     !.upto = IF ~e.files THEN h.upto
              ELSE [d \in Docs |-> IF i.staged[d] # None THEN h.planned[d] ELSE h.upto[d]],
     !.planned = IF e.ok \/ (e.alive /\ ~e.files) THEN h.planned
                 ELSE [d \in Docs |-> IF d \in Staged(i) \ e.prints THEN None ELSE h.planned[d]],
     !.ran = IF e.alive THEN h.ran ELSE {}]

(* What an index that goes takes along: fingerprints staged and not landed *)
Forgot(h, i) ==
  [h EXCEPT !.planned = [d \in Docs |-> IF d \in Staged(i) THEN None ELSE h.planned[d]], !.ran = {}]

(* reindex, of the names the spec covers: what it may come to.  A document
   no plan can be made of (`each' is a list and there is no `key') ends it
   before the commit. *)
Reindexed(i, names, content) ==
  LET plansOf(some) == Plans(i, some, content)
      with(some) == [alive |-> TRUE, ok |-> some = names, ix |-> Applied(i, some, content),
                     files |-> files, prints |-> prints,
                     hist |-> Planned(some, i, content, plansOf(some))]
      j == Applied(i, names, content)
  IN IF names \cap i.spec.bad # {}
     THEN {with(some) : some \in SUBSET (names \ i.spec.bad)}
     ELSE IF ~j.dirty THEN {with(names)}
     ELSE {[alive |-> e.alive, ok |-> e.ok, ix |-> Landed(j, e),
            files |-> IF e.files THEN j.writer ELSE files,
            prints |-> LandedPrints(j, e),
            hist |-> Remembered(with(names).hist, j, e)] : e \in Ends(j)}

Reindex(i, names, content) ==
  IF Covered(i, names) = {}
  THEN {[alive |-> TRUE, ok |-> TRUE, ix |-> i, files |-> files, prints |-> prints,
         hist |-> [hist EXCEPT !.ran = {}]]}
  ELSE Reindexed(i, Covered(i, names), content)

(* IndexSpec::load: an index.lua that runs is the spec it returns; one that does
   not, or returns something else, is none *)
Loads(t) == t # Broken

(* sync_spec: a text that fails to load leaves the text and the spec of
   before *)
Synced(i, t) == IF ~Loads(t) THEN i ELSE [i EXCEPT !.src = t, !.spec = t]

(* Every document the item has, open now or only in the vault *)
Has(l, v) == {d \in Docs : l[d] # None \/ v[d] # None}
Content(l, v) == [d \in Docs |-> IF l[d] # None THEN l[d] ELSE v[d]]

(* index_dirty, after a flush *)
IndexDirty(i, t, dirtied, l, v) ==
  IF t = i.src THEN Reindex(i, dirtied, Content(l, v))
  ELSE IF ~Loads(t) THEN Reindex(Synced(i, t), {}, Content(l, v))
  ELSE Reindex(Synced(i, t), Has(l, v), Content(l, v))
-----------------------------------------------------------------------------
Init ==
  /\ text \in Texts
  /\ live = [d \in Docs |-> None]
  /\ vault = [d \in Docs |-> None]
  /\ ix = Closed
  /\ files = {}
  /\ prints = [d \in Docs |-> None]
  /\ hist = [planned |-> [d \in Docs |-> None], upto |-> [d \in Docs |-> None],
             failed |-> {}, ran |-> {}]
  /\ left = MaxEdits

IsOpen == ix # Closed

(* open_tab: the app opens some of its documents, the index is opened from
   the vault and attach catches up with all there are *)
Open ==
  /\ ~IsOpen
  /\ \E opens \in (SUBSET Docs) \ {{}} :
       LET l == [d \in Docs |-> IF d \notin opens THEN None
                                ELSE IF vault[d] = None THEN Nothing ELSE vault[d]]
       IN \E r \in Reindex(Synced(Opened(files), text), Has(l, vault), Content(l, vault)) :
            /\ live' = IF r.alive THEN l ELSE live
            /\ ix' = IF ~r.alive THEN Closed ELSE IF r.ok THEN r.ix ELSE NoIndex
            /\ hist' = IF r.alive /\ ~r.ok THEN Forgot(r.hist, r.ix) ELSE r.hist
            /\ files' = r.files
            /\ prints' = r.prints
  /\ UNCHANGED <<text, vault, left>>

(* The end of a message: what changed is saved, then indexed *)
EndOfMessage(t, l, held, wrote) ==
  LET v == [d \in Docs |-> IF d \in wrote THEN l[d] ELSE held[d]] IN
  /\ vault' = v
  /\ IF ix = NoIndex
     THEN /\ live' = l
          /\ hist' = [hist EXCEPT !.ran = {}]
          /\ UNCHANGED <<ix, files, prints>>
     ELSE \E r \in IndexDirty(ix, t, wrote, l, v) :
            /\ ix' = IF r.alive THEN r.ix ELSE Closed
            /\ live' = IF r.alive THEN l ELSE [d \in Docs |-> None]
            /\ files' = r.files
            /\ prints' = r.prints
            /\ hist' = r.hist

(* A message that writes one open document: by the app, the bridge, a peer *)
Write ==
  /\ IsOpen /\ left > 0
  /\ \E d \in Docs, c \in Contents :
       /\ live[d] # None /\ live[d] # c
       /\ EndOfMessage(text, [live EXCEPT ![d] = c], vault, {d})
  /\ left' = left - 1
  /\ UNCHANGED text

(* A message that edits index.lua *)
EditSpec ==
  /\ IsOpen /\ left > 0
  /\ text' \in Texts \ {text}
  /\ EndOfMessage(text', live, vault, {})
  /\ left' = left - 1

(* A handler opens a document: from the vault or, when the vault has none,
   pulled from the node into it.  Nothing is dirty. *)
OpenDoc ==
  /\ IsOpen /\ left > 0
  /\ \E d \in Docs :
       /\ live[d] = None
       /\ \E c \in IF vault[d] # None THEN {vault[d]} ELSE Contents :
            EndOfMessage(text, [live EXCEPT ![d] = c],
                         [vault EXCEPT ![d] = IF c = Nothing THEN vault[d] ELSE c], {})
  /\ left' = left - 1
  /\ UNCHANGED text

(* search.query, answered from the memo of the same query if it has one *)
Query ==
  /\ IsOpen /\ ix # NoIndex
  /\ ix.memo = None
  /\ ix' = [ix EXCEPT !.memo = ix.reader]
  /\ hist' = [hist EXCEPT !.ran = {}]
  /\ UNCHANGED <<text, live, vault, files, prints, left>>

(* The tab is closed, or the desktop stops *)
Close ==
  /\ IsOpen
  /\ ix' = Closed
  /\ live' = [d \in Docs |-> None]
  /\ hist' = IF ix = NoIndex THEN [hist EXCEPT !.ran = {}] ELSE Forgot(hist, ix)
  /\ UNCHANGED <<text, vault, files, prints, left>>

Next == Open \/ Write \/ EditSpec \/ OpenDoc \/ Query \/ Close
Spec == Init /\ [][Next]_vars
-----------------------------------------------------------------------------
Specs == Texts \ {Broken, None}
IdSet == {Key(s, n) : s \in Specs, n \in Names}
Fingerprints == [rest : Rests \X Specs, of : SUBSET (IdSet \X (Names \X Values))]
Record == Docs \X IdSet \X ((UNION {{s.says[x] : x \in Values} : s \in Specs}) \X Rests)
Index == [src : Texts \cup {None}, spec : Texts \cup {None}, reader : SUBSET Record,
          writer : SUBSET Record, staged : [Docs -> Fingerprints \cup {None}], dirty : BOOLEAN,
          memo : (SUBSET Record) \cup {None}]

(* What the constants have to be: there is no telling None from data otherwise *)
SearchIndexConstants ==
  /\ MaxEdits \in Nat /\ Broken # None
  /\ Closed # NoIndex /\ Closed \notin Index /\ NoIndex \notin Index
  /\ None \notin Values /\ None \notin Contents /\ None \notin Fingerprints
  /\ None \notin Contents \X Specs

(* The faults under which the properties hold of any instance: a commit is all
   or nothing but for a crash; where it may crash, an index.lua can plan all it
   covers or nothing, and the files can be written *)
Regime ==
  /\ "prints" \notin Faults
  /\ "crash" \in Faults =>
       /\ "files" \notin Faults
       /\ \A s \in Specs : s.covers \cap s.bad = {} \/ s.covers \subseteq s.bad

(* Ids outlive an index.lua: every one reads the same key from a record *)
OneKey == \A s, t \in Specs : s.key = t.key

(* Documents, fingerprints and records are what their types say; a closed
   item has no live document *)
TypeOK ==
  /\ text \in Texts
  /\ \A d \in Docs : /\ live[d] = None \/ live[d] \in Contents
                     /\ vault[d] = None \/ vault[d] \in Contents
                     /\ prints[d] # None =>
                          \A p, q \in prints[d].of : p[1] = q[1] => p = q
  /\ files \subseteq Record
  /\ \A r, s \in files : r[1] = s[1] /\ r[2] = s[2] => r = s
  /\ ~IsOpen => live = [d \in Docs |-> None]
  /\ left \in 0..MaxEdits

Of(recs, d) == {<<r[2], r[3]>> : r \in {x \in recs : x[1] = d}}

(* The fingerprints in the vault never claim work the index files do not
   hold, at any moment a crash may come: where a stored fingerprint would let
   the next plan of the document in the vault, by the index.lua in the source,
   skip a record, the files hold what `fields' says of it (nothing, but of a
   record that failed before, for nil).  (Index::commit, "a fingerprint saved ahead of its records") *)
SkipIsSafe ==
  \A d \in Docs : prints[d] # None /\ vault[d] # None =>
    LET p == prints[d] spec == text c == vault[d] IN
    p.rest = <<c.rest, text>> =>
      \A n \in There(c), k \in Ids(p.of) :
        <<k, Fp(c, n)>> \in p.of =>
          IF IsText(Said(spec, c, n))
          THEN <<d, k, <<Said(spec, c, n), c.rest>>>> \in files
          ELSE <<d, k>> \in hist.failed \/ k \notin {y[1] : y \in Of(files, d)}

(* What the files were brought up to step by step is what indexing the
   document from nothing gives, but for records that failed once: plans by
   fingerprints, skipped records, staged fingerprints, crashes and commits
   that fail lose nothing and leave nothing.  (IndexSpec::plan) *)
IncrementalIsFull ==
  \A d \in Docs : hist.upto[d] # None =>
    LET ref == Reference(hist.upto[d][2], hist.upto[d][1])
        failed == {x[2] : x \in {y \in hist.failed : y[1] = d}}
    IN /\ {x \in Of(files, d) : x[1] \notin failed} = {x \in ref : x[1] \notin failed}
       /\ ref \subseteq Of(files, d)

(* `fields' runs again only for what moved since the document was planned:
   the record, the rest of the document or index.lua, or for a record that
   fails; a restart alone runs nothing.  (docs/design/search.md, T7) *)
RunsOnlyWhatMoved ==
  [][\A x \in hist'.ran :
       LET was == hist.planned[x[1]] now == hist'.planned[x[1]] IN
       was # None /\ now # None =>
         \/ was[2] # now[2] \/ was[1].rest # now[1].rest
         \/ was[1].els[x[2]] # now[1].els[x[2]]
         \/ Said(now[2], now[1], x[2]) = "error"]_vars

(* A record that is no longer in its document is not found (T6, "deleted
   message still matches"), here of an index that is up to date *)
GoneIsGone ==
  \A d \in Docs : hist.upto[d] # None =>
    {x[1] : x \in Of(files, d)} \subseteq
      {Key(hist.upto[d][2], n) : n \in There(hist.upto[d][1])}

(* What the index holds for a record whose `key' or `fields' fails stays
   until it is retried *)
FailedStays ==
  [][\A d \in Docs, n \in Names :
       LET was == hist.planned[d] now == hist'.planned[d] IN
       (was # None /\ now # None /\ was[2] = now[2] /\ now # was
        /\ n \in There(now[1]) /\ ~Keyed(now[2], now[1], n)
        /\ files' # files) =>
         \A r \in files : r[1] = d /\ r[2] = Key(now[2], n) =>
           \E s \in files' : s[1] = d /\ s[2] = r[2]]_vars

(* After index.lua changes every record is stale: its id is what the `key'
   of now answers *)
KeysFollowTheSpec ==
  \A d \in Docs : hist.upto[d] # None =>
    \A x \in Of(files, d) : x[1][1] = hist.upto[d][2].key

(* The index follows the documents: while the spec in the source is the one
   loaded, and nothing failed to be saved or committed, every covered
   document that is open is indexed as it is *)
KeptCurrent ==
  (ix \notin {Closed, NoIndex} /\ ix.spec # None /\ text = ix.spec) =>
    \A d \in text.covers : live[d] # None =>
      Reference(text, live[d]) \subseteq Of(files, d)

(* A query memo is never stale *)
MemoIsFresh ==
  ix \notin {Closed, NoIndex} /\ ix.memo # None => ix.memo = ix.reader
=============================================================================
