--------------------------- MODULE NodeStoreProofs ---------------------------
(***************************************************************************)
(* The theorems of NodeStore, for every set of desktops, invites and       *)
(* batches and every bound.                                                *)
(***************************************************************************)
EXTENDS NodeStore, SequenceTheorems, TLAPS

-----------------------------------------------------------------------------
(* Types *)

\* What the handlers write are sequences of entries.
LEMMA RecordPutsType ==
  ASSUME NEW t \in Token
  PROVE  RecordPuts(t) \in Seq(Entry)
BY DEF RecordPuts, Entry

LEMMA GrantPutsType ==
  ASSUME NEW t \in Token
  PROVE  /\ ClaimPuts(t) \in Seq(Entry)
         /\ t.why[1] = "invite" /\ t.why[2] \in Invite => InvitePuts(t) \in Seq(Entry)
<1>1. RecordPuts(t) \in Seq(Entry)
  BY RecordPutsType
<1>2. << <<"relationship", t.holder>> >> \in Seq(Entry)
  <2>1. <<"relationship", t.holder>> \in Entry
    BY DEF Token, Entry
  <2>2. QED BY <2>1
<1>3. ASSUME t.why[2] \in Invite PROVE << <<"spent", t.why[2]>> >> \in Seq(Entry)
  <2>1. <<"spent", t.why[2]>> \in Entry
    BY <1>3 DEF Entry
  <2>2. QED BY <2>1
<1>4. QED BY <1>1, <1>2, <1>3, ConcatProperties DEF ClaimPuts, InvitePuts

LEMMA PublishPutsType ==
  ASSUME NEW d \in Desktop, NEW batch \in Batch, NEW n \in GoodItems(batch)
  PROVE  PublishPuts(d, batch, n) \in Seq(Entry)
<1>1. n \in 0..Len(batch) /\ batch \in Seq(Item)
  BY NodeStoreAssumption DEF GoodItems
<1>2. [i \in 1..n |-> <<"item", <<d, batch[i]>>>>] \in Seq(Entry)
  <2>1. \A i \in 1..n : <<"item", <<d, batch[i]>>>> \in Entry
    BY <1>1 DEF Entry
  <2>2. QED BY <1>1, <2>1, IsASeq
<1>3. << <<"workspace", d>> >> \in Seq(Entry)
  <2>1. <<"workspace", d>> \in Entry
    BY DEF Entry
  <2>2. QED BY <2>1
<1>4. QED BY <1>2, <1>3, ConcatProperties DEF PublishPuts

LEMMA TypeInit == Init => TypeOK
BY NodeStoreAssumption DEF Init, TypeOK, Job, Idle

\* A token signed for an approved request is one.
LEMMA TokenType ==
  ASSUME TypeOK, NEW req \in Request, req.op # "publish", nextId <= MaxTokens,
         NEW t, t = [id |-> nextId, holder |-> req.from, why |-> <<req.op, req.arg>>]
  PROVE  t \in Token
<1>1. req.from \in Desktop /\ <<req.op, req.arg>> \in Why
  BY DEF Request, Why
<1>2. nextId \in 1..MaxTokens
  BY NodeStoreAssumption DEF TypeOK
<1>3. QED BY <1>1, <1>2 DEF Token

\* Accept is the only action that writes a new job; the type of what it writes.
LEMMA AcceptType == TypeOK /\ Accept => job' \in Job
<1> SUFFICES ASSUME TypeOK, Accept PROVE job' \in Job
  OBVIOUS
<1> DEFINE c == Head(backlog)
           token == [id |-> nextId, holder |-> c.req.from, why |-> <<c.req.op, c.req.arg>>]
<1>1. c \in [req : Request, live : BOOLEAN] /\ c.req \in Request /\ c.live \in BOOLEAN
  <2>1. backlog # <<>>
    BY DEF Accept
  <2>2. backlog \in Seq([req : Request, live : BOOLEAN])
    BY DEF TypeOK
  <2>3. c \in [req : Request, live : BOOLEAN]
    BY <2>1, <2>2, HeadTailProperties
  <2>4. QED BY <2>3
<1>2. ASSUME NEW ok \in BOOLEAN, NEW t \in Token \cup {NoToken}, NEW puts \in Seq(Entry)
      PROVE  Handler(c, ok, t, puts) \in Job
  <2>1. [busy |-> TRUE, live |-> c.live, req |-> c.req, ok |-> ok, token |-> t, puts |-> puts]
           \in [busy : {TRUE}, live : BOOLEAN, req : Request, ok : BOOLEAN,
                token : Token \cup {NoToken}, puts : Seq(Entry)]
    BY <1>1, <1>2
  <2>2. QED BY <2>1 DEF Handler, Job
<1>3. CASE job' = Handler(c, FALSE, NoToken, <<>>)
  <2>1. FALSE \in BOOLEAN /\ <<>> \in Seq(Entry)
    OBVIOUS
  <2>2. QED BY <1>2, <1>3, <2>1
<1>4. CASE /\ c.req.op = "publish"
           /\ \E n \in GoodItems(c.req.arg) :
                job' = Handler(c, n = Len(c.req.arg), NoToken, PublishPuts(c.req.from, c.req.arg, n))
  <2>1. c.req.from \in Desktop /\ c.req.arg \in Batch
    BY <1>1, <1>4 DEF Request
  <2>2. PICK n \in GoodItems(c.req.arg) :
                job' = Handler(c, n = Len(c.req.arg), NoToken, PublishPuts(c.req.from, c.req.arg, n))
    BY <1>4
  <2>3. (n = Len(c.req.arg)) \in BOOLEAN
    OBVIOUS
  <2>4. QED BY <1>2, <2>1, <2>2, <2>3, PublishPutsType
<1>5. CASE /\ c.req.op # "publish" /\ nextId <= MaxTokens
           /\ \/ c.req.op = "claim" /\ job' = Handler(c, TRUE, token, ClaimPuts(token))
              \/ c.req.op = "invite" /\ job' = Handler(c, TRUE, token, InvitePuts(token))
              \/ c.req.op = "reconnect" /\ job' = Handler(c, TRUE, token, ReconnectPuts(token))
  <2>1. token \in Token
    BY <1>1, <1>5, TokenType
  <2>2. TRUE \in BOOLEAN
    OBVIOUS
  <2>3. c.req.op = "invite" => token.why[1] = "invite" /\ token.why[2] \in Invite
    BY <1>1 DEF Request
  <2>4. RecordPuts(token) \in Seq(Entry) /\ ClaimPuts(token) \in Seq(Entry)
    BY <2>1, RecordPutsType, GrantPutsType
  <2>5. c.req.op = "invite" => InvitePuts(token) \in Seq(Entry)
    BY <2>1, <2>3, GrantPutsType
  <2> HIDE DEF token
  <2>6. QED BY <1>2, <1>5, <2>1, <2>2, <2>4, <2>5 DEF ReconnectPuts
<1>6. QED BY <1>3, <1>4, <1>5 DEF Accept

\* What Accept does to the rest of the state.
LEMMA AcceptCounts ==
  Accept => /\ ~job.busy /\ backlog # <<>> /\ backlog' = Tail(backlog)
            /\ UNCHANGED <<entries, wallet, acked, nextChallenge>>
            /\ \/ UNCHANGED <<challenges, nextId>>
               \/ /\ nextId <= MaxTokens /\ nextId' = nextId + 1
                  /\ challenges' = IF Head(backlog).req.op = "reconnect"
                       THEN challenges \ {Head(backlog).req.arg} ELSE challenges
BY Zenon DEF Accept

\* What a running handler is made of.
LEMMA JobParts ==
  ASSUME job \in Job, job.busy
  PROVE  /\ job \in [busy : {TRUE}, live : BOOLEAN, req : Request, ok : BOOLEAN,
                     token : Token \cup {NoToken}, puts : Seq(Entry)]
         /\ job.req \in Request /\ job.token \in Token \cup {NoToken} /\ job.puts \in Seq(Entry)
<1>1. job # Idle
  BY DEF Idle
<1>2. QED BY <1>1 DEF Job

LEMMA TypeStep == TypeOK /\ [Next]_vars => TypeOK'
<1> SUFFICES ASSUME TypeOK, [Next]_vars PROVE TypeOK'
  OBVIOUS
<1> USE NodeStoreAssumption
<1>1. ASSUME NEW req \in Request, Send(req) PROVE TypeOK'
  <2>1. [req |-> req, live |-> TRUE] \in [req : Request, live : BOOLEAN]
    OBVIOUS
  <2>2. backlog' \in Seq([req : Request, live : BOOLEAN])
    BY <1>1, <2>1, AppendProperties DEF TypeOK, Send
  <2>3. QED BY <1>1, <2>2 DEF TypeOK, Send
<1>2. CASE GiveUp
  <2>1. CASE \E i \in DOMAIN backlog :
               backlog' = [backlog EXCEPT ![i].live = FALSE] /\ job' = job
    <3>1. PICK i \in DOMAIN backlog : backlog' = [backlog EXCEPT ![i].live = FALSE]
      BY <2>1
    <3>2. backlog \in Seq([req : Request, live : BOOLEAN])
      BY DEF TypeOK
    <3>3. [backlog[i] EXCEPT !.live = FALSE] \in [req : Request, live : BOOLEAN]
      <4>1. backlog[i] \in [req : Request, live : BOOLEAN]
        BY <3>1, <3>2, ElementOfSeq, LenProperties
      <4>2. FALSE \in BOOLEAN
        OBVIOUS
      <4>3. QED BY <4>1, <4>2
    <3>4. backlog' \in Seq([req : Request, live : BOOLEAN])
      BY <3>1, <3>2, <3>3, ExceptSeq
    <3>5. QED BY <1>2, <2>1, <3>4 DEF TypeOK, GiveUp
  <2>2. CASE job.busy /\ job' = [job EXCEPT !.live = FALSE] /\ backlog' = backlog
    <3>1. job' \in Job
      BY <2>2, JobParts DEF TypeOK, Job
    <3>2. QED BY <1>2, <2>2, <3>1 DEF TypeOK, GiveUp
  <2>3. QED BY <1>2, <2>1, <2>2 DEF GiveUp
<1>3. CASE Accept
  <2>1. job' \in Job
    BY <1>3, AcceptType
  <2>2. backlog' \in Seq([req : Request, live : BOOLEAN])
    BY <1>3, AcceptCounts, HeadTailProperties DEF TypeOK
  <2>3. nextId' \in 1..(MaxTokens + 1) /\ challenges' \subseteq challenges
    BY <1>3, AcceptCounts DEF TypeOK
  <2>4. QED BY <1>3, <2>1, <2>2, <2>3, AcceptCounts DEF TypeOK
<1>4. CASE Put
  <2>1. Head(job.puts) \in Entry /\ Tail(job.puts) \in Seq(Entry)
    BY <1>4, JobParts, HeadTailProperties DEF TypeOK, Put
  <2>2. job' \in Job
    BY <1>4, <2>1, JobParts DEF TypeOK, Put, Job
  <2>3. QED BY <1>4, <2>1, <2>2 DEF TypeOK, Put
<1>5. CASE PutFails
  <2>1. job' \in Job
    <3>1. /\ job \in [busy : {TRUE}, live : BOOLEAN, req : Request, ok : BOOLEAN,
                     token : Token \cup {NoToken}, puts : Seq(Entry)]
          /\ job' = [job EXCEPT !.puts = <<>>, !.ok = FALSE]
      BY <1>5, JobParts DEF TypeOK, PutFails
    <3>2. FALSE \in BOOLEAN /\ <<>> \in Seq(Entry)
      OBVIOUS
    <3>3. job' \in [busy : {TRUE}, live : BOOLEAN, req : Request, ok : BOOLEAN,
                     token : Token \cup {NoToken}, puts : Seq(Entry)]
      BY <3>1, <3>2
    <3>4. QED BY <3>3 DEF Job
  <2>2. QED BY <1>5, <2>1 DEF TypeOK, PutFails
<1>6. CASE Reply
  <2>1. job.req \in Request /\ job.token \in Token \cup {NoToken}
    BY <1>6, JobParts DEF TypeOK, Reply
  <2>2. wallet' \subseteq Token
    BY <1>6, <2>1 DEF TypeOK, Reply
  <2>3. job.req.op = "publish" => job.req.from \in Desktop /\ job.req.arg \in Batch
    BY <2>1 DEF Request
  <2>4. acked' \subseteq Desktop \X Batch
    BY <1>6, <2>3 DEF TypeOK, Reply
  <2>5. QED BY <1>6, <2>2, <2>4 DEF TypeOK, Reply, Job
<1>7. CASE IssueChallenge
  BY <1>7 DEF TypeOK, IssueChallenge
<1>8. CASE Crash
  BY <1>8 DEF TypeOK, Crash, Job
<1>9. CASE UNCHANGED vars
  BY <1>9 DEF TypeOK, vars
<1>10. QED
  BY <1>1, <1>2, <1>3, <1>4, <1>5, <1>6, <1>7, <1>8, <1>9 DEF Next

\* TypeOK holds throughout: what the handlers write are entries, whatever is
\* asked of them and wherever they stop.
THEOREM StoreTypeCorrect == Spec => []TypeOK
BY TypeInit, TypeStep, PTL DEF Spec

-----------------------------------------------------------------------------
(* The inductive invariant                                                 *)
(*                                                                         *)
(* The properties do not carry themselves: that a token just recorded is   *)
(* the only one of its reason depends on the reason having been used up    *)
(* before, and on how far the running handler is with its writes.          *)

\* The reason of a token is used up: nothing will be signed for it again.
UsedUp(t) ==
  /\ t.why[1] \in {"claim", "reconnect"} => t.holder \in Claimants
  /\ t.why[1] = "invite" /\ t.why[2] \notin Public => t.why[2] \in Redeemed
  /\ t.why[1] = "reconnect" => t.why[2] < nextChallenge /\ t.why[2] \notin challenges

\* A token that may be recorded
Ready(t) == /\ UsedUp(t)
            /\ OneShot(t.why) => \A u \in Recorded : u.why # t.why

\* How far a handler is that signed t, by the writes it still owes
Granting(t) ==
  \/ t.why[1] = "claim" /\ Claimants = {} /\ job.puts = ClaimPuts(t)
  \/ /\ t.why[1] = "invite" /\ t.why[2] \in Invite \ (Public \cup Redeemed)
     /\ job.puts = << <<"spent", t.why[2]>> >> \o RecordPuts(t)
  \/ Ready(t) /\ job.puts = RecordPuts(t)
  \/ t \in Recorded /\ job.puts = << <<"index", t>> >>
  \/ job.puts = <<>> /\ (job.ok => t \in Recorded \cap Indexed)

\* How far accept_publish is
Publishing(d, batch) ==
  /\ \A i \in DOMAIN job.puts :
       \/ job.puts[i] = <<"workspace", d>>
       \/ \E x \in Item : job.puts[i] = <<"item", <<d, x>>>>
  /\ job.puts # <<>> => <<"workspace", d>> \in entries \cup {job.puts[1]}
  /\ job.ok => \A i \in DOMAIN batch :
                 \/ <<"item", <<d, batch[i]>>>> \in entries
                 \/ \E k \in DOMAIN job.puts : job.puts[k] = <<"item", <<d, batch[i]>>>>

JobInv ==
  job.busy =>
    \/ /\ job.req.op = "publish" /\ job.token = NoToken
       /\ Publishing(job.req.from, job.req.arg)
    \/ job.req.op # "publish" /\ job.token = NoToken /\ job.puts = <<>>
    \/ job.req.op # "publish" /\ job.token \in Token /\ Granting(job.token)

RecordInv ==
  /\ \A d, e \in Claimants : d = e
  /\ \A t \in Recorded : UsedUp(t)
  /\ \A t, u \in Recorded : t.why = u.why /\ OneShot(t.why) => t = u
  /\ IndexHasRecord
  /\ HandedOutIsLogged
  /\ AckedIsStored

StoreInv == TypeOK /\ RecordInv /\ JobInv

\* What one more entry does to the lists read back.
LEMMA Effects ==
  ASSUME NEW e, entries' = entries \cup {e}
  PROVE  /\ \A d \in Desktop : e = <<"relationship", d>> =>
              Claimants' = Claimants \cup {d} /\ UNCHANGED <<Redeemed, Recorded, Indexed>>
         /\ \A n \in Invite : e = <<"spent", n>> =>
              Redeemed' = Redeemed \cup {n} /\ UNCHANGED <<Claimants, Recorded, Indexed>>
         /\ \A t \in Token : e = <<"token", t>> =>
              Recorded' = Recorded \cup {t} /\ UNCHANGED <<Claimants, Redeemed, Indexed>>
         /\ \A t \in Token : e = <<"index", t>> =>
              Indexed' = Indexed \cup {t} /\ UNCHANGED <<Claimants, Redeemed, Recorded>>
<1>1. /\ \A d \in Desktop : d \in Claimants' <=> d \in Claimants \/ e = <<"relationship", d>>
      /\ \A n \in Invite : n \in Redeemed' <=> n \in Redeemed \/ e = <<"spent", n>>
      /\ \A t \in Token : t \in Recorded' <=> t \in Recorded \/ e = <<"token", t>>
      /\ \A t \in Token : t \in Indexed' <=> t \in Indexed \/ e = <<"index", t>>
  BY DEF Claimants, Redeemed, Recorded, Indexed
<1>2. /\ Claimants \subseteq Desktop /\ Claimants' \subseteq Desktop
      /\ Redeemed \subseteq Invite /\ Redeemed' \subseteq Invite
      /\ Recorded \subseteq Token /\ Recorded' \subseteq Token
      /\ Indexed \subseteq Token /\ Indexed' \subseteq Token
  BY DEF Claimants, Redeemed, Recorded, Indexed
<1>3. ASSUME NEW d \in Desktop, e = <<"relationship", d>>
      PROVE  Claimants' = Claimants \cup {d} /\ UNCHANGED <<Redeemed, Recorded, Indexed>>
  BY <1>1, <1>2, <1>3
<1>4. ASSUME NEW n \in Invite, e = <<"spent", n>>
      PROVE  Redeemed' = Redeemed \cup {n} /\ UNCHANGED <<Claimants, Recorded, Indexed>>
  BY <1>1, <1>2, <1>4
<1>5. ASSUME NEW t \in Token, e = <<"token", t>>
      PROVE  Recorded' = Recorded \cup {t} /\ UNCHANGED <<Claimants, Redeemed, Indexed>>
  BY <1>1, <1>2, <1>5
<1>6. ASSUME NEW t \in Token, e = <<"index", t>>
      PROVE  Indexed' = Indexed \cup {t} /\ UNCHANGED <<Claimants, Redeemed, Recorded>>
  BY <1>1, <1>2, <1>6
<1>7. QED BY <1>3, <1>4, <1>5, <1>6

\* A used-up reason stays used up.
LEMMA UsedUpStays ==
  ASSUME NEW t \in Token, UsedUp(t), TypeOK,
         Claimants \subseteq Claimants', Redeemed \subseteq Redeemed',
         nextChallenge' \in Nat, nextChallenge <= nextChallenge',
         challenges' \subseteq challenges \cup {nextChallenge}
  PROVE  UsedUp(t)'
<1>1. t.why[1] = "reconnect" => t.why[2] \in Nat
  BY DEF Token, Why
<1>2. nextChallenge \in Nat
  BY NodeStoreAssumption DEF TypeOK
<1>3. QED BY <1>1, <1>2 DEF UsedUp

\* The writes of a handler that grants, one by one.
LEMMA GrantWrites ==
  ASSUME NEW t
  PROVE  /\ ClaimPuts(t) # <<>> /\ Head(ClaimPuts(t)) = <<"relationship", t.holder>>
         /\ Tail(ClaimPuts(t)) = RecordPuts(t)
         /\ RecordPuts(t) # <<>> /\ Head(RecordPuts(t)) = <<"token", t>>
         /\ Tail(RecordPuts(t)) = << <<"index", t>> >>
         /\ \A n : LET puts == << <<"spent", n>> >> \o RecordPuts(t)
                   IN puts # <<>> /\ Head(puts) = <<"spent", n>> /\ Tail(puts) = RecordPuts(t)
         /\ \A e : << e >> # <<>> /\ Head(<< e >>) = e /\ Tail(<< e >>) = <<>>
<1> DEFINE r == RecordPuts(t)
<1>1. /\ r \in Seq({<<"token", t>>, <<"index", t>>}) /\ Len(r) = 2
      /\ r[1] = <<"token", t>> /\ r[2] = <<"index", t>>
  BY DEF RecordPuts
<1>2. r # <<>> /\ Head(r) = <<"token", t>> /\ Tail(r) = << <<"index", t>> >>
  BY DEF RecordPuts
<1>3. ASSUME NEW e PROVE /\ << e >> \o r # <<>> /\ Head(<< e >> \o r) = e
                         /\ Tail(<< e >> \o r) = r
  <2> HIDE DEF r
  <2> DEFINE S == {e, <<"token", t>>, <<"index", t>>}
  <2>1. << e >> \in Seq(S) /\ r \in Seq(S)
    BY <1>1
  <2>2. QED BY <2>1
<1>4. \A e : << e >> # <<>> /\ Head(<< e >>) = e /\ Tail(<< e >>) = <<>>
  OBVIOUS
<1>5. QED BY <1>2, <1>3, <1>4 DEF ClaimPuts

LEMMA InvInit == Init => StoreInv
<1> SUFFICES ASSUME Init PROVE StoreInv
  OBVIOUS
<1>1. Claimants = {} /\ Redeemed = {} /\ Recorded = {} /\ Indexed = {}
  BY DEF Init, Claimants, Redeemed, Recorded, Indexed
<1>2. RecordInv
  BY <1>1 DEF Init, RecordInv, IndexHasRecord, HandedOutIsLogged, AckedIsStored
<1>3. JobInv
  BY DEF Init, Idle, JobInv
<1>4. QED BY <1>2, <1>3, TypeInit DEF StoreInv

\* Steps that write no entry.
LEMMA RecordStays ==
  ASSUME StoreInv, UNCHANGED entries, TypeOK',
         wallet' \subseteq Recorded \cap Indexed,
         \A b \in acked' : \A i \in DOMAIN b[2] : <<"item", <<b[1], b[2][i]>>>> \in entries,
         nextChallenge <= nextChallenge',
         challenges' \subseteq challenges \cup {nextChallenge}
  PROVE  RecordInv'
<1>1. UNCHANGED <<Claimants, Redeemed, Recorded, Indexed>>
  BY DEF Claimants, Redeemed, Recorded, Indexed
<1>2. nextChallenge' \in Nat
  BY NodeStoreAssumption DEF TypeOK
<1>3. \A t \in Recorded : UsedUp(t)'
  <2>1. TAKE t \in Recorded
  <2>2. t \in Token /\ UsedUp(t)
    BY DEF StoreInv, RecordInv, Recorded
  <2>3. QED BY <1>1, <1>2, <2>2, UsedUpStays DEF StoreInv
<1>4. (\A t \in Recorded : UsedUp(t))'
  BY <1>1, <1>3
<1>5. AckedIsStored'
  BY DEF StoreInv, RecordInv, AckedIsStored
<1>6. QED
  BY <1>1, <1>4, <1>5 DEF StoreInv, RecordInv, IndexHasRecord, HandedOutIsLogged

\* What a write changes: one entry, and the rest of the job's writes.
LEMMA PutFacts ==
  ASSUME TypeOK, Put
  PROVE  /\ job.puts \in Seq(Entry) /\ job.puts # <<>>
         /\ entries' = entries \cup {Head(job.puts)}
         /\ job'.busy /\ job'.puts = Tail(job.puts)
         /\ job'.req = job.req /\ job'.token = job.token /\ job'.ok = job.ok
         /\ UNCHANGED <<challenges, wallet, acked, nextChallenge>>
<1>1. job \in [busy : {TRUE}, live : BOOLEAN, req : Request, ok : BOOLEAN,
              token : Token \cup {NoToken}, puts : Seq(Entry)]
  BY JobParts DEF TypeOK, Put
<1>2. QED BY <1>1 DEF Put

\* Entries only come; so what was used up stays so across a write.
LEMMA PutUsedUp ==
  ASSUME TypeOK, Put, NEW t \in Token, UsedUp(t)
  PROVE  UsedUp(t)'
<1>1. Claimants \subseteq Claimants' /\ Redeemed \subseteq Redeemed'
  BY PutFacts DEF Claimants, Redeemed
<1>2. nextChallenge \in Nat
  BY NodeStoreAssumption DEF TypeOK
<1>3. QED BY <1>1, <1>2, PutFacts, UsedUpStays

\* A write of a publish.
LEMMA PutPublish ==
  ASSUME StoreInv, Put, job.req.op = "publish"
  PROVE  RecordInv' /\ JobInv'
<1> DEFINE d == job.req.from
           b == job.req.arg
           e == Head(job.puts)
<1>1. /\ TypeOK /\ RecordInv /\ job.token = NoToken /\ Publishing(d, b)
  <2>1. job.busy
    BY DEF Put
  <2>2. QED BY <2>1 DEF StoreInv, JobInv
<1>2. job.puts \in Seq(Entry) /\ job.puts # <<>> /\ e = job.puts[1] /\ 1 \in DOMAIN job.puts
  BY <1>1, PutFacts
<1>3. e = <<"workspace", d>> \/ \E x \in Item : e = <<"item", <<d, x>>>>
  BY <1>1, <1>2 DEF Publishing
<1>4. UNCHANGED <<Claimants, Redeemed, Recorded, Indexed>>
  BY <1>1, <1>3, PutFacts DEF Claimants, Redeemed, Recorded, Indexed
<1>5. \A t \in Recorded' : UsedUp(t)'
  <2>1. \A t \in Recorded : UsedUp(t)'
    BY <1>1, PutUsedUp DEF RecordInv, Recorded
  <2>2. QED BY <1>4, <2>1
<1>6. AckedIsStored'
  <2>1. <<"workspace", d>> \in entries'
    BY <1>1, <1>2, PutFacts DEF Publishing
  <2>2. QED BY <1>1, <1>3, <2>1, PutFacts DEF RecordInv, AckedIsStored
<1>7. RecordInv'
  <2>1. (\A t \in Recorded : UsedUp(t))'
    BY <1>5
  <2>2. QED BY <1>1, <1>4, <1>6, <2>1, PutFacts
            DEF RecordInv, IndexHasRecord, HandedOutIsLogged
<1>8. Publishing(d, b)'
  <2>1. /\ Tail(job.puts) \in Seq(Entry) /\ Len(Tail(job.puts)) = Len(job.puts) - 1
        /\ \A i \in DOMAIN Tail(job.puts) : /\ i + 1 \in DOMAIN job.puts
                                            /\ Tail(job.puts)[i] = job.puts[i + 1]
    BY <1>2, HeadTailProperties
  <2>2. \A k \in DOMAIN job.puts : k = 1 \/ (k - 1 \in DOMAIN Tail(job.puts)
                                           /\ Tail(job.puts)[k - 1] = job.puts[k])
    BY <1>2, <2>1
  <2>3. <<"workspace", d>> \in entries'
    BY <1>1, <1>2, PutFacts DEF Publishing
  <2>4. job'.ok => \A i \in DOMAIN b :
           \/ <<"item", <<d, b[i]>>>> \in entries'
           \/ \E k \in DOMAIN job'.puts : job'.puts[k] = <<"item", <<d, b[i]>>>>
    <3>1. SUFFICES ASSUME job'.ok, NEW i \in DOMAIN b,
                          <<"item", <<d, b[i]>>>> \notin entries'
                   PROVE  \E k \in DOMAIN job'.puts : job'.puts[k] = <<"item", <<d, b[i]>>>>
      OBVIOUS
    <3>2. PICK k \in DOMAIN job.puts : job.puts[k] = <<"item", <<d, b[i]>>>>
      BY <1>1, <3>1, PutFacts DEF Publishing
    <3>3. k # 1
      BY <1>1, <1>2, <3>1, <3>2, PutFacts
    <3>4. QED BY <1>1, <2>2, <3>2, <3>3, PutFacts
  <2>5. \A i \in DOMAIN job'.puts :
           \/ job'.puts[i] = <<"workspace", d>>
           \/ \E x \in Item : job'.puts[i] = <<"item", <<d, x>>>>
    <3>1. \A i \in DOMAIN job.puts :
             \/ job.puts[i] = <<"workspace", d>>
             \/ \E x \in Item : job.puts[i] = <<"item", <<d, x>>>>
      BY <1>1 DEF Publishing
    <3>2. TAKE i \in DOMAIN job'.puts
    <3>3. i + 1 \in DOMAIN job.puts /\ job'.puts[i] = job.puts[i + 1]
      BY <1>1, <2>1, PutFacts
    <3>4. QED BY <3>1, <3>3, Zenon
  <2>6. job'.req.from = d /\ job'.req.arg = b
    BY <1>1, PutFacts
  <2>7. QED BY <2>3, <2>4, <2>5, <2>6 DEF Publishing
<1>9. JobInv'
  BY <1>1, <1>8, PutFacts DEF JobInv
<1>10. QED BY <1>7, <1>9

\* A write of a handler that grants.
LEMMA PutGrant ==
  ASSUME StoreInv, Put, job.req.op # "publish"
  PROVE  RecordInv' /\ JobInv'
<1> DEFINE t == job.token
           e == Head(job.puts)
<1>1. TypeOK /\ RecordInv
  BY DEF StoreInv
<1>2. t \in Token /\ Granting(t)
  <2>1. job.busy /\ job.puts # <<>>
    BY DEF Put
  <2>2. QED BY <2>1 DEF StoreInv, JobInv
<1>3. /\ entries' = entries \cup {e} /\ job.puts # <<>>
      /\ job'.token = t /\ job'.puts = Tail(job.puts) /\ job'.ok = job.ok
      /\ UNCHANGED <<challenges, wallet, acked, nextChallenge>>
  BY <1>1, PutFacts
<1>4. \A u \in Token : UsedUp(u) => UsedUp(u)'
  BY <1>1, PutUsedUp
<1>5. t.holder \in Desktop
  BY <1>2 DEF Token
<1>6. ASSUME e[1] \in {"relationship", "spent", "token", "index"} PROVE AckedIsStored'
  BY <1>1, <1>3, <1>6 DEF RecordInv, AckedIsStored
<1>7. CASE t.why[1] = "claim" /\ Claimants = {} /\ job.puts = ClaimPuts(t)
  <2>1. e = <<"relationship", t.holder>> /\ job'.puts = RecordPuts(t)
    BY <1>3, <1>7, GrantWrites
  <2>2. /\ Claimants' = {t.holder}
        /\ UNCHANGED <<Redeemed, Recorded, Indexed>>
    BY <1>3, <1>5, <1>7, <2>1, Effects
  <2>3. \A u \in Recorded : UsedUp(u)'
    BY <1>1, <1>4 DEF RecordInv, Recorded
  <2>4. \A u \in Recorded : u.why[1] # "claim"
    BY <1>1, <1>7 DEF RecordInv, UsedUp
  <2>5. RecordInv'
    <3>1. AckedIsStored'
      BY <1>6, <2>1
    <3>2. (\A u \in Recorded : UsedUp(u))'
      BY <2>2, <2>3
    <3>3. QED BY <1>1, <1>3, <2>2, <3>1, <3>2 DEF RecordInv, IndexHasRecord, HandedOutIsLogged
  <2>6. Ready(job.token)'
    <3>1. UsedUp(job.token)'
      BY <1>3, <1>7, <2>2 DEF UsedUp
    <3>2. (\A u \in Recorded : u.why # job.token.why)'
      BY <1>3, <1>7, <2>2, <2>4
    <3>3. QED BY <3>1, <3>2 DEF Ready
  <2>7. Granting(job.token)'
    BY <1>3, <2>1, <2>6 DEF Granting, RecordPuts
  <2>8. QED BY <1>1, <1>2, <1>3, <2>5, <2>7, PutFacts DEF JobInv
<1>8. CASE /\ t.why[1] = "invite" /\ t.why[2] \in Invite \ (Public \cup Redeemed)
           /\ job.puts = << <<"spent", t.why[2]>> >> \o RecordPuts(t)
  <2>1. e = <<"spent", t.why[2]>> /\ job'.puts = RecordPuts(t)
    <3>1. PICK n : n = t.why[2]
      OBVIOUS
    <3>2. job.puts = << <<"spent", n>> >> \o RecordPuts(t)
      BY <1>8, <3>1
    <3>3. /\ Head(<< <<"spent", n>> >> \o RecordPuts(t)) = <<"spent", n>>
          /\ Tail(<< <<"spent", n>> >> \o RecordPuts(t)) = RecordPuts(t)
      BY GrantWrites
    <3>4. QED BY <1>3, <3>1, <3>2, <3>3
  <2>2. /\ Redeemed' = Redeemed \cup {t.why[2]}
        /\ UNCHANGED <<Claimants, Recorded, Indexed>>
    BY <1>3, <1>8, <2>1, Effects
  <2>3. \A u \in Recorded : UsedUp(u)'
    BY <1>1, <1>4 DEF RecordInv, Recorded
  <2>4. \A u \in Recorded : u.why # t.why
    BY <1>1, <1>8 DEF RecordInv, UsedUp
  <2>5. RecordInv'
    <3>1. AckedIsStored'
      BY <1>6, <2>1
    <3>2. (\A u \in Recorded : UsedUp(u))'
      BY <2>2, <2>3
    <3>3. QED BY <1>1, <1>3, <2>2, <3>1, <3>2 DEF RecordInv, IndexHasRecord, HandedOutIsLogged
  <2>6. Ready(job.token)'
    <3>1. UsedUp(job.token)'
      BY <1>3, <1>8, <2>2 DEF UsedUp
    <3>2. (\A u \in Recorded : u.why # job.token.why)'
      BY <1>3, <2>2, <2>4
    <3>3. QED BY <3>1, <3>2 DEF Ready
  <2>7. Granting(job.token)'
    BY <1>3, <2>1, <2>6 DEF Granting, RecordPuts
  <2>8. QED BY <1>1, <1>2, <1>3, <2>5, <2>7, PutFacts DEF JobInv
<1>9. CASE Ready(t) /\ job.puts = RecordPuts(t)
  <2>1. e = <<"token", t>> /\ job'.puts = << <<"index", t>> >>
    BY <1>3, <1>9, GrantWrites
  <2>2. /\ Recorded' = Recorded \cup {t}
        /\ UNCHANGED <<Claimants, Redeemed, Indexed>>
    BY <1>2, <1>3, <2>1, Effects
  <2>3. \A u \in Recorded \cup {t} : UsedUp(u)'
    BY <1>1, <1>2, <1>4, <1>9 DEF RecordInv, Recorded, Ready
  <2>4. \A u, v \in Recorded \cup {t} : u.why = v.why /\ OneShot(u.why) => u = v
    BY <1>1, <1>9 DEF RecordInv, Ready
  <2>5. RecordInv'
    <3>1. AckedIsStored'
      BY <1>6, <2>1
    <3>2. (\A u \in Recorded : UsedUp(u))'
      BY <2>2, <2>3
    <3>3. (\A u, v \in Recorded : u.why = v.why /\ OneShot(u.why) => u = v)'
      BY <2>2, <2>4
    <3>4. QED BY <1>1, <1>3, <2>2, <3>1, <3>2, <3>3
              DEF RecordInv, IndexHasRecord, HandedOutIsLogged
  <2>6. Granting(job.token)'
    BY <1>3, <2>1, <2>2 DEF Granting
  <2>7. QED BY <1>1, <1>2, <1>3, <2>5, <2>6, PutFacts DEF JobInv
<1>10. CASE t \in Recorded /\ job.puts = << <<"index", t>> >>
  <2>1. e = <<"index", t>> /\ job'.puts = <<>>
    BY <1>3, <1>10, GrantWrites
  <2>2. /\ Indexed' = Indexed \cup {t}
        /\ UNCHANGED <<Claimants, Redeemed, Recorded>>
    BY <1>2, <1>3, <2>1, Effects
  <2>3. \A u \in Recorded : UsedUp(u)'
    BY <1>1, <1>4 DEF RecordInv, Recorded
  <2>4. RecordInv'
    <3>1. AckedIsStored'
      BY <1>6, <2>1
    <3>2. (\A u \in Recorded : UsedUp(u))'
      BY <2>2, <2>3
    <3>3. QED BY <1>1, <1>3, <1>10, <2>2, <3>1, <3>2
              DEF RecordInv, IndexHasRecord, HandedOutIsLogged
  <2>5. Granting(job.token)'
    BY <1>3, <1>10, <2>1, <2>2 DEF Granting
  <2>6. QED BY <1>1, <1>2, <1>3, <2>4, <2>5, PutFacts DEF JobInv
<1>11. QED
  BY <1>2, <1>3, <1>7, <1>8, <1>9, <1>10 DEF Granting

\* Accept leaves the record alone.
LEMMA AcceptRecord == StoreInv /\ TypeOK' /\ Accept => RecordInv'
<1> SUFFICES ASSUME StoreInv, TypeOK', Accept PROVE RecordInv'
  OBVIOUS
<1>1. nextChallenge \in Nat
  BY NodeStoreAssumption DEF StoreInv, TypeOK
<1>2. /\ wallet' \subseteq Recorded \cap Indexed
      /\ \A b \in acked' : \A i \in DOMAIN b[2] : <<"item", <<b[1], b[2][i]>>>> \in entries
  BY AcceptCounts DEF StoreInv, RecordInv, HandedOutIsLogged, AckedIsStored
<1>3. challenges' \subseteq challenges
  BY AcceptCounts
<1>4. QED BY <1>1, <1>2, <1>3, AcceptCounts, RecordStays

\* A handler starts with all its writes to come, for a reason not used up yet.
LEMMA AcceptJob == StoreInv /\ Accept => JobInv'
<1> SUFFICES ASSUME StoreInv, Accept PROVE JobInv'
  OBVIOUS
<1> DEFINE c == Head(backlog)
           d == c.req.from
           token == [id |-> nextId, holder |-> d, why |-> <<c.req.op, c.req.arg>>]
<1>1. TypeOK /\ RecordInv /\ c.req \in Request
  <2>1. backlog # <<>> /\ backlog \in Seq([req : Request, live : BOOLEAN])
    BY AcceptCounts DEF StoreInv, TypeOK
  <2>2. c \in [req : Request, live : BOOLEAN]
    BY <2>1, HeadTailProperties
  <2>3. QED BY <2>2 DEF StoreInv
<1>2. UNCHANGED <<Claimants, Redeemed, Recorded, Indexed, nextChallenge, entries>>
  BY AcceptCounts DEF Claimants, Redeemed, Recorded, Indexed
<1>3. CASE ~Approves(c.req) /\ job' = Handler(c, FALSE, NoToken, <<>>)
  <2>1. job'.token = NoToken /\ job'.puts = <<>> /\ ~job'.ok
    BY <1>3 DEF Handler
  <2>2. Publishing(job.req.from, job.req.arg)'
    BY <2>1 DEF Publishing
  <2>3. QED BY <2>1, <2>2 DEF JobInv
<1>4. CASE /\ c.req.op = "publish"
           /\ \E n \in GoodItems(c.req.arg) :
                job' = Handler(c, n = Len(c.req.arg), NoToken, PublishPuts(d, c.req.arg, n))
  <2> DEFINE b == c.req.arg
  <2>1. PICK n \in GoodItems(b) : job' = Handler(c, n = Len(b), NoToken, PublishPuts(d, b, n))
    BY <1>4
  <2>2. /\ job'.req = c.req /\ job'.token = NoToken
        /\ job'.puts = PublishPuts(d, b, n) /\ (job'.ok <=> n = Len(b))
    BY <2>1 DEF Handler
  <2>3. b \in Seq(Item) /\ n \in 0..Len(b)
    BY <1>1, <1>4, NodeStoreAssumption DEF Request, GoodItems
  <2> DEFINE p == PublishPuts(d, b, n)
  <2>4. /\ DOMAIN p = 1..(n + 1) /\ p[1] = <<"workspace", d>>
        /\ \A i \in 1..n : p[i + 1] = <<"item", <<d, b[i]>>>>
    <3> DEFINE h == << <<"workspace", d>> >>
               q == [i \in 1..n |-> <<"item", <<d, b[i]>>>>]
               S == {<<"workspace", d>>} \cup ({"item"} \X ({d} \X Item))
    <3>1. h \in Seq(S) /\ Len(h) = 1 /\ h[1] = <<"workspace", d>>
      OBVIOUS
    <3>2. q \in Seq(S) /\ Len(q) = n
      <4>1. \A i \in 1..n : <<"item", <<d, b[i]>>>> \in S
        BY <2>3
      <4>2. n \in Nat
        BY <2>3
      <4>3. QED BY <4>1, <4>2, IsASeq
    <3>3. \A i \in 1..n : q[i] = <<"item", <<d, b[i]>>>>
      OBVIOUS
    <3>4. p = h \o q
      BY DEF PublishPuts
    <3> HIDE DEF h, q, S, p
    <3>5. /\ h \o q \in Seq(S) /\ Len(h \o q) = 1 + n
          /\ \A i \in 1..(1 + n) : (h \o q)[i] = IF i <= 1 THEN h[i] ELSE q[i - 1]
      BY <3>1, <3>2, ConcatProperties
    <3>6. n \in Nat
      BY <2>3
    <3>7. DOMAIN p = 1..(n + 1)
      BY <3>4, <3>5, <3>6
    <3>8. p[1] = <<"workspace", d>>
      BY <3>1, <3>4, <3>5, <3>6
    <3>9. \A i \in 1..n : p[i + 1] = q[i]
      BY <3>4, <3>5, <3>6
    <3>10. QED BY <3>3, <3>7, <3>8, <3>9
  <2> HIDE DEF p
  <2>5. \A i \in DOMAIN p : \/ p[i] = <<"workspace", d>>
                            \/ \E x \in Item : p[i] = <<"item", <<d, x>>>>
    <3>1. TAKE i \in DOMAIN p
    <3>2. CASE i = 1
      BY <2>4, <3>2
    <3>3. CASE i # 1
      <4>1. i - 1 \in 1..n /\ i = (i - 1) + 1
        BY <2>3, <2>4, <3>3
      <4>2. b[i - 1] \in Item
        BY <2>3, <4>1
      <4>3. p[i] = <<"item", <<d, b[i - 1]>>>>
        BY <2>4, <4>1
      <4>4. QED BY <4>2, <4>3
    <3>4. QED BY <3>2, <3>3
  <2>6. n = Len(b) => \A i \in DOMAIN b : \E k \in DOMAIN p : p[k] = <<"item", <<d, b[i]>>>>
    <3>1. SUFFICES ASSUME n = Len(b), NEW i \in DOMAIN b
                   PROVE  \E k \in DOMAIN p : p[k] = <<"item", <<d, b[i]>>>>
      OBVIOUS
    <3>2. i + 1 \in DOMAIN p /\ p[i + 1] = <<"item", <<d, b[i]>>>>
      BY <2>3, <2>4, <3>1
    <3>3. QED BY <3>2
  <2>7. Publishing(job.req.from, job.req.arg)'
    <3>1. job'.puts = p /\ job'.req.from = d /\ job'.req.arg = b
      BY <2>2 DEF p
    <3>2. \A i \in DOMAIN job'.puts :
             \/ job'.puts[i] = <<"workspace", d>>
             \/ \E x \in Item : job'.puts[i] = <<"item", <<d, x>>>>
      BY <2>5, <3>1, Zenon
    <3>3. job'.puts # <<>> => <<"workspace", d>> \in entries' \cup {job'.puts[1]}
      BY <2>4, <3>1
    <3>4. job'.ok => \A i \in DOMAIN b :
             \E k \in DOMAIN job'.puts : job'.puts[k] = <<"item", <<d, b[i]>>>>
      BY <2>2, <2>6, <3>1, Zenon
    <3>5. QED BY <3>1, <3>2, <3>3, <3>4 DEF Publishing
  <2>8. QED BY <1>4, <2>2, <2>7 DEF JobInv
<1>5. CASE /\ Approves(c.req) /\ c.req.op # "publish" /\ nextId <= MaxTokens
           /\ \/ c.req.op = "claim" /\ job' = Handler(c, TRUE, token, ClaimPuts(token))
              \/ c.req.op = "invite" /\ job' = Handler(c, TRUE, token, InvitePuts(token))
              \/ c.req.op = "reconnect" /\ job' = Handler(c, TRUE, token, ReconnectPuts(token))
           /\ challenges' = IF c.req.op = "reconnect" THEN challenges \ {c.req.arg} ELSE challenges
  <2>1. /\ token \in Token /\ token.holder = d
        /\ token.why[1] = c.req.op /\ token.why[2] = c.req.arg
    BY <1>1, <1>5, TokenType
  <2>2. /\ job'.req = c.req /\ job'.token = token
        /\ c.req.op = "claim" => job'.puts = ClaimPuts(token)
        /\ c.req.op = "invite" => job'.puts = InvitePuts(token)
        /\ c.req.op = "reconnect" => job'.puts = RecordPuts(token)
    BY <1>5 DEF Handler, ReconnectPuts
  <2> HIDE DEF token
  <2>3. CASE c.req.op = "claim"
    <3>1. Claimants = {}
      BY <1>5, <2>3 DEF Approves
    <3>2. Granting(job.token)'
      BY <1>2, <2>1, <2>2, <2>3, <3>1 DEF Granting
    <3>3. QED BY <1>5, <2>1, <2>2, <3>2 DEF JobInv
  <2>4. CASE c.req.op = "invite"
    <3>1. c.req.arg \in Invite /\ c.req.arg \notin Redeemed
      BY <1>1, <1>5, <2>4 DEF Approves, Request
    <3>2. CASE c.req.arg \in Public
      <4>1. job'.puts = RecordPuts(token)
        <5>1. InvitePuts(token) = <<>> \o RecordPuts(token)
          BY <2>1, <3>2 DEF InvitePuts
        <5>2. RecordPuts(token) \in Seq(Entry)
          BY <2>1, RecordPutsType
        <5>3. QED BY <2>2, <2>4, <5>1, <5>2, ConcatEmptySeq
      <4>2. Ready(job.token)'
        BY <2>1, <2>2, <2>4, <3>2 DEF Ready, UsedUp, OneShot
      <4>3. Granting(job.token)'
        BY <2>2, <4>1, <4>2 DEF Granting
      <4>4. QED BY <1>5, <2>1, <2>2, <4>3 DEF JobInv
    <3>3. CASE c.req.arg \notin Public
      <4>1. job'.puts = << <<"spent", token.why[2]>> >> \o RecordPuts(token)
        BY <2>1, <2>2, <2>4, <3>3 DEF InvitePuts
      <4>2. Granting(job.token)'
        BY <1>2, <2>1, <2>2, <2>4, <3>1, <3>3, <4>1 DEF Granting
      <4>3. QED BY <1>5, <2>1, <2>2, <4>2 DEF JobInv
    <3>4. QED BY <3>2, <3>3
  <2>5. CASE c.req.op = "reconnect"
    <3>1. d \in Claimants /\ c.req.arg \in challenges /\ c.req.arg < nextChallenge
      <4>1. d \in Claimants /\ c.req.arg \in challenges
        BY <1>5, <2>5 DEF Approves
      <4>2. challenges \subseteq 1..(nextChallenge - 1) /\ nextChallenge \in Nat
        BY <1>1, NodeStoreAssumption DEF TypeOK
      <4>3. \A x \in challenges : x < nextChallenge
        BY <4>2
      <4>4. QED BY <4>1, <4>3
    <3>2. \A u \in Recorded : u.why # token.why
      BY <1>1, <2>1, <2>5, <3>1 DEF RecordInv, UsedUp
    <3>3. UsedUp(job.token)'
      BY <1>2, <1>5, <2>1, <2>2, <2>5, <3>1 DEF UsedUp
    <3>4. (\A u \in Recorded : u.why # job.token.why)'
      BY <1>2, <2>2, <3>2
    <3>5. Granting(job.token)'
      BY <2>2, <2>5, <3>3, <3>4 DEF Granting, Ready
    <3>6. QED BY <1>5, <2>1, <2>2, <3>5 DEF JobInv
  <2>6. QED BY <1>5, <2>3, <2>4, <2>5
<1>6. QED BY <1>3, <1>4, <1>5 DEF Accept

\* The steps that leave entries and the running handler's writes alone, or end it.
LEMMA OtherJob ==
  ASSUME StoreInv, UNCHANGED <<entries, nextChallenge, challenges>>,
         \/ ~job'.busy
         \/ /\ job.busy /\ job'.req = job.req /\ job'.token = job.token
            /\ \/ job'.puts = job.puts /\ job'.ok = job.ok
               \/ job'.puts = <<>> /\ ~job'.ok
  PROVE  JobInv'
<1>1. UNCHANGED <<Claimants, Redeemed, Recorded, Indexed>>
  BY DEF Claimants, Redeemed, Recorded, Indexed
<1>2. CASE ~job'.busy
  BY <1>2 DEF JobInv
<1>3. CASE /\ job.busy /\ job'.req = job.req /\ job'.token = job.token
           /\ job'.puts = job.puts /\ job'.ok = job.ok
  <2>1. Publishing(job.req.from, job.req.arg) => Publishing(job.req.from, job.req.arg)'
    BY <1>3 DEF Publishing
  <2>2. Granting(job.token) => Granting(job.token)'
    BY <1>1, <1>3 DEF Granting, Ready, UsedUp
  <2>3. QED BY <1>3, <2>1, <2>2 DEF StoreInv, JobInv
<1>4. CASE /\ job.busy /\ job'.req = job.req /\ job'.token = job.token
           /\ job'.puts = <<>> /\ ~job'.ok
  <2>1. Publishing(job.req.from, job.req.arg)'
    BY <1>4 DEF Publishing
  <2>2. Granting(job.token)'
    BY <1>4 DEF Granting
  <2>3. QED BY <1>4, <2>1, <2>2 DEF StoreInv, JobInv
<1>5. QED BY <1>2, <1>3, <1>4

\* What an answer may promise: the log has the token, the store the batch.
LEMMA ReplyRecord ==
  ASSUME StoreInv, Reply
  PROVE  /\ wallet' \subseteq Recorded \cap Indexed
         /\ \A b \in acked' : \A i \in DOMAIN b[2] : <<"item", <<b[1], b[2][i]>>>> \in entries
<1>1. RecordInv /\ JobInv /\ job.busy /\ job.puts = <<>>
  BY DEF StoreInv, Reply
<1>2. ASSUME job.ok, job.token # NoToken PROVE job.token \in Recorded \cap Indexed
  <2>1. job.token \in Token /\ Granting(job.token)
    BY <1>1, <1>2 DEF JobInv
  <2>2. /\ job.puts # ClaimPuts(job.token) /\ job.puts # RecordPuts(job.token)
        /\ job.puts # << <<"index", job.token>> >>
    BY <1>1, <2>1, GrantWrites
  <2>3. job.puts # << <<"spent", job.token.why[2]>> >> \o RecordPuts(job.token)
    <3>1. \A n : << <<"spent", n>> >> \o RecordPuts(job.token) # <<>>
      BY GrantWrites
    <3>2. PICK n : n = job.token.why[2]
      OBVIOUS
    <3>3. << <<"spent", n>> >> \o RecordPuts(job.token) # <<>>
      BY <3>1
    <3>4. QED BY <1>1, <3>2, <3>3
  <2>4. QED BY <1>2, <2>1, <2>2, <2>3 DEF Granting
<1>3. ASSUME job.ok, job.req.op = "publish"
      PROVE  \A i \in DOMAIN job.req.arg : <<"item", <<job.req.from, job.req.arg[i]>>>> \in entries
  <2>1. Publishing(job.req.from, job.req.arg)
    BY <1>1, <1>3 DEF JobInv
  <2>2. DOMAIN job.puts = {}
    BY <1>1
  <2>3. QED BY <1>3, <2>1, <2>2 DEF Publishing
<1>4. \/ wallet' = wallet
      \/ wallet' = wallet \cup {job.token} /\ job.ok /\ job.token # NoToken
  BY DEF Reply
<1>5. \/ acked' = acked
      \/ acked' = acked \cup {<<job.req.from, job.req.arg>>} /\ job.ok /\ job.req.op = "publish"
  BY DEF Reply
<1>6. wallet' \subseteq Recorded \cap Indexed
  BY <1>1, <1>2, <1>4 DEF RecordInv, HandedOutIsLogged
<1>7. \A b \in acked' : \A i \in DOMAIN b[2] : <<"item", <<b[1], b[2][i]>>>> \in entries
  <2>1. \A b \in acked : \A i \in DOMAIN b[2] : <<"item", <<b[1], b[2][i]>>>> \in entries
    BY <1>1 DEF RecordInv, AckedIsStored
  <2>2. PICK d, batch : d = job.req.from /\ batch = job.req.arg
    OBVIOUS
  <2>3. ASSUME job.ok, job.req.op = "publish"
        PROVE  \A i \in DOMAIN batch : <<"item", <<d, batch[i]>>>> \in entries
    BY <1>3, <2>2, <2>3
  <2>4. <<d, batch>>[1] = d /\ <<d, batch>>[2] = batch
    OBVIOUS
  <2>5. TAKE b \in acked'
  <2>6. CASE b \in acked
    BY <2>1, <2>6
  <2>7. CASE b = <<d, batch>> /\ job.ok /\ job.req.op = "publish"
    BY <2>3, <2>4, <2>7
  <2>8. QED BY <1>5, <2>2, <2>5, <2>6, <2>7
<1>8. QED BY <1>6, <1>7

LEMMA InvStep == StoreInv /\ [Next]_vars => StoreInv'
<1> SUFFICES ASSUME StoreInv, [Next]_vars PROVE RecordInv' /\ JobInv'
  BY TypeStep DEF StoreInv
<1>1. TypeOK /\ TypeOK' /\ nextChallenge \in Nat
  BY TypeStep, NodeStoreAssumption DEF StoreInv, TypeOK
<1>2. /\ wallet \subseteq Recorded \cap Indexed
      /\ \A b \in acked : \A i \in DOMAIN b[2] : <<"item", <<b[1], b[2][i]>>>> \in entries
  BY DEF StoreInv, RecordInv, HandedOutIsLogged, AckedIsStored
<1>3. JobInv
  BY DEF StoreInv
<1>4. ASSUME UNCHANGED <<entries, wallet, acked, nextChallenge>>,
             challenges' \subseteq challenges
      PROVE  RecordInv'
  BY <1>1, <1>2, <1>4, RecordStays
<1>5. ASSUME NEW req \in Request, Send(req) PROVE RecordInv' /\ JobInv'
  <2>1. UNCHANGED <<entries, challenges, job, wallet, acked, nextId, nextChallenge>>
    BY <1>5 DEF Send
  <2>2. ~job'.busy \/ (/\ job.busy /\ job'.req = job.req /\ job'.token = job.token
                      /\ job'.puts = job.puts /\ job'.ok = job.ok)
    BY <2>1
  <2>3. QED BY <1>4, <2>1, <2>2, OtherJob
<1>6. CASE GiveUp
  <2>1. UNCHANGED <<entries, challenges, wallet, acked, nextId, nextChallenge>>
    BY <1>6 DEF GiveUp
  <2>2. ~job'.busy \/ (/\ job.busy /\ job'.req = job.req /\ job'.token = job.token
                      /\ job'.puts = job.puts /\ job'.ok = job.ok)
    BY <1>1, <1>6, JobParts DEF GiveUp, TypeOK
  <2>3. QED BY <1>4, <2>1, <2>2, OtherJob
<1>7. CASE Accept
  BY <1>1, <1>7, AcceptRecord, AcceptJob
<1>8. CASE Put
  BY <1>8, PutPublish, PutGrant
<1>9. CASE PutFails
  <2>1. UNCHANGED <<entries, challenges, backlog, wallet, acked, nextId, nextChallenge>>
    BY <1>9 DEF PutFails
  <2>2. /\ job.busy /\ job'.req = job.req /\ job'.token = job.token
        /\ job'.puts = <<>> /\ ~job'.ok
    <3>1. job.busy /\ job' = [job EXCEPT !.puts = <<>>, !.ok = FALSE]
      BY <1>9 DEF PutFails
    <3>2. job \in [busy : {TRUE}, live : BOOLEAN, req : Request, ok : BOOLEAN,
                  token : Token \cup {NoToken}, puts : Seq(Entry)]
      BY <1>1, <3>1, JobParts DEF TypeOK
    <3>3. QED BY <3>1, <3>2
  <2>3. QED BY <1>4, <2>1, <2>2, OtherJob
<1>10. CASE Reply
  <2>1. UNCHANGED <<entries, challenges, nextChallenge>> /\ ~job'.busy
    BY <1>10 DEF Reply, Idle
  <2>2. RecordInv'
    BY <1>1, <1>10, <2>1, ReplyRecord, RecordStays
  <2>3. QED BY <2>1, <2>2, OtherJob
<1>11. CASE IssueChallenge
  <2>1. /\ UNCHANGED <<entries, job, wallet, acked>> /\ ~job.busy
        /\ nextChallenge' = nextChallenge + 1
        /\ challenges' = challenges \cup {nextChallenge}
    BY <1>11 DEF IssueChallenge
  <2>2. RecordInv'
    BY <1>1, <1>2, <2>1, RecordStays
  <2>3. QED BY <2>1, <2>2 DEF JobInv
<1>12. CASE Crash
  <2>1. /\ UNCHANGED <<entries, wallet, acked, nextChallenge>> /\ ~job'.busy
        /\ challenges' = {}
    BY <1>12 DEF Crash, Idle
  <2>2. QED BY <1>4, <2>1 DEF JobInv
<1>13. CASE UNCHANGED vars
  <2>1. UNCHANGED <<entries, challenges, job, wallet, acked, nextChallenge>>
    BY <1>13 DEF vars
  <2>2. ~job'.busy \/ (/\ job.busy /\ job'.req = job.req /\ job'.token = job.token
                      /\ job'.puts = job.puts /\ job'.ok = job.ok)
    BY <2>1
  <2>3. QED BY <1>4, <2>1, <2>2, OtherJob
<1>14. QED
  BY <1>5, <1>6, <1>7, <1>8, <1>9, <1>10, <1>11, <1>12, <1>13 DEF Next

LEMMA InvHolds == Spec => []StoreInv
BY InvInit, InvStep, PTL DEF Spec

-----------------------------------------------------------------------------
(* The theorems *)

\* The holder index never names a token the log lost, wherever the process died
\* between the two writes of Admin::record.
THEOREM IndexCorrect == Spec => []IndexHasRecord
<1>1. StoreInv => IndexHasRecord
  BY DEF StoreInv, RecordInv
<1>2. QED BY <1>1, InvHolds, PTL

\* A claim, a single-use invite and a reconnect challenge are each good for one
\* token, over any retries, lost answers and restarts.
THEOREM OnceEachCorrect == Spec => []OnceEach
<1>1. StoreInv => OnceEach
  BY DEF StoreInv, RecordInv, HandedOutIsLogged, OnceEach
<1>2. QED BY <1>1, InvHolds, PTL

\* The node has one claimant, and whoever was granted it is that one.
THEOREM OwnersCorrect == Spec => []OwnersAreTheClaimant
<1>1. StoreInv => OwnersAreTheClaimant
  BY DEF StoreInv, RecordInv, HandedOutIsLogged, OwnersAreTheClaimant, UsedUp
<1>2. QED BY <1>1, InvHolds, PTL

\* Every token a desktop holds is in the log and in its index.
THEOREM LogCorrect == Spec => []HandedOutIsLogged
<1>1. StoreInv => HandedOutIsLogged
  BY DEF StoreInv, RecordInv
<1>2. QED BY <1>1, InvHolds, PTL

\* A publish answered "ok" is all there and stays; no item without its header.
THEOREM PublishCorrect == Spec => []AckedIsStored
<1>1. StoreInv => AckedIsStored
  BY DEF StoreInv, RecordInv
<1>2. QED BY <1>1, InvHolds, PTL

\* Over any crash, lost answer and failed write, the store does nothing the
\* Ledger would not: every step is one of the Ledger's, or none of its business.
LEMMA LedgerInit == Init => Abstract!Init
BY DEF Init, Abstract!Init, Claimants, Redeemed, Recorded

LEMMA LedgerStep == StoreInv /\ [Next]_vars => [Abstract!Next]_(Abstract!vars)
<1> SUFFICES ASSUME StoreInv, [Next]_vars
             PROVE  Abstract!Next \/ UNCHANGED <<Claimants, Redeemed, Recorded, wallet>>
  BY DEF Abstract!vars
<1>1. TypeOK /\ RecordInv /\ JobInv
  BY DEF StoreInv
<1>2. ASSUME UNCHANGED <<entries, wallet>>
      PROVE  UNCHANGED <<Claimants, Redeemed, Recorded, wallet>>
  BY <1>2 DEF Claimants, Redeemed, Recorded
<1>3. CASE Put
  <2> DEFINE t == job.token
             e == Head(job.puts)
  <2>1. entries' = entries \cup {e} /\ job.puts # <<>> /\ wallet' = wallet /\ job.busy
    BY <1>1, <1>3, PutFacts DEF Put
  <2>2. CASE job.req.op = "publish"
    <3>1. Publishing(job.req.from, job.req.arg)
      BY <1>1, <2>1, <2>2 DEF JobInv
    <3>2. e = job.puts[1] /\ 1 \in DOMAIN job.puts
      BY <1>1, <1>3, PutFacts
    <3>3. \E d : e = <<"workspace", d>> \/ \E x : e = <<"item", <<d, x>>>>
      BY <3>1, <3>2 DEF Publishing
    <3>4. QED BY <2>1, <3>3 DEF Claimants, Redeemed, Recorded
  <2>3. CASE job.req.op # "publish"
    <3>1. t \in Token /\ Granting(t) /\ t.holder \in Desktop
      BY <1>1, <2>1, <2>3 DEF JobInv, Token
    <3>2. CASE t.why[1] = "claim" /\ Claimants = {} /\ job.puts = ClaimPuts(t)
      <4>1. e = <<"relationship", t.holder>>
        BY <3>2, GrantWrites
      <4>2. Claimants' = {t.holder} /\ UNCHANGED <<Redeemed, Recorded>>
        BY <2>1, <3>1, <3>2, <4>1, Effects
      <4>3. Abstract!Claim(t.holder)
        BY <2>1, <3>2, <4>2 DEF Abstract!Claim
      <4>4. QED BY <3>1, <4>3 DEF Abstract!Next
    <3>3. CASE /\ t.why[1] = "invite" /\ t.why[2] \in Invite \ (Public \cup Redeemed)
               /\ job.puts = << <<"spent", t.why[2]>> >> \o RecordPuts(t)
      <4>1. e = <<"spent", t.why[2]>>
        <5>1. PICK n : n = t.why[2]
          OBVIOUS
        <5>2. Head(<< <<"spent", n>> >> \o RecordPuts(t)) = <<"spent", n>>
          BY GrantWrites
        <5>3. QED BY <3>3, <5>1, <5>2
      <4>2. Redeemed' = Redeemed \cup {t.why[2]} /\ UNCHANGED <<Claimants, Recorded>>
        BY <2>1, <3>3, <4>1, Effects
      <4>3. t.why[1] = "invite" /\ Abstract!Spend(t.why[2])
        BY <2>1, <3>3, <4>2 DEF Abstract!Spend
      <4>4. QED BY <3>1, <4>3 DEF Abstract!Next
    <3>4. CASE Ready(t) /\ job.puts = RecordPuts(t)
      <4>1. e = <<"token", t>>
        BY <3>4, GrantWrites
      <4>2. Recorded' = Recorded \cup {t} /\ UNCHANGED <<Claimants, Redeemed>>
        BY <2>1, <3>1, <4>1, Effects
      <4>3. Abstract!Grant(t)
        BY <2>1, <3>4, <4>2 DEF Abstract!Grant, Abstract!OneShot, OneShot, Ready, UsedUp
      <4>4. QED BY <3>1, <4>3 DEF Abstract!Next
    <3>5. CASE t \in Recorded /\ job.puts = << <<"index", t>> >>
      <4>1. e = <<"index", t>>
        BY <3>5, GrantWrites
      <4>2. QED BY <2>1, <3>1, <4>1, Effects
    <3>6. QED BY <2>1, <3>1, <3>2, <3>3, <3>4, <3>5 DEF Granting
  <2>4. QED BY <2>2, <2>3
<1>4. CASE Reply
  <2>1. UNCHANGED <<Claimants, Redeemed, Recorded>>
    BY <1>4 DEF Reply, Claimants, Redeemed, Recorded
  <2>2. wallet' = wallet \/ wallet' = wallet \cup {job.token}
    BY <1>4 DEF Reply
  <2>3. wallet' \subseteq Recorded
    BY <1>4, ReplyRecord
  <2>4. CASE wallet' = wallet \cup {job.token}
    <3>1. job.token \in Recorded /\ job.token \in Token
      BY <2>3, <2>4 DEF Recorded
    <3>2. Abstract!HandOut(job.token)
      BY <2>1, <2>4, <3>1 DEF Abstract!HandOut
    <3>3. QED BY <3>1, <3>2 DEF Abstract!Next
  <2>5. QED BY <2>1, <2>2, <2>4
<1>5. ASSUME NEW req \in Request, Send(req) PROVE UNCHANGED <<entries, wallet>>
  BY <1>5 DEF Send
<1>6. CASE GiveUp \/ PutFails \/ IssueChallenge \/ Crash \/ UNCHANGED vars
  BY <1>2, <1>6 DEF GiveUp, PutFails, IssueChallenge, Crash, vars
<1>7. CASE Accept
  BY <1>2, <1>7, AcceptCounts
<1>8. QED
  BY <1>2, <1>3, <1>4, <1>5, <1>6, <1>7 DEF Next

\* The node's store implements the Ledger.
THEOREM LedgerImplemented == Spec => ImplementsLedger
BY LedgerInit, LedgerStep, InvHolds, PTL DEF Spec, ImplementsLedger, Abstract!Spec
=============================================================================
