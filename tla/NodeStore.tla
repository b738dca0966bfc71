----------------------------- MODULE NodeStore -----------------------------
(***************************************************************************)
(* The node's records (kunki's Admin) under crashes and lost replies.  The *)
(* accept loop takes one request at a time.  A handler reads its lists,    *)
(* decides and signs, and then writes vault entries one by one; each entry *)
(* is one transaction of the store, and the process may die, or a write    *)
(* may fail, between any two.  Only the entries survive.                   *)
(*                                                                         *)
(* Reconnecting has no verb on the bridge yet; here it is a request, which *)
(* is what its handler is written for.                                     *)
(*                                                                         *)
(* An entry is <<kind, key>>.  What tokens and attestations must say is    *)
(* Authority's subject; requests here are well-formed and unexpired.  A    *)
(* token carries the reason it was signed for (see Ledger), which the node *)
(* itself does not keep.                                                   *)
(***************************************************************************)
EXTENDS Naturals, Sequences

CONSTANTS Desktop,          \* the desktops
          Invite, Public,   \* nonces of invite tickets; those minted public
          Item, BadKind,    \* items to publish; those whose kind does not parse
          Batch,            \* the item lists desktops publish (sequences)
          MaxTokens,        \* bound: tokens ever signed
          MaxChallenges,    \* bound: reconnect challenges ever issued
          MaxBacklog        \* bound: connections waiting to be accepted

ASSUME NodeStoreAssumption ==
  /\ Public \subseteq Invite /\ BadKind \subseteq Item /\ Batch \subseteq Seq(Item)
  /\ MaxTokens \in Nat /\ MaxChallenges \in Nat /\ MaxBacklog \in Nat

VARIABLES entries,          \* the vault's entries: all that is durable
          challenges,       \* reconnect challenges in memory
          backlog,          \* requests whose connection is not yet accepted
          job,              \* the handler that is running
          wallet,           \* tokens that reached their desktops
          acked,            \* batches whose publisher was told "ok"
          nextId,           \* next unused token id
          nextChallenge     \* next unused challenge
vars == <<entries, challenges, backlog, job, wallet, acked, nextId, nextChallenge>>

Why == {<<"claim", 0>>} \cup ({"invite"} \X Invite)
         \cup ({"reconnect"} \X (1..MaxChallenges))
Token == [id : 1..MaxTokens, holder : Desktop, why : Why]
NoToken == [id |-> 0]

\* The entries the store may hold.  A batch is one workspace, so its header
\* needs no name: "workspace" of the publisher.
Entry == ({"relationship"} \X Desktop) \cup ({"spent"} \X Invite)
           \cup ({"token", "index"} \X Token)
           \cup ({"workspace"} \X Desktop) \cup ({"item"} \X (Desktop \X Item))

Request == [op : {"claim"}, from : Desktop, arg : {0}]
             \cup [op : {"invite"}, from : Desktop, arg : Invite]
             \cup [op : {"reconnect"}, from : Desktop, arg : 1..MaxChallenges]
             \cup [op : {"publish"}, from : Desktop, arg : Batch]

Idle == [busy |-> FALSE]

Init ==
  /\ entries = {} /\ challenges = {} /\ backlog = <<>> /\ job = Idle
  /\ wallet = {} /\ acked = {} /\ nextId = 1 /\ nextChallenge = 1

\* Admin::admins, Admin::redeemed_invites and the token/ log, as read back
Claimants == {d \in Desktop : <<"relationship", d>> \in entries}
Redeemed == {n \in Invite : <<"spent", n>> \in entries}
Recorded == {t \in Token : <<"token", t>> \in entries}
Indexed == {t \in Token : <<"index", t>> \in entries}

-----------------------------------------------------------------------------
(* The desktops *)

\* A call of shell2::node: connect and write.  Who publishes or reconnects has
\* a token of the owner's to show.
Send(req) ==
  /\ Len(backlog) < MaxBacklog
  /\ req.op \in {"reconnect", "publish"} =>
       \E t \in wallet : t.holder = req.from /\ t.why[1] \in {"claim", "reconnect"}
  /\ req.op = "reconnect" => req.arg < nextChallenge
  /\ backlog' = Append(backlog, [req |-> req, live |-> TRUE])
  /\ UNCHANGED <<entries, challenges, job, wallet, acked, nextId, nextChallenge>>

\* READ_TIMEOUT passes, or the desktop dies: the request is still there
GiveUp ==
  /\ \/ \E i \in DOMAIN backlog :
          /\ backlog[i].live
          /\ backlog' = [backlog EXCEPT ![i].live = FALSE]
          /\ job' = job
     \/ /\ job.busy /\ job.live
        /\ job' = [job EXCEPT !.live = FALSE]
        /\ backlog' = backlog
  /\ UNCHANGED <<entries, challenges, wallet, acked, nextId, nextChallenge>>

-----------------------------------------------------------------------------
(* The node *)

\* Mutant: index first
RecordPutsIndexFirst(t) == << <<"index", t>>, <<"token", t>> >>

\* Admin::record: record first, index second
RecordPuts(t) == << <<"token", t>>, <<"index", t>> >>

\* Mutant: the invite is spent last
InvitePutsTokenFirst(t) == RecordPuts(t) \o
  (IF t.why[2] \in Public THEN <<>> ELSE << <<"spent", t.why[2]>> >>)

\* The writes of accept_claim, accept_invite, accept_reconnect
ClaimPuts(t) == << <<"relationship", t.holder>> >> \o RecordPuts(t)
InvitePuts(t) ==
  (IF t.why[2] \in Public THEN <<>> ELSE << <<"spent", t.why[2]>> >>) \o RecordPuts(t)
ReconnectPuts(t) == RecordPuts(t)

\* How many items of a batch are good before the first whose kind does not parse
GoodItems(batch) ==
  {n \in 0..Len(batch) : /\ \A i \in 1..n : batch[i] \notin BadKind
                         /\ n < Len(batch) => batch[n + 1] \in BadKind}

\* Mutant: the items first, and the header last
PublishPutsHeaderLast(d, batch, n) ==
  Append([i \in 1..n |-> <<"item", <<d, batch[i]>>>>], <<"workspace", d>>)

\* The writes of accept_publish: the header, then n items
PublishPuts(d, batch, n) ==
  << <<"workspace", d>> >> \o [i \in 1..n |-> <<"item", <<d, batch[i]>>>>]

Handler(c, ok, token, puts) ==
  [busy |-> TRUE, live |-> c.live, req |-> c.req, ok |-> ok, token |-> token, puts |-> puts]

\* What a handler decides, from what it reads before it writes
Approves(req) ==
  CASE req.op = "claim" -> Claimants = {}
    [] req.op = "invite" -> req.arg \notin Redeemed
    [] req.op = "reconnect" -> req.from \in Claimants /\ req.arg \in challenges
    [] req.op = "publish" -> TRUE

\* The accept loop takes a connection, and its handler decides and signs
Accept ==
  /\ ~job.busy /\ backlog # <<>>
  /\ backlog' = Tail(backlog)
  /\ LET c == Head(backlog)
         req == c.req
         token == [id |-> nextId, holder |-> req.from, why |-> <<req.op, req.arg>>]
     IN \/ /\ ~Approves(req)
           /\ job' = Handler(c, FALSE, NoToken, <<>>)
           /\ UNCHANGED <<challenges, nextId>>
        \/ /\ Approves(req) /\ req.op = "publish"
           /\ \E n \in GoodItems(req.arg) :
                job' = Handler(c, n = Len(req.arg), NoToken, PublishPuts(req.from, req.arg, n))
           /\ UNCHANGED <<challenges, nextId>>
        \/ /\ Approves(req) /\ req.op # "publish"
           /\ nextId <= MaxTokens /\ nextId' = nextId + 1
           /\ \/ req.op = "claim" /\ job' = Handler(c, TRUE, token, ClaimPuts(token))
              \/ req.op = "invite" /\ job' = Handler(c, TRUE, token, InvitePuts(token))
              \/ req.op = "reconnect" /\ job' = Handler(c, TRUE, token, ReconnectPuts(token))
           /\ challenges' = IF req.op = "reconnect" THEN challenges \ {req.arg} ELSE challenges
  /\ UNCHANGED <<entries, wallet, acked, nextChallenge>>

\* Vault::put_entry and its kin: one transaction of the store
Put ==
  /\ job.busy /\ job.puts # <<>>
  /\ entries' = entries \cup {Head(job.puts)}
  /\ job' = [job EXCEPT !.puts = Tail(@)]
  /\ UNCHANGED <<challenges, backlog, wallet, acked, nextId, nextChallenge>>

\* Mutant: the error of a write is dropped
PutFailsSilently ==
  /\ job.busy /\ job.puts # <<>>
  /\ job' = [job EXCEPT !.puts = <<>>]
  /\ UNCHANGED <<entries, challenges, backlog, wallet, acked, nextId, nextChallenge>>

\* The store fails a write: `?' leaves the handler, whose reply is an error
PutFails ==
  /\ job.busy /\ job.puts # <<>>
  /\ job' = [job EXCEPT !.puts = <<>>, !.ok = FALSE]
  /\ UNCHANGED <<entries, challenges, backlog, wallet, acked, nextId, nextChallenge>>

\* respond writes the answer; the desktop keeps it if it is still there
Reply ==
  /\ job.busy /\ job.puts = <<>>
  /\ job' = Idle
  /\ IF job.ok /\ job.live
       THEN /\ wallet' = IF job.token = NoToken THEN wallet ELSE wallet \cup {job.token}
            /\ acked' = IF job.req.op = "publish"
                          THEN acked \cup {<<job.req.from, job.req.arg>>} ELSE acked
       ELSE UNCHANGED <<wallet, acked>>
  /\ UNCHANGED <<entries, challenges, backlog, nextId, nextChallenge>>

\* Mutant: the next challenge is the same
IssueChallengeAgain ==
  /\ ~job.busy
  /\ challenges' = challenges \cup {nextChallenge}
  /\ UNCHANGED <<entries, backlog, job, wallet, acked, nextId, nextChallenge>>

\* node_issue_reconnect_challenge, between two requests
IssueChallenge ==
  /\ ~job.busy /\ nextChallenge <= MaxChallenges
  /\ challenges' = challenges \cup {nextChallenge}
  /\ nextChallenge' = nextChallenge + 1
  /\ UNCHANGED <<entries, backlog, job, wallet, acked, nextId>>

\* The process dies and is started again: connections and memory are gone
Crash ==
  /\ backlog' = <<>> /\ job' = Idle /\ challenges' = {}
  /\ UNCHANGED <<entries, wallet, acked, nextId, nextChallenge>>

Next ==
  \/ \E req \in Request : Send(req)
  \/ GiveUp \/ Accept \/ Put \/ PutFails \/ Reply \/ IssueChallenge \/ Crash

Spec == Init /\ [][Next]_vars

-----------------------------------------------------------------------------
Job == {Idle} \cup
  [busy : {TRUE}, live : BOOLEAN, req : Request, ok : BOOLEAN,
   token : Token \cup {NoToken}, puts : Seq(Entry)]

\* Every variable has its type.
TypeOK ==
  /\ entries \subseteq Entry
  /\ challenges \subseteq 1..(nextChallenge - 1)
  /\ backlog \in Seq([req : Request, live : BOOLEAN])
  /\ job \in Job
  /\ wallet \subseteq Token /\ acked \subseteq Desktop \X Batch
  /\ nextId \in 1..(MaxTokens + 1) /\ nextChallenge \in 1..(MaxChallenges + 1)

\* The index never promises a token that is not there, so issued_to never finds
\* the store Damaged, wherever the process died (Admin::record).
IndexHasRecord == Indexed \subseteq Recorded

\* Reasons that are good for one token
OneShot(why) == ~(why[1] = "invite" /\ why[2] \in Public)
\* A claim, a single-use invite, a reconnect challenge: whatever is retried,
\* lost or restarted, each was good for one token at most.
OnceEach ==
  \A t, u \in Recorded \cup wallet : t.why = u.why /\ OneShot(t.why) => t = u

\* Whoever was granted the node, on the record or in hand, is its one claimant:
\* no crash leaves an owner's token behind on a node that may be claimed again.
OwnersAreTheClaimant ==
  /\ \A d, e \in Claimants : d = e
  /\ \A t \in Recorded \cup wallet :
       t.why[1] \in {"claim", "reconnect"} => t.holder \in Claimants

\* The log and its index know every token a desktop has in hand: an audit by
\* holder under-reports nothing that is live.
HandedOutIsLogged == wallet \subseteq Recorded \cap Indexed

\* A publish that was answered "ok" is all there, under its workspace's header,
\* and stays there; and there is no item of a workspace the node never heard of.
AckedIsStored ==
  /\ \A b \in acked : \A i \in DOMAIN b[2] : <<"item", <<b[1], b[2][i]>>>> \in entries
  /\ \A d \in Desktop, i \in Item :
       <<"item", <<d, i>>>> \in entries => <<"workspace", d>> \in entries

\* The store, its crashes and its lost replies implement the Ledger.
Abstract == INSTANCE Ledger WITH claimant <- Claimants, spent <- Redeemed,
                                 granted <- Recorded, handed <- wallet
ImplementsLedger == Abstract!Spec
=============================================================================
