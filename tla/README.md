# osvauld2: models, checks and proofs

TLA+ modules of the parts of osvauld2 whose correctness depends on the order in
which things happen. On the node: who may do what, and what is on record when it
dies or its clients give up. Between desktops: how documents and items converge,
and the connections pushes travel on. On one desktop: accounts and the threads that
outlive them, tabs, apps and their documents, the search index. In the runtime: what
events, frames, wheels and driver scripts make of an app, and the simulated worlds.
And the registry of names. TLC checks the modules on small instances; TLAPS proves
for every instance the theorems about authority, the node's store, sync, the push
connection, items, the search index, an open app, a desktop's accounts, tabs and
subscriptions, the driver, the runtime's input and scrolling, 3D worlds, and names.

    tlc -workers 2 -config MCAuthority.cfg MCAuthority.tla
    tlapm AuthorityProofs.tla

`PROJECT.json` lists the components, the runs, the mutants (for every property a
plausible bug it catches), the source lines behind every definition, the findings,
the hazards and the theorems.

## The system

A **desktop** (`shell2`) runs Lua apps over Loro documents and keeps everything in
an encrypted **vault**. A **node** (`kunki`) is a vault of its own that desktops
claim, are invited to, publish to and sync through. `courier` holds what the two
say to each other: messages, tokens, and the pure halves of each handler.

| Component | State | Operations | Interacts with |
|---|---|---|---|
| `workspace`, `courier/token.rs`, `policy.rs` | none (pure) | `Scope::contains`, `verify_chain`, `membership`, `authorize`, `issue_root`, `attest`, `delegate` | every handler of the node |
| `courier/lib.rs`, `invite.rs`, `publish.rs`, `subscribe.rs`, `sync.rs` | none (pure halves of handlers) | `node_accept_*`, `desktop_start_*`, `issue_*` | `kunki::admin`, `shell2::node` |
| `kunki/admin.rs` | vault entries: relationships, tokens and their index, spent invites, revocations, subscriptions, workspaces, items, layers | `accept_claim/invite/reconnect/publish/sync`, `subscribe`, `revoke`, ... | vault; pushes through `Pusher` |
| `kunki/bridge.rs`, `push.rs` | accept loop, one thread per `Listen`, `LiveRegistry` (DID to bounded channel) | `serve`, `handle_listen`, `register`, `unregister`, `push` | desktops' listeners |
| `shell2/node.rs` | connections | `call`, `claim`, `join`, `sync`, `pull_doc`, `push_src`, `join_item`, `listen`, `next_push` | node's socket, vault |
| `shell2/main.rs`: sync loop | open apps, subscriptions seen, claimed node | `Shell::update`: one message at a time, then reload, flush, index, subscribe, sync | all of the above; worker threads post messages back |
| `shell2/main.rs`, `login.rs`, `signup.rs`, `space.rs`, ...: accounts | current screen, unlocked account, forms that wait for a thread | sign-up, login, lock, claim, new workspace; from the window and over the bridge | vault, worker threads |
| `shell2/main.rs`, `items.rs`, tests runner: tabs | tabs, focus, apps by item, test runs, a pending screenshot or driver operation | open, focus, close, `RunTests`, `Screenshot`, `Driver` | runtime, worker threads |
| `shell2/main.rs`: source verbs | none of its own | `ReadFileVersioned`, `EditFile`, `WriteFile`, `ReloadItem` | app_host, vault |
| `app_host` | Loro documents, version counters and two watermarks (mirror, vault), VM, `ui.state` | `open`, `flush`, `reload_if_stale`, `body`, `update`, the document methods of Lua, source edits | shell2, vault, runtime |
| `search`, `shell2/indexer.rs`, `app_host/index.rs` | index files and fingerprints, staged writes, generation | `plan`, `apply`, `commit`, `catch_up`, `index_dirty`, `query` | flush, vault |
| `runtime/lib.rs` and its parts: `hover`, `focus`, `scroll`, `state`, `headless` | painted hit regions, capture, focus, held keys, scroll offsets, virtual clock | window events, `frame`, `run_driver`, screenshots | app's `view` and `update` |
| `world`, `app_host/gfx` | entities, bodies, timers, clips, held keys; 3D worlds with their fixed-step clocks | `reconcile`, `tick`, `key`, `after`, `cancel`, `set`; `advance`, `reload` | the app's view, the runtime's clock and frames |
| `xnet_names`, `shell2/names.rs` | name to owner and ticket | `register`, `update`, `transfer`, `resolve`, `join` | a chain; the node that redeems the ticket |
| `vault`, `storage` | sealed records in an embedded store, active account | `put_*`, `get_*`, `prepare_login`/`commit_login`, `lock` | everything |
| `identity`, `cryptography`, `osvauld-rpc` | keys; frames | sign, seal, derive; framed reads and writes | vault, courier; sockets |
| `lua_tree`, `voice`, layout and drawing, `demo_apps` | editor input, GPU buffers, content | | |

What is hard in it, and makes each component correct:

- **Delegation without the node.** Tokens are handed on offline, any holder may
  mint any nonsense, and the node decides from the chain alone. Correct: it accepts
  exactly what came about lawfully; nothing ever widens; an invite is never a way
  to platform power.
- **Handlers that write several entries** and may die, fail or lose their client
  between any two. Correct: each reason is good for one token, the record knows
  every token somebody holds, what was acknowledged is stored.
- **Threads and reconnects** around one registry. Correct: a desktop with a valid
  token is reached again after whatever broke; stale connections end.
- **Asynchronous sync**: calls overtake one another, pushes are droppable, saves
  fail, apps close and processes die. Correct: nothing stored is forgotten,
  nothing unsaved is taken for saved, and replicas converge.
- **Account switching while workers run.** A login, claim or new workspace hashes
  or waits for the node on a thread that shares the vault; the account may be
  another by the time it is done. Correct: what is of one account stays there, and
  no screen shows what is locked, stale or for ever waiting.
- **Indices and maps that must agree**: tabs, focus and apps, while tests open and
  close tabs of their own. Correct: the focus is on a tab, tabs and apps match.
- **Watermarks** (mirror, vault, source, index): a version read too early or noted
  too late skips work. Correct: what would be skipped is up to date.
- **Handles that outlive what they name**: ids of list elements that peers move,
  hit regions of the frame before, elements that vanish under a press, keys held for
  a view that is gone, bodies of despawned entities, tickets that were replaced.
  Correct: what is addressed is what is reached, and whatever was begun is ended.
- **Clocks that stop and go on**: worlds that idle or hide, timers set by handlers, a
  virtual clock for tests. Correct: no time is simulated that was not shown, nothing
  fires early or twice, no wakeup is lost.

## The modules

| Module | Models |
|---|---|
| `Policy` | scopes, containment, well-formedness, the capability table, `role_could_gain_capability` |
| `TokenChain` | tokens as sequences of links (leaf first), `verify_chain`, `membership`, `authorize`, and the operations that mint |
| `Narrowing` | a role handed on along scopes, against what scopes reach |
| `Authority` | one node and its desktops: claim, reconnect, invite, redeem, delegate, revoke, time |
| `AuthorityProofs` | theorems of `Authority` and `Narrowing` |
| `Ledger` | abstract: one claimant, one token per reason, on record before it is out |
| `NodeStore` | the node's handlers opened into their single writes, crashes, failing writes, clients that give up, reconnect challenges |
| `NodeStoreProofs` | theorems of `NodeStore` |
| `Listen` | listener threads, accept loop, handler threads, `LiveRegistry`, for one DID |
| `ListenProofs` | theorems of `Listen` |
| `Replicas` | abstract: edits are made once, replicas learn and never forget |
| `Sync` | documents in memory, vault and node; hello, ack, push; flush after every message |
| `SyncProofs` | theorems of `Sync`, its refinement of `Replicas` among them, of `Sources` and of `SearchIndex` |
| `Subscription` | who the node pushes to: subscribe and unsubscribe threads against open, close, lock and claim |
| `Sources` | an item on its way from its maker through the node to other desktops: headers, source, the document seeded on first run |
| `Session` | accounts, screens, requests of the bridge, worker threads, account files |
| `Tabs` | tabs, focus, apps, test runs, screenshots |
| `DesktopProofs` | theorems of `Session`, `Tabs`, `Subscription` and `Driver` |
| `AppHost` | one open item: source, VM, documents with two watermarks, mirrors, `ui.state`, reload and flush |
| `AppHostProofs` | theorems of `AppHost` |
| `DocTree` | how Lua writes a list of maps by id or position and sees it in its mirror |
| `SourceEdit` | optimistic edits of a source by revision and by unique old texts |
| `SearchIndex` | the index of one item: spec, plan, staged writes, sealed files, fingerprints, memo |
| `Gestures` | window events against the painted frame: hover, press, drag, pan, keys, focus, custom captures |
| `Scroll` | scroll offsets over frames, wheel chaining, thumbs, fields brought into view |
| `Driver` | scripts of paints, virtual time and events that drive the shell without a window, and `Headless`'s |
| `World` | one 2D world: reconcile, physics, sensors, hits, timers, clips, keys, controllers, commands |
| `World3D` | retained 3D worlds: fixed-step clock, visibility, reload, screenshots |
| `RuntimeProofs` | theorems of `Gestures`, `World3D` and `Scroll` |
| `Names` | the registry of names, the desktop's bar, joining by a public invite |
| `NamesProofs` | theorems of `Names` |
| `MCAuthority` | `Authority`, `Narrowing`: run `authority` |
| `MCNodeStore` | `NodeStore` against `Ledger`: run `node` |
| `MCListen` | `Listen`: runs `listen`, `listen_replaced`, `listen_two` |
| `MCSync` | `Sync`, against `Replicas`: runs `sync_converges`, `sync_index` |
| `MCNetwork` | `Names`, `Sync`, `Sources`, `SearchIndex`: run `network` |
| `MCDesktop` | `Session`, `Tabs`, `Subscription`, `Driver`: runs `desktop`, `session_cross` |
| `MCApp` | `AppHost`, `DocTree`, `SourceEdit`: run `app` |
| `MCRuntime` | `Gestures`, `Scroll`, `World`, `World3D`: run `runtime` |

They meet where the code does: `Replicas` is what `Sync` implements and `Ledger` what
`NodeStore` does; `Sync` takes for granted what `Listen` shows of pushes,
`Subscription` of who gets them and `AppHost` of one document's watermarks (there in
full, here as one flag); `SourceEdit` is the bridge's half of the edits whose reload is `AppHost`'s;
`Driver` delivers the events `Gestures` and `Scroll` handle, `Tabs` runs the driver operation
with the message that asked for it.

Abstractions that hold throughout: a signature is the name of who made it, and no
one forges one; a token's id is the next number rather than a hash over a fresh
nonce; a digest is the content; names, ids and payloads are members of small sets. A
refusal's error code is left out, because a refusal changes nothing. A variable
marked "history" or "observer" is read by properties alone.

**Policy, TokenChain.** `Scope` becomes a record tagged with its level; an address
is the sequence of its segments, so the string prefix `base/` is the proper prefix
relation; `Parses` is what `ResourceAddress::parse` admits, given which ids
`valid_segment` does. `VerifyChain` is the conjunction of the checks of
`verify_chain`; the order in which it makes them decides only the error.

**Authority.** Each handler is one action, since the accept loop runs them one at
a time. A desktop may mint a delegation of any token it has seen, at any scope,
to anyone, whether or not that is lawful, as `token::delegate` does. `lawful` is a
history variable: the tokens each of whose links was granted by someone who held
it, might delegate it, and had that scope to give. The node has no such history;
`ChainCheckIsExact` says its check amounts to one.

**NodeStore.** `entries` is everything durable, each entry a pair of kind and key.
`Accept` is the part of a handler that reads, decides and signs; `Put` writes one
entry; `PutFails`, `Crash` and `GiveUp` may come between any two. A token carries
the reason for which it was signed, which the code does not store, so that "one
token for each reason" can be said at all. `GiveUp` marks a client that is gone:
its request is served all the same, its reply goes nowhere. Reconnecting has no verb
on the bridge yet; `NodeStore` takes it as a request like the others, which is what
`accept_reconnect` is written for. The listing of lists
that a handler reads and the entries it writes follow `kunki/admin.rs` line by line.

**Listen.** A connection is taken from a pool when a listener dials, and free again
when both ends are gone. `registry` is the map's value for one DID; no step touches
another DID's. `Relay` and `SenderGone` are the two ways `for push in rx` goes on or
ends; `Unregister` removes whatever is registered, as `LiveRegistry::unregister`
does. `Lapse` is expiry or revocation.

**Sync.** A document is the set of its edits and `import` is union, which is all
that sync uses of Loro (a hello carries full history, so no update waits for one
it depends on). `AfterMessage` is the tail of `Shell::update`: flush, index, sync
of what was dirty; it is part of every action of the window, never an action of its
own. The version counter and the vault's watermark are kept as the fact that they
differ. A document whose snapshot cannot be read does not open, and its app goes on with the
others (`Opened`). A tick waits until the window's own calls have ended: `SYNC_INTERVAL` is longer than
a call may take, and what a tick among the calls of later flushes adds is calls like theirs. `AcceptSync` is the node's handler; its store and its pushes are one step,
since a crash between them is a step whose pushes reach nobody.

**Subscription.** `AfterMessage` is the tail of `Shell::update`, part of every action of the
window: whatever is open and not in `subscribed` starts a thread. `calls` are the
threads, in no order; a call carries the account, the token and the item it was
started with. One document stands for an item's documents. What a desktop
misses while it is not subscribed is `Sync`'s to repair.

**Sources.** Uploading, joining and pushing are threads with a step for each call and
each write to the vault, so that a fault or a crash may fall between any two. `Pulled`
takes a call that failed for a document nobody has, as `pull_doc` does. Sources and
documents are sets of edits; `<<d, 0>>` is what `d` seeds.

**Session.** A worker is a record in `jobs` whose step says how far it is
(`Prepare`, `CommitLogin`, `CommitSignup`, `Claim`, `CreateWorkspace`); once it has ended
it is the message the window has yet to handle (`LoginDone`, `AuthDone`, ...). Only one
handle may have a store's file open, so a lookup during another's hash fails
(`Busy`). `Flush` is the tail of every message. A form whose thread runs takes no clicks
(`Offered`). One app stands for an account's apps; what it has unsaved is a flag.
`wrote` notes whose a document, a relationship or a token was and with which account it ended up.

**Tabs.** `tabs`, `focused`, `apps` are the fields of `Shell`. A run of tests is a worker
that may go on in between any two messages; each of its operations is a message, and
the driver operation it asks for is taken before the next message
(`TestDriver`). Driver operations work offscreen only: with a window all are refused.

**AppHost.** A document is the number of writes in it, a source what its `main.lua` and
view do (throws, opens documents, draws elements, cannot draw a document that
grew). `EndOfMessage` (reload if stale, then flush) is part of every action. `half` is a
write that failed on its way and waits for the next commit. `Frame` patches every mirror
whose watermark is behind, then draws.

**DocTree.** A list of maps and scalars; tables are functions of their keys. `Sound` is
what `from_lua` takes, `Scan` finds an element by id, `Seg` is an id or a
position, `PatchInto` the copy into the mirror with its sweep. Collaborative text and
Loro's merging of concurrent moves are not modelled; a peer's change is any list (`Import`).

**SourceEdit.** Every batch of edits over every small source. `Matched` counts matches as
`match_indices` does, `Splice` applies from the end by byte offsets, and characters are one
or two bytes wide.

**SearchIndex.** A spec is the documents it covers, the key it reads and what `fields`
answers for each value, errors included; a fingerprint is the record. `EndOfMessage`
is flush, plan, stage, commit; a commit seals files, then fingerprints, and may stop or be
refused in between. Of the shapes an index may have, lists of records are modelled;
one query and one limit; ranking, a test tab's in-memory index and collisions of
hashes are left out. The tantivy writer keeps the operations of a commit that was
refused, so a later one lands them. That is why a crash and a refusal are checked in separate
parts: combined at attach they can leave a fingerprint that is older than its file, which
only costs work.

**Gestures.** `view` is what the app would lay out now, `hits` what the last painted frame
did; an event is tested against `hits`, its messages may change `view` to any layout.
`Spots` are further apart than the slop. Shapes inside frames, cursor looks, modifiers,
coordinates, right-click and what is selected in a field are left out; the wheel is `Scroll`'s. A
button's release comes at last, also after the pointer left the window.

**Scroll.** Two nested scrollers under one camera, in whole pixels. `Marked` gives what is drawn
an offset, `Sweep` drops offsets that no frame marked, `Chain` passes a wheel's rest outward. Of the
chain, `Through` is one round of the loop. A press takes hold of a bar of the last frame, one to an
axis along which that frame's content had more than its room, and track left beside `MIN_THUMB`. Scales, zoom about the pointer and the editor's own
scrolling are left out.

**Driver.** Time in units of about 8 ms (`POINTER` 1, `FRAME` 2), elements as the places
they take. `Script` is what `run_driver` does for each operation, `Headless` what the
Rust tests' driver does. Any event's handler may change what is shown, and so may a frame's own messages
(a finished animation, `on_frame`, a key let go, a screenshot's answer, a hover), which `Runner::frame` handles after it
has built the regions: `shown` is then ahead of `hits` until the next frame. `due` says that a message or an
event changed it since, `requested` what showed when the operation was asked for. The loops of `Frame` and
`Drag` are `Repeated` and `InTurn`: functions on the numbers of their steps, which can be proved about.

**World, World3D.** Rapier is outside: a step may leave shapes overlapping or
touching in any way their kinds allow, and bodies moving or at rest. `World` has no places,
poses or speeds, so groups' effect on what collides is inside that choice. `World3D`
counts time in halves of a step and keeps of a pose whether it is
the authored one; meshes and cameras are left out. `Reconcile` is all of `reconcile`:
checks in order, then removal, placing and animation. A view resolves worlds while its tree is walked; a card may then
take the place of an element or of what is around it, and the runtime draws the first scene that is left:
`Draw` keeps the three apart (`seen`, `viewed`, `painted`). Time passes for a world that was resolved.

**Names.** A text is a sequence of character classes, which is what the rule for a name and
the guess what a text is tell apart. The chain is external: it applies a transaction
whole and in order. A ticket is a public invite the node has signed. The node
has no operation that revokes one.

## What the runs check

A run checks components of one machine, or of one concern, side by side: its module
`MC*` gives each an instance, a *part* or *scene*, and a variable `part` says which of
them a behaviour is of; the others stay as they began. So an instance is as small as
its question allows, and a property of one part is checked in all of its behaviours.
Runs that end in a violation are marked ✗; each shows a finding (below).

| Run | Parts and their instances | Properties |
|---|---|---|
| `authority` | `platform`: a node, 2 desktops, 1 workspace with an app, 3 tokens, 1 invite, 2 instants. `chains`: the node's scope alone, 4 tokens, chains one longer than `MaxChain` may be minted. `narrowing`: 2 workspaces, all scopes up to 4 segments, addresses up to 5, chains of 3 | `ChainCheckIsExact`, `ReachNeverWidens`, `PowerTracesToClaimant`; `ScopesNarrow`: containment is inclusion of what is reached, and reach shrinks |
| `node` | `grants`: 2 desktops, 1 single-use and 1 public invite, 3 tokens, 1 challenge. `publishes`: 3 batches, one with an item that does not parse | `IndexHasRecord`, `OnceEach`, `AckedIsStored`, and `NodeStore` implements `Ledger` |
| `listen` | 1 listener, 3 connections, a channel of 1, 2 faults | `EventuallyReached`, `ConnectionsEnd`: stale handlers end and full channels drain; `NoOrphanedSender` |
| `listen_replaced` ✗, `listen_two` ✗ | the same; 2 listeners, no faults | findings 1, 2 |
| `sync_converges` | 2 desktops, 1 document, 2 edits, 1 fault; `timer`, with 2 openings or closings, and `echo` without it, with 3 | `Settles`: with the timer all open replicas agree in the end, without it the echo of pushes and syncs dies. `SyncKeeps`: memory has the vault, unsaved is dirty, also where a snapshot cannot be read. `ImplementsReplicas`: vaults and the node's layers never forget an edit, whatever is lost, late or dies |
| `sync_index` ✗ | `echo` with 2 documents, 3 edits | finding 3 |
| `network` | `names`: 2 accounts, texts that are names and texts that are none, 2 transactions, 1 visitor. `documents`: 2 desktops, 2 documents, an edit of each on one, 1 fault, 3 openings or closings. `items`: 2 desktops, 4 threads; `faults`: an edit on each, 2 threads, 1 fault or crash. `search`: 1 document, 2 records, 2 values, 7 texts of index.lua, 3 messages, crashes anywhere in a commit; `refused`: commits the vault refuses, 2 messages | `RegistryIsSound`: only owners write, registered names can be typed, who joins has an owner's word. `StoredIsWhole`: memory has the vault and unsaved is dirty (`SyncKeeps`, of two documents), what was pushed stays and headers come before sources (`ItemsAreWhole`). `IndexIsCurrent`: the incremental index is the full one, fingerprints claim nothing the files lack. `MadeOnce`: who reaches the node does not seed again, index.lua runs on what moved |
| `desktop` | `bridge` and `window`: 2 accounts, 4 threads, 1 fault, 1 edit, driven over the bridge or from the window. `tabs`: 2 items over the bridge, 3 tabs, 2 test runs of up to 2 operations; `screen`: items opened from their screen too, 1 test run. `switches`: 2 accounts, 1 item opened up to 2 times, 2 locks, 1 failing call; `follows`: 3 items opened once, before or after the claim. `driver`: 2 operations of every kind, 2 places, an app that changes twice, at any message, event or frame; `agree`: every gesture, drags of up to 3 steps | `AccountsApart`: an app's documents are saved with its account, a phrase shown means a keystore stored, screens show nothing locked or stale, the token in use and listened with is the unlocked account's stored one unless a claim outlived its account, nobody is subscribed to what they did not open under that account. `TabsAgree`: focus in range, apps and tabs match, one tab each, screenshots of what was asked, no test tab left. `TabsSettle`: the focus follows and every test run ends. `ThreadsEnd`: a form that waits takes clicks again, what stays open comes to be pushed to. `DriverIsTrue`: events are tested against a frame of all that came before them, that frame's own messages excepted; stamps differ, the clock is what was asked, a readback is of the view its request found, reports are true, the bridge and `Headless` drive the same steps |
| `session_cross` ✗ | window and bridge at once | finding 8 |
| `app` | `host`: 4 sources (sound, picky, broken, empty), 2 documents of up to 2 writes, 2 edits; `faults`: 2 of the sources, 1 failing write. `tree`: lists of up to 3, 2 ids, 2 writes. `edit`: every batch of up to 2 edits over every source of up to 4 characters that edits reach; `clients`: 2 clients, 3 batches | `Watermarks`: what is noted of mirrors and saves is so, what is unsaved is complained about. `ReloadIsTold`: the banner is true, reloads happen once for each edit, the handlers are the running source's. `WritesAreKept`: nothing unread is overwritten, drafts survive, an id hits its element, moves keep everything, appends go last. `EditsAreSound`: batches are applied as if all at once, nobody edits what they have not seen, a frame shows the document |
| `runtime` | `cards`: a card that is hovered, dragged, moved and removed, a drop target and a button, 2 spots. `canvases`: a camera with a button inside and one above, a scrollbar, a field, custom captures. `games`: 2 key owners, an autofocus field, 2 keys. `wheels`: a list that grows and shrinks in a board under a camera, 2 wheels. `thumbs`: a list or a far field, a dragged thumb. `floor`: a carrier, a sensor that is put down, carried and despawned, a loose puck. `clock`: 2 timers, a clip of a second. `walk`: 3 keys, a controller, an action. `marbles`: up to 2 worlds of 2 bodies, 6 sources, 3 halves of a step; `filmed`: 1 world, screenshots | `PointerIsTrue`: hover follows the frame, one outcome a press, nothing waits unpainted, focus is on a field. `KeysAreTrue`: elements believe exactly the keys held for them, typing is heard. `GestureSteps`: enters once, drags end, a still app is quiet, autofocus once. `ScrollSteps`: a wheel is spent once, innermost first; the thumb stays with the pointer; a focused field is in view. `WorldsAreTrue`: bodies belong to solids, zones are told as they are, clips end once, no wakeup is lost, held keys are down, directions are told, a world is simulated no longer than it was in view, a world in motion has its next frame asked for. `WorldSteps`: one hit a meeting, timers on their frame, reloads keep poses |

Where a run's property says of its parts what a module defines (`ScopesNarrow`, `StoredIsWhole`,
`TabsAgree`, `AccountsApart`), the theorem below is about the module's definition, of any instance.
A property that is a conjunction names its parts, which their modules define with the
code they are about. Every module's types are checked by a run as well (`TypeOK`, or `Types` of all
the run's parts).

**Bounds.** `MaxTokens`, `MaxChallenges`, `MaxBacklog`, `MaxTime`, `MaxFaults`,
`MaxTabs`, `MaxLinks` cap counters in guards. Two desktops suffice because every
interference in the code is between a claimant and another, a sender and a
receiver, or an old and a new connection. `MaxChain` is 3 (8 in the code), and `chains`
has a token more, so that a chain one link too long is among them and a middle link's
delegable flag counts; the proofs hold for any. Three connections let two old handlers
end while a new one registers. One fault in `sync_converges` may be a lost message, a
failed write, a late call or a crash. `Capacity` is 1 rather than 32: a channel that is
full sooner. `MaxJobs`, `MaxRuns`, `MaxSteps`, `MaxCalls`, `MaxOpens`, `MaxLocks`, `MaxOps`,
`MaxChanges`, `MaxEdits`, `MaxWrites`, `MaxTxs`, `MaxSent`, `MaxLen`, `MaxLength` and `MaxHeld` bound
what is begun in a behaviour in the same way; `MaxWorlds`, `MaxBodies`, `MaxSteps` of `World3D`
and `MaxGroups` are the code's own budgets, made small enough to be reached. Two accounts
are the least that can be mixed up; three tabs put one on either side of the focus; two
records are one that changes beside one that does not, two keys one more than `games`
may hold, and a document's two writes one saved and one not. Two nested scrollers and
a camera make a chain with a middle.

**Deadlock** is checked in `listen` and in `runtime`, in whose parts something may always
happen. In the others a bounded instance ends when its ids, faults, threads or edits
are used up.

**Assumptions.** A module that is extended by its `MC` module states what it assumes of its
constants with `ASSUME`. One that is instanced defines the same as `<Module>Constants`, and
the `MC` module that gives them values assumes that of each instance.

**Fairness.** `Listen`: every thread that can move does (weak fairness of each
listener's and each handler's step); nobody has to push, break or lapse. `Sync`:
the timer re-arms itself, the window drains its event loop, the node accepts;
per desktop and document, so that one is not starved by the others' traffic, which
FIFO queues grant. Nothing is assumed of opening, closing, editing or losing.
`Session`: threads run and the window handles what they sent; nobody has to click.
`Tabs`: each test run's worker goes on, and nothing else. `Subscription`: for each item, a
thread that asks the node about it is served in the end. `MCSync` and `MCDesktop` state the same of
their parts' steps (`MCFairness`, `MCFairSpec`).

## What is proved

`AuthorityProofs`, from the named assumptions on the constants alone (any sets of
desktops, roles and scopes, any bounds):

- `TypeCorrect`: `TypeOK` is inductive. Ids below `nextId` are the part the others need.
- `ChainCheckCorrect`: `ChainCheckIsExact`. The invariant `ChainInv` strengthens it:
  every token is rooted in the node, every link is signed by its issuer, and a token
  is lawful exactly when each link stands to its parent as `PairStands` demands
  (`Unbroken`). `LinkAt`, `Cons` and the `Chain*` lemmas say how minting extends a chain.
- `ReachCorrect`: `ReachNeverWidens`, by `ContainsTransitive` and the invariant
  `GrantInv`: a lawful token's leaf is contained in its root.
- `PowerCorrect`: `PowerTracesToClaimant`. `GrantInv` also says that a lawful token
  whose root's holder is no admin has the role and a narrower scope of a grant for
  which `role_could_gain_capability` was false; `NarrowingNeverGains` says that the
  one level it looks down is enough for any number of delegations.

`NodeStoreProofs`, for any desktops, invites and bounds:

- `StoreTypeCorrect`: `TypeOK` of `NodeStore`; whatever a handler writes is an entry.
- `IndexCorrect`, `OnceEachCorrect`, `OwnersCorrect`, `LogCorrect`, `PublishCorrect`:
  `IndexHasRecord`, `OnceEach`, `OwnersAreTheClaimant`, `HandedOutIsLogged`,
  `AckedIsStored`. (`OwnersAreTheClaimant` and `HandedOutIsLogged` are also what the ledger
  demands, so the run checks them as part of that.)
- `LedgerImplemented`: `NodeStore` implements `Ledger`. Writing the relationship is
  the ledger's `Claim`, the spent nonce its `Spend`, the token its `Grant`, a reply
  that arrives its `HandOut`; every other step, crashes included, is a stutter.

All of these rest on `StoreInv`, the one inductive invariant. None of the properties
carries itself: that a token just recorded is the only one of its reason depends on
the reason having been used up earlier, possibly before a crash. So `RecordInv` adds
to them that the reason of every recorded token is used up (`UsedUp`: its holder is
the claimant, its nonce spent, its challenge gone and never to be issued again), and
`JobInv` says how far the running handler is by what it still owes: relationship or
nonce first (`Claimants` still empty, the nonce still unspent), then record and index
with the reason used up and no token yet recorded for it (`Ready`), then the index
alone with the token recorded, then nothing. For a publish, `Publishing` says that the
header comes first and every item is stored or still owed. The step lemmas go write by
write (`PutGrant`, `PutPublish`), then through the rest (`AcceptJob`, `OtherJob`,
`ReplyRecord`). TLC checked `RecordInv` and `JobInv` on both instances before the proof.

`NamesProofs`, for any accounts, texts, invites, visitors and any number of transactions:

- `TypeCorrect`: `TypeOK` of `Names`.
- `OwnersAlone`: `OnlyTheOwnerWrites`, about the whole chain: every write is the first about its name
  or is signed by whom the last write before it left the name to.
- `NamesAreReachable`: `RegisteredIsReachable`; what the contract registers, the bar takes for a name.
- `OwnersWord`: `JoinedByTheOwnersWord`, however long ago the visitor asked.
- `RegistryCorrect`: the three together, as `RegistryIsSound`.

They rest on one inductive invariant, `IInv`, which TLC checked first. The contract checks an
owner in the registry while the property is about the chain, so `Recorded` ties the two: the
registry is what the last transaction about each name left. `Asked` and `Came` say of visits and
joinings which transaction stood behind them when they were asked for, which later transactions do not
change (`LastStays`, `WordStays`).

`AuthorityProofs` also proves of `Narrowing`, for any segments and any length of path and chain:

- `NarrowingCorrect`: `ScopesNarrow`. `ContainedIsReached` goes level by level. For the converse,
  `ReachedIsContained`, `JustBelow` gives two addresses directly below a subtree: a scope that reaches
  both is no exact address, so it reaches them from the subtree itself or from above it. That needs
  two segments, and room for one more below every subtree, as `NarrowingConstants` says: with a single
  segment the one address below a subtree reaches as much as the subtree and does not contain it.

`SyncProofs`, for any desktops, documents, edits, faults and channel capacity:

- `TypeCorrect`: `TypeOK`, with the length of every queue within `Capacity`.
- `KeepsCorrect`: `SyncKeeps`; memory has the vault, and what only memory has waits for a flush or is on the node.
- `ReplicasImplemented`: `ImplementsReplicas`. A put to a vault or to the node is the abstract `Learn`,
  a stroke its `Make`, all else a stutter (`StoresIsLearn`, `StepImplements`).

Their invariant adds what messages carry: edits of their one document (`OfOneDoc`), which were all made
(`AllMade`); without it a late push could bring an edit nobody made. Queues are finite (`Queues`), or
their lengths would mean nothing. `AfterMessageKeeps` is about the tail every step of the window shares.

`ListenProofs`, for any listeners, connections, capacity and faults:

- `TypeCorrect`, `SendersHaveHandlers` (`NoOrphanedSender`), and two facts they rest on: `HoldersApart`,
  a connection has one listener at its end, and `PushesHaveReaders`, a channel that holds a push has
  a handler to relay it. The four are one inductive invariant: an orphaned sender could fill a channel
  that the next connection would then inherit.

Of items (`Sources`), for any desktops, edits, threads and faults:

- `ItemsTypeCorrect`; `WholeCorrect`: `ItemsAreWhole`, which `StoredIsWhole` asks of the run's items;
  `SeedsAreFirst`: the action property `SeededBefore`. The invariant adds who knows of the item
  (`ItemIsKnown`): whoever has it open or pushes it, and a join past its headers, even when the
  thread has slept since.

Of the search index (`SearchIndex`), for any documents, records, values and index.luas:

- `SearchTypeCorrect`; `SkipsAreSafe`: `SkipIsSafe`; `IncrementsAreFull`: `IncrementalIsFull`, which
  `IndexIsCurrent` asks of the run's two instances; `RunsAreOfWhatMoved`: the action property
  `RunsOnlyWhatMoved`.

A property of an index that plans by fingerprints is about what the next plan will skip, so
`SearchInv` speaks of the fingerprints it will go by: those staged, or those sealed (`Marks`). They are
`Right` for the writer's records: what they let a plan skip is there as the spec they carry says it,
and no record is without one unless it failed. Then a plan made from them comes to fingerprints that
are `Right` for the records it writes (`MarksAre`, `WrittenIs`, `PlanRight`). A commit seals files first, so a crash leaves
fingerprints that are not right for the files: `PendingAt` says that planning the vault's document from
them again would come to right ones, which holds since that plan is a function of the document,
index.lua and those fingerprints, none of which moves while the item is closed; the next opening makes
it. `PlannedIs` and `UptoIs` tie the history that the properties read to the fingerprints and the files.

`Regime` is what has to hold of the faults, and `OneKey` (for `IncrementsAreFull` alone) of the
index.luas; the run assumes both of its instances. Each part is there because without it a finding
is a counterexample: a commit that seals the files and not the fingerprints while the desktop lives on
(26); a crash where the opening after it may not make that plan, because some document cannot be
planned or the vault refuses the files (46); keys that change with index.lua (22). An index.lua that
covers nothing it can plan is within `Regime`: it leaves the index alone.

`AppHostProofs`, for any sources, documents, elements, writes, edits and faults:

- `TypeCorrect`; `WatermarksCorrect`: `Watermarks`; `ReloadCorrect`: `ReloadIsTold`; the action properties
  `NothingIsOverwritten` (`NothingOverwritten`) and `DraftsAreKept` (`DraftsSurvive`).

A message runs several parts of the host one after another (a handler, a reload, a flush), so the
invariant, `IInv`, is stated of the app as each part leaves it: `Good`. It says that no document is
behind the vault and one noted as saved is the vault's (`CoreKnown`), that no mirror is ahead and one
noted as current is so (`MirrorKnown`), and that the source runs, or the banner is up, or there
is an edit yet to try. `CoreKnown` has to speak of `half`: the write that failed on its way moved
the document and not its version, so for that long the watermarks alone would lie. The action properties
come from `Keeps`, what each step leaves of vault and drafts. TLC checked `IInv` on `host` and `faults` first.

`DesktopProofs`, for any accounts and items, threads, tabs, runs and faults:

- `TabsTypeCorrect`, `TabsCorrect` (`TabsAgree`), `FocusStays` (the action property `FocusFollows`), with
  the items' screen or without. `TabsInv` adds that a test tab is there once, and has a run that will
  close it (`Sound`). A run puts a tab back by the index it had, so the lemmas about positions, removals
  and insertions (`PositionIs`, `RemovedIs`, `PushedIs`, `WithoutIs`) carry the proof; that `position`
  finds the first is the one use of the well-ordering of numbers (`LeastNumber`).
- `SubscriptionTypeCorrect`, `PushesWhatWasOpen` (`OnlyWhatWasOpen`). `SubscriptionInv` adds that a
  thread that subscribes is for what its account had open when it started, whoever is unlocked by now.
- `TypeCorrect`: `TypeOK` of `Session`, with the count of workspaces within what was asked for, since
  each thread that adds one is counted until it ends (`SessionTypes`).
- `AccountsCorrect`: `AccountsApart`, that is `PhraseMeansKeystore` whatever front ends there are,
  `SpacesUnlocked` with one of them, `OwnDocs`, `ShowingIsFresh` and `PersistedIsUsed` over the bridge alone,
  and the same of `Subscription`. `SessionInv` adds how far an account's files are for each stage of
  its signup, and that no two signups are of one account (`SignupsAreOnDisk`); that a page, a phrase or
  a message leading to one belongs to an unlocked account (`PagesAreOfAnAccount`), which window and
  bridge together break (finding 47); and over the bridge that apps are the active account's, a page is
  as its account is, and that unless a claim outlived its account (`ClaimStrayed`), what is stored was issued to
  its account and is in use, or a claim's message is about to put it there (`StoredIsUsed`). The exception is
  needed: findings 10 and 49 are what it excepts. The parts that
  name front ends name those for which the code keeps them: findings 8 and 9 are the counterexamples of the
  others. TLC checked the invariants on `bridge`, `window` and both, `tabs` and `screen` first.

- `DriverTypeCorrect`; `ReportsCorrect`: `FramesArePainted` and `ReadbackIsTrue`; `ClockCorrect`: `ClockIsAsked`;
  `EventsCorrect`: `EventsSeeTheFrame` and `StampsDiffer`; `DriversAlike`: `DriversAgree`. These are all the parts of
  `DriverIsTrue`, for scripts of any length. The invariant says where in its script an operation is:
  `PaintsTo` and `TimeTo` count the paints and the time in the first k steps, and `EveryScript` shows for each
  kind of operation that its steps agree with these counts and that they come to what it asks for
  (`Frames`, `Worth`). `After` adds that between a gesture's paint and its input no message or event has changed what is
  shown (`due`), that a readback's frame is of what was shown when it was asked for (`requested`), and that no
  input so far is later than the events that have passed. The wheel after its move
  is the exception throughout, as finding 36 shows. The proof needs no induction over scripts, since
  `InTurnEventful` reads every step off its number.

`RuntimeProofs`, for any elements, layouts, paint orders and bounds, of `Gestures`:

- `GesturesTypeCorrect`; `PointerCorrect`: `PointerIsTrue`; `KeysCorrect`: `KeysAreTrue`; `TypedIsHeard`:
  without captures `EditsAreHeard`; `GestureStepsCorrect`: the action properties of `GestureSteps`.

`GesturesInv` has four parts beside the types. `Pressing` says what a gesture may still come to: a press or
a drag that is pending came to nothing so far, and with the button up neither is left, so that one
press has one outcome. `Fields` ties the fields that may have the focus to the painted frame. `HeldKeys`
says that whoever has keys held is known, on top, and believes them. `Hovering` says that the sample the
runner compares with is of the pointer as it is. A custom capture leaves the runner without a frame (`Blank`)
until the next one: `OverIsWhereThePointerIs` and `KeysAgree` are stated for apps without captures, the rest with
whatever a capture leaves of them, which findings 27, 30, 31 and 32 show is no less than the code
loses. That the topmost element is one of those hit is the use of the well-ordering of numbers (`LeastNumber`,
`GreatestNumber`, `TopmostIs`).

And of `World3D`, for any sources, worlds, bodies and budgets:

- `World3DTypeCorrect`: `TypeOK`; `WorldsAreAuthored`: `AuthoredIsLive`; `OnlyViewedTime`: `SimulatedWasViewed`, without
  screenshots; `MotionIsAsked`: `AwakeIsAsked`; `PosesAreKept`: the action property `ReloadKeepsPoses`.

`WorldsInv` says of each world that its clock is not ahead, keeps less than a step and nothing when
suspended (`Sound`), and that worlds are body by body what the accepted source makes (`Authored`).
`ShownInv` is the strengthening `OnlyViewedTime` needs: what a world was simulated for and what its clock may still make
steps of (`Owed`) was in a view the app resolved, for which a world that runs must be one that the last frame's
view resolved. That it was on the screen as well does not follow, and finding 50 refutes it.

And of `Scroll`, for any layouts of the two scrollers, any wheels and drags:

- `ScrollStepsCorrect`: `InnermostFirst`, `ThumbFollows` (on a window, as finding 35 has it) and
  `FocusedIsSeen`, the parts of `ScrollSteps` that are about steps; `WheelsAreSpentOnce`: `Conserved`.

`ScrollInv` says beside the types that hits are of one frame's layout, the outer scroller first, and
that the pointer is over a scroller only when a frame has drawn one. `Passed` is what the chain
comes to: nothing, the outer one, or the inner and then the outer one, each by `Taken`. `Conserved`
needs that no frame drops an offset, which is its hypothesis `AllDrawn`; the invariant `Spent` adds
that the outer scroller never stands further down than some layout lets it, so that every frame
meets an offset `AllDrawn` speaks of. `MCRuntime` assumes it of `wheels`, whose run evaluates it.
That a wheel's remainder is no more than the wheel was is not among these: it is refuted where
content shrinks (finding 48), which is why `InnermostFirst` asks for a scroller within its content.

Only model-checked:

- Liveness (`EventuallyReached`, `ConnectionsEnd`, `Settles`, the runs' end in `TabsSettle`,
  `ThreadsEnd`): beyond the prover.
- The search index outside `Regime`: findings 22, 26 and 46 refute its properties there.
- `WritesAreKept`'s part about `DocTree`, and `EditsAreSound`: `Scan`, `PatchInto`, `Matched` and
  `Splice` compute along sequences, and what they yield for every input is induction over data.
- 2D `World`: bodies are reconciled by folds over sequences (`FoldLeft`, `FoldRight`), of which the
  provers know only what induction would tell.
- What `Gestures` says where an app captures the pointer, beyond the parts of `PointerIsTrue` and
  `KeysAreTrue` that hold then: findings 27, 30 to 32 refute the rest. `SimulatedWasViewed` with
  screenshots: finding 44 does.
- What an operation's wheel meets and what a pointer operation's rects are of: findings 36 and 37 refute it.

## Findings

Places where the code does other than a doc, comment or test beside it says. Four are
shown by a run; `PROJECT.json` quotes their lines. Of the others the module states the
promise, quoting its source, as a property that no run here asks for: TLC finds it
violated in the instance named last, which is the part as it stands in its `MC` module
unless the row says how it differs (an index outside `Regime` or `OneKey` also wants `MCNetwork` without
its `SearchHypotheses`).

| | What the code does | Promise | Instance |
|---|---|---|---|
| 1 | `handle_listen` unregisters by DID, so a replaced connection's handler takes down its successor; the desktop recovers after a retry (`listen` shows it does) and misses pushes in between | `Listen!ReplacedNotRemoved` | run `listen_replaced` |
| 2 | No listener is ever stopped: after a second claim or unlock two of them take turns for ever | `Listen!EventuallyReached` | run `listen_two` |
| 3 | A document whose put failed is indexed all the same | `Sync!IndexWithinVault` | run `sync_index` |
| 4 | A late unsubscribe undoes the subscription of the tab opened again, and the record says it is there | `Subscription!SubscribedIsSo` | 1 account, 2 items, 2 openings |
| 5 | Locking clears neither the record of subscriptions nor the node's token | `Subscription!SubscribedIsSo` | 2 accounts, 1 item, 2 locks |
| 6 | Joining an item that is there already overwrites its source | `Sources!PersistedStays` | 1 edit, 2 threads |
| 7 | A call that fails counts as a document nobody wrote, which is seeded again | `Sources!SeededOnce` | 2 threads, 1 fault |
| 8 | A login screen's thread unlocks its account whatever runs by then, and the flush after writes the other account's documents into it | `Session!OwnDocs` | run `session_cross` |
| 9 | A login from the window does not read the stored relationship | `Session!PersistedIsUsed` | part `window` |
| 10 | A claim is stored with whoever is unlocked when it ends | `Session!OwnRelationship` | part `bridge`, 3 threads |
| 11 | A signup whose screen was replaced never shows its recovery phrase | `Session!PhraseShown` | window and bridge, 3 threads |
| 12 | Locking after a failed save drops the edit | `Session!NothingLost` | part `bridge`, 1 fault, 1 edit |
| 13 | Locking while a thread hashes shows the signup form | `Session!LockShowsLogin` | window and bridge |
| 14 | The items screen opens an open item a second time | `Tabs!OneTabEach` | part `screen` |
| 15 | A test's pointer lands on whatever tab shows | `Tabs!TestsHitTheirOwn` | part `tabs` |
| 16 | An edit that changes nothing after one that did not load is answered as activated | `AppHost!ActivatedIsRunning` | part `host` |
| 17 | A reload that fails leaves what `main.lua` wrote on its way | `AppHost!NothingChangesOnFailure` | part `host` |
| 18 | A late `require` runs a newer file beside an older `main.lua` | `AppHost!RunsOneVersion` | part `host` |
| 19 | An old text that overlaps itself occurs twice and counts once | `SourceEdit!ExactlyOne` | part `edit` |
| 20 | A record that failed and is then deleted is found for good | `SearchIndex!GoneIsGone` | 3 messages, no fault |
| 21 | A record whose key fails is deleted from the index | `SearchIndex!FailedStays` | the same |
| 22 | An edited key leaves unchanged records under their old ids | `SearchIndex!KeysFollowTheSpec` | the same, two keys |
| 23 | What is written while index.lua does not load is not indexed when its text is put back | `SearchIndex!KeptCurrent` | the same |
| 24 | A document pulled by a handler is not indexed | `SearchIndex!KeptCurrent` | the same, 2 documents |
| 25 | A commit that fails at the fingerprints leaves the query memo of before | `SearchIndex!MemoIsFresh` | `Faults = {"prints"}` |
| 26 | Such a commit also lets an edit that is undone next be skipped | `SearchIndex!IncrementalIsFull` | `Faults = {"prints"}` |
| 27 | After a custom capture, an event before the next frame makes elements enter twice | `Gestures!EnterOnce` | part `cards` with captures |
| 28 | A drag released outside the window is told no end | `Gestures!EveryStartEnds` | part `cards` |
| 29 | A press that travels inside a button clicks | `Gestures!TravelledIsNoClick` | part `cards` |
| 30 | A blur after a custom capture leaves its owner with stuck keys | `Gestures!KeysAgree` | part `games` with captures |
| 31 | The frame after one gives the focus back to an autofocus field | `Gestures!AutofocusOnce` | the same |
| 32 | A key typed before it changes the field and not the app | `Gestures!EditsAreHeard` | the same |
| 33 | A scroller drawn out of view loses its offset | `Scroll!KeptWhileDrawn` | part `thumbs` |
| 34 | A vertical scroller swallows a horizontal wheel | `Scroll!OnlyItsAxis` | a list in a board that scrolls on x |
| 35 | Offscreen, a dragged thumb moves nothing | `Scroll!ThumbFollows` | part `thumbs`, `Window = FALSE`, `Handled = FALSE` |
| 36 | The driver's wheel is tested against the frame before its move | `Driver!WheelSeesTheFrame` | part `driver` |
| 37 | What a pointer operation reports was there before it | `Driver!RectsAreAfterwards` | part `driver` |
| 38 | A refused description uses up collision groups | `World!RefusedChangesNothing` | a description without sizes |
| 39 | A despawned sensor tells no leave | `World!SensorGoneIsLeft` | part `floor` |
| 40 | A timer due on the same frame fires although cancelled | `World!CancelledNeverFires` | part `clock` |
| 41 | A clip given to an idle world is already further on, and may end at once | `World!ClipPlaysWhole` | part `clock`, 3 seconds |
| 42 | A held key's repeat can be a press | `World!RepeatsAreNoPress` | an action on a key |
| 43 | A controller taken away while walking never tells it stopped | `World!StopsAreTold` | a hero whose controller goes |
| 44 | A screenshot unpauses an omitted 3D world without its clock knowing | `World3D!SimulatedWasViewed` | part `filmed`, 5 halves of a step |
| 45 | An invite that its name's owner has replaced goes on admitting, as the node cannot revoke it | `Names!RotatedAdmitsNobody` | 3 transactions |
| 46 | A crash between the index's files and its fingerprints, an edit undone meanwhile and an opening at which some document cannot be planned, or the index cannot be written, leave the undone edit in the index | `SearchIndex!IncrementalIsFull` | `Faults = {"crash"}`, 2 documents, one without a plan, 3 messages; or `{"crash", "files"}`, 1 document |
| 47 | Locking over the bridge while a login or signup of the window has ended but is not yet handled shows an account's screen with the vault locked | `Session!SpacesUnlocked` | window and bridge |
| 48 | A wheel over a scroller whose content shrank past its offset passes the clamp's correction on, and what is around it moves further than was asked, or the other way | `Scroll!OnlyTheRemainder` | part `wheels`, `MaxSent = 7` |
| 49 | A claim's message that comes after another account was unlocked puts its token into use and listens with it under that account | `Session!OnlyTheStoredIsUsed` | part `bridge` |
| 50 | A world whose element a card replaced after it was resolved, or that is in a second scene, is simulated though it is not drawn (`docs/lua-apps.md:457`) | `World3D!OnlyPaintedIsStepped` | part `marbles` |

## Not modelled, and why

Layout and drawing, GPU calls, Lua syntax trees, dictation, demo apps: conversions
without shared or durable state that ordering could break; `Scroll`, `Gestures` and `World`
take what they yield as input. Cryptography, identity, framing, ticket encoding: primitives,
modelled by what they promise. `peer` and `node`: records of federated nodes that nothing dials yet.
Floating-point movement: nondeterministic, as a solver's outcome. Listing
verbs that only read; the themes, text fields and looks of the screens. Collaborative
text and Loro's own merging, taken for a join of edits. Who is subscribed is left open
in `Sync` (a push may reach anyone with room for it), and so is what the app writes.

Hazards that have no property are listed with the reason: no text says that a
connection should end with its token (`Listen` models the lapse); that a revocation is of
one id, and reissued tokens are not its children, is named as open in
`docs/design/node-backlog.md`; how long a slow client holds the accept loop is bounded by a
constant alone (`NodeStore` models the wait).

## Plan

Done, in this order: the models of authority, the node's store, the push connection, sync;
then of subscriptions, accounts, tabs, apps and documents, sources, the index, the runtime's
input, worlds, the driver and names. Proofs of authority, the store and names; then of scopes,
sync with its refinement, the push connection, items, an open app, of the desktop its
accounts, tabs, subscriptions and driver, of the runtime its input, scrolling and 3D worlds, and the search index. Left:

1. Proofs of what `Sync` takes for granted: `Subscription`'s record under the assumptions that findings 4 and 5
   break.
2. Models: the collision checks of a publish, `peer` once something dials it, zoom about the pointer.
