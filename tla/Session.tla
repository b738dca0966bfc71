------------------------------- MODULE Session -------------------------------
(***************************************************************************)
(* The accounts of one desktop: the vault that holds at most one of them   *)
(* unlocked, the screens of the window, the requests of the bridge, and    *)
(* the threads both start.  Hashing a passphrase and calling the node take *)
(* time, so they run on threads that share the vault with the window; an   *)
(* account may be locked or switched before such a thread is done.         *)
(*                                                                         *)
(* An account's store is a file that one handle at a time may have open.   *)
(* One app of each account is modelled; what it wrote and has not saved is *)
(* a flag.  A thread that has ended stays in `jobs', as the message it     *)
(* sent, until the window handles that.                                    *)
(***************************************************************************)
EXTENDS Naturals, FiniteSets

CONSTANTS Account, None,
          Frontends,        \* "window", "bridge": who asks for things
          MaxJobs,          \* bound: threads started
          MaxFaults,        \* bound: crashes and puts that fail
          MaxEdits          \* bound: edits made

ASSUME SessionAssumption ==
  /\ None \notin Account /\ IsFiniteSet(Account)
  /\ Frontends \subseteq {"window", "bridge"}
  /\ MaxJobs \in Nat /\ MaxFaults \in Nat /\ MaxEdits \in Nat

VARIABLES files,            \* how far each account's store has got
          rel,              \* whose token is stored as its relationship
          spaces,           \* how many workspaces it has
          active,           \* Vault::active
          screen, pending,  \* the screen, and whether its form waits for a thread
          page,             \* what a spaces screen was built with
          apps,             \* the apps that run: whose, and whether all is saved
          node,             \* Shell::node: whose token
          listeners,        \* <<did, token>> of the listener threads
          jobs,             \* threads, and the messages of those that have ended
          told,             \* history: whose recovery phrase was shown
          wrote,            \* history: <<what, of whom, with whom it ended up>>
          lost,             \* history: whose edits were dropped unsaved
          started, faults, edits
vars == <<files, rel, spaces, active, screen, pending, page, apps, node, listeners, jobs,
          told, wrote, lost, started, faults, edits>>
disk == <<files, rel, spaces>>
view == <<screen, pending, page>>
history == <<told, wrote, lost>>

Kind == {"Login", "Signup", "Unlock", "Register", "Claim", "AddSpace"}
Stage == {"started", "hashing", "hashed", "opened", "keyed", "ok", "failed"}
Job == [kind : Kind, who : Account, stage : Stage]

\* Shell::new: every account is locked, so no relationship can be read yet
Init ==
  /\ files = [a \in Account |-> "none"] /\ rel = [a \in Account |-> None]
  /\ spaces = [a \in Account |-> 0] /\ page = [spaces |-> 0, node |-> None]
  /\ active = None /\ screen = "Signup" /\ pending = FALSE /\ apps = {}
  /\ node = None /\ listeners = {} /\ jobs = {}
  /\ told = {} /\ wrote = {} /\ lost = {}
  /\ started = 0 /\ faults = 0 /\ edits = 0

Made == {a \in Account : files[a] # "none"}

\* redb: the account that is unlocked holds its file, and so does a thread
\* that reads the keystore, until it has hashed, or that writes it
Busy(a) == \E j \in jobs : j.who = a /\ j.stage \in {"hashing", "opened", "keyed"}
Held(a) == active = a \/ Busy(a)

\* Vault::accounts opens every store but the active one, and fails if it cannot
AccountsReadable == \A a \in Made : a = active \/ ~Busy(a)

Start(kind, a) ==
  /\ started < MaxJobs /\ started' = started + 1
  /\ jobs' = jobs \cup {[kind |-> kind, who |-> a, stage |-> "started"]}
  /\ [kind |-> kind, who |-> a, stage |-> "started"] \notin jobs

MoveTo(j, stage) == jobs' = (jobs \ {j}) \cup {[j EXCEPT !.stage = stage]}

\* The window runs a bridge request's commit itself and does nothing meanwhile
Idle == \A j \in jobs : j.kind = "Register" => j.stage \notin {"opened", "keyed"}

-----------------------------------------------------------------------------
(* The screens, and the messages each one's view offers *)

LoginView == {"Login", "AddAccount"}
SignupView == IF pending THEN {} ELSE {"Signup"}
\* Once the box is ticked
MnemonicView == {"Continue"}
\* An account with no workspace is only asked for one
SpacesView ==
  IF page.spaces = 0 THEN {"AddSpace"}
  ELSE {"AddSpace", "OpenSpace"} \cup IF page.node = None THEN {"Claim"} ELSE {}
ItemsView == {"Back", "Open"}

Offered == CASE screen = "Login" -> LoginView [] screen = "Signup" -> SignupView
             [] screen = "Mnemonic" -> MnemonicView [] screen = "Spaces" -> SpacesView
             [] screen = "Items" -> ItemsView

-----------------------------------------------------------------------------
(* After every message, and what opens and closes apps *)

\* The flush: what is unsaved is put into the store of whoever is unlocked now;
\* `noted' is what else the message did
FlushNoting(noted, running) ==
  \E failed \in SUBSET {p \in running : p.unsaved} :
    LET puts == {p \in running : p.unsaved} \ failed IN
    /\ active' = None => puts = {}
    /\ active' # None => faults + Cardinality(failed) <= MaxFaults
    /\ faults' = IF active' = None THEN faults ELSE faults + Cardinality(failed)
    /\ apps' = (running \ puts) \cup {[p EXCEPT !.unsaved = FALSE] : p \in puts}
    /\ wrote' = wrote \cup noted \cup {<<"doc", p.of, active'>> : p \in puts}
Flush(running) == FlushNoting({}, running)

\* Shell::reset_tabs, and the apps that go with the tabs
ResetTabs ==
  /\ apps' = {}
  /\ lost' = lost \cup {p.of : p \in {q \in apps : q.unsaved}}

Open ==
  /\ Idle /\ active # None
  /\ "bridge" \in Frontends \/ ("window" \in Frontends /\ "Open" \in Offered)
  /\ \A p \in apps : p.of # active
  /\ UNCHANGED <<disk, active, view, node, listeners, jobs, told, lost,
                 started, edits>>
  /\ Flush(apps \cup {[of |-> active, unsaved |-> FALSE]})

Edit(p) ==
  /\ Idle /\ p \in apps /\ edits < MaxEdits
  /\ edits' = edits + 1
  /\ UNCHANGED <<disk, active, view, node, listeners, jobs, told, lost, started>>
  /\ Flush((apps \ {p}) \cup {[p EXCEPT !.unsaved = TRUE]})

-----------------------------------------------------------------------------
(* The screens in use *)

NodeOf == IF active' = None THEN None ELSE rel[active']

\* SpaceScreen::new
NewPage == [spaces |-> IF active' = None THEN 0 ELSE spaces[active'],
            node |-> IF active' = None THEN None ELSE rel[active']]

Show(to) == /\ screen' = to /\ pending' = FALSE
            /\ page' = IF to = "Spaces" THEN NewPage ELSE page

Submit(kind, a) ==
  /\ Idle /\ "window" \in Frontends /\ kind \in Offered \cap {"Login", "Signup"} /\ ~pending
  /\ (kind = "Login") = (a \in Made)
  /\ kind = "Signup" => \A j \in jobs : j.who # a
  /\ Start(kind, a) /\ pending' = TRUE
  /\ UNCHANGED <<disk, active, screen, page, node, listeners, told, lost, edits>>
  /\ Flush(apps)

Target == [AddAccount |-> "Signup", Continue |-> "Spaces", OpenSpace |-> "Items",
           Back |-> "Spaces"]

Turn(m) ==
  /\ Idle /\ "window" \in Frontends /\ m \in Offered \cap DOMAIN Target
  /\ UNCHANGED <<disk, active, node, listeners, jobs, told, lost, started, edits>>
  /\ Show(Target[m])
  /\ Flush(apps)

\* AddSpace and ClaimNode of the spaces screen
Ask(kind) ==
  /\ Idle /\ "window" \in Frontends /\ active # None
  /\ kind \in Offered \cap {"AddSpace", "Claim"}
  /\ Start(kind, active)
  /\ UNCHANGED <<disk, active, view, node, listeners, told, lost, edits>>
  /\ Flush(apps)

\* LoginMsg::Done on the login screen
LoginShown(j) ==
  IF j.stage = "ok" THEN Show("Spaces") ELSE pending' = FALSE /\ UNCHANGED <<screen, page>>

\* The messages of the login and signup threads go to their screen, and to
\* nobody if another is showing.  No account's apps or node are looked at.
LoginDone(j) ==
  /\ Idle /\ j.kind = "Login" /\ j.stage \in {"ok", "failed"}
  /\ jobs' = jobs \ {j}
  /\ UNCHANGED <<disk, active, node, listeners, told, lost, started, edits>>
  /\ IF screen = "Login" THEN LoginShown(j) ELSE UNCHANGED view
  /\ Flush(apps)

SignupDone(j) ==
  /\ Idle /\ j.kind = "Signup" /\ j.stage \in {"ok", "failed"}
  /\ jobs' = jobs \ {j}
  /\ UNCHANGED <<disk, active, node, listeners, lost, started, edits>>
  /\ IF screen # "Signup" THEN UNCHANGED <<view, told>>
     ELSE IF j.stage = "ok" THEN Show("Mnemonic") /\ told' = told \cup {j.who}
     ELSE pending' = FALSE /\ UNCHANGED <<screen, page, told>>
  /\ Flush(apps)

-----------------------------------------------------------------------------
(* The bridge *)

\* Request::Signup, Unlock and ClaimNode: threads of their own
Request(kind, a) ==
  /\ Idle /\ "bridge" \in Frontends
  /\ CASE kind = "Register" -> a \notin Made /\ \A j \in jobs : j.who # a
       [] kind = "Unlock" -> a \in Made /\ AccountsReadable
       [] kind = "Claim" -> a = active
       [] OTHER -> FALSE
  /\ Start(kind, a)
  /\ UNCHANGED <<disk, active, view, node, listeners, told, lost, edits>>
  /\ Flush(apps)

\* refresh_after_workspace: a spaces screen is built again
Refreshed == IF screen = "Spaces" THEN [spaces |-> spaces'[active], node |-> rel[active]]
             ELSE page

\* Request::CreateWorkspace
NewWorkspace ==
  /\ Idle /\ "bridge" \in Frontends /\ active # None
  /\ started < MaxJobs /\ started' = started + 1
  /\ spaces' = [spaces EXCEPT ![active] = @ + 1]
  /\ page' = Refreshed
  /\ UNCHANGED <<files, rel, active, screen, pending, node, listeners, jobs, told, lost, edits>>
  /\ Flush(apps)

\* The login screen, or the signup form if there is no account it can list
LockScreen == IF Made # {} /\ \A a \in Made : ~Busy(a) THEN "Login" ELSE "Signup"

\* Request::Lock
Lock ==
  /\ Idle /\ "bridge" \in Frontends
  /\ active' = None /\ ResetTabs /\ Show(LockScreen)
  /\ UNCHANGED <<disk, node, listeners, jobs, told, wrote, started, faults, edits>>

\* Msg::AuthDone: a login is committed here, a signup in steps of CommitSignup;
\* then the tabs go, and the relationship that is stored gets its listener
Arrived ==
  /\ Show("Spaces") /\ ResetTabs /\ node' = NodeOf
  /\ listeners' = listeners \cup (IF NodeOf = None THEN {} ELSE {<<active', NodeOf>>})
  /\ UNCHANGED <<wrote, faults>>

AuthDone(j) ==
  /\ Idle /\ j.kind \in {"Unlock", "Register"} /\ j.stage \in {"hashed", "failed"}
  /\ j.kind = "Register" => j.stage = "failed"
  /\ jobs' = jobs \ {j}
  /\ IF j.stage = "hashed" /\ ~Held(j.who)
     THEN active' = j.who /\ Arrived
     ELSE UNCHANGED <<active, view, node, listeners, lost>> /\ Flush(apps)
  /\ UNCHANGED <<disk, told, started, edits>>

\* NodeRpcDone, and ClaimResult, which tells a spaces screen as well: whoever
\* is unlocked gets the listener
ClaimDone(j) ==
  /\ Idle /\ j.kind = "Claim" /\ j.stage \in {"ok", "failed"}
  /\ jobs' = jobs \ {j}
  /\ UNCHANGED <<disk, active, screen, pending, told, lost, started, edits>>
  /\ IF j.stage = "failed" THEN UNCHANGED <<node, listeners, page>> /\ Flush(apps)
     ELSE /\ node' = j.who
          /\ listeners' = listeners \cup (IF active = None THEN {} ELSE {<<active, j.who>>})
          /\ page' \in {page, IF screen = "Spaces" THEN [page EXCEPT !.node = j.who] ELSE page}
          /\ FlushNoting(IF active = None THEN {} ELSE {<<"token", j.who, active>>}, apps)

AddSpaceDone(j) ==
  /\ Idle /\ j.kind = "AddSpace" /\ j.stage \in {"ok", "failed"}
  /\ jobs' = jobs \ {j}
  /\ page' = IF screen # "Spaces" \/ j.stage = "failed" \/ active = None THEN page
             ELSE [page EXCEPT !.spaces = spaces[active]]
  /\ UNCHANGED <<disk, active, screen, pending, node, listeners, told, lost, started, edits>>
  /\ Flush(apps)

-----------------------------------------------------------------------------
(* The threads *)

\* Vault::prepare_login opens the store, reads the keystore and hashes; a
\* passphrase may be wrong.  prepare_signup only hashes.
Prepare(j) ==
  /\ j.kind \in {"Login", "Unlock", "Signup", "Register"}
  /\ \/ /\ j.stage = "started" /\ j.kind \in {"Login", "Unlock"}
        /\ MoveTo(j, IF ~Held(j.who) /\ files[j.who] = "keyed" THEN "hashing" ELSE "failed")
     \/ /\ j.stage = "started" /\ j.kind \in {"Signup", "Register"}
        /\ MoveTo(j, "hashed")
     \/ j.stage = "hashing" /\ \E s \in {"hashed", "failed"} : MoveTo(j, s)
  /\ UNCHANGED <<disk, active, view, apps, node, listeners, history, started, faults, edits>>

\* The login screen's thread commits as well: Vault::commit_login
CommitLogin(j) ==
  /\ j.kind = "Login" /\ j.stage = "hashed"
  /\ IF Held(j.who) THEN MoveTo(j, "failed") /\ UNCHANGED active
     ELSE MoveTo(j, "ok") /\ active' = j.who
  /\ UNCHANGED <<disk, view, apps, node, listeners, history, started, faults, edits>>

FileAt(stage) == IF stage = "hashed" THEN "opened" ELSE "keyed"

\* Vault::commit_signup: create the file, put the keystore, unlock.  A bridge
\* request's is run by the window, which then answers with the phrase.
CommitSignup(j) ==
  /\ j.kind \in {"Signup", "Register"} /\ j.stage \in {"hashed", "opened", "keyed"}
  /\ j.kind = "Register" /\ j.stage = "hashed" => Idle
  /\ UNCHANGED <<rel, spaces, started, edits>>
  /\ IF j.stage # "keyed"
     THEN /\ \/ /\ files' = [files EXCEPT ![j.who] = FileAt(j.stage)]
                /\ MoveTo(j, IF j.stage = "hashed" THEN "opened" ELSE "keyed")
                /\ UNCHANGED faults
             \/ /\ faults < MaxFaults /\ faults' = faults + 1
                /\ MoveTo(j, "failed") /\ UNCHANGED files
          /\ UNCHANGED <<active, view, apps, node, listeners, history>>
     ELSE /\ active' = j.who /\ UNCHANGED files
          /\ IF j.kind = "Signup"
             THEN /\ MoveTo(j, "ok")
                  /\ UNCHANGED <<view, apps, node, listeners, history, faults>>
             ELSE jobs' = jobs \ {j} /\ told' = told \cup {j.who} /\ Arrived

\* A claim signs as whoever is unlocked, calls the node, and saves what it was
\* given with whoever is unlocked by then; create_workspace only saves.
Claim(j) ==
  /\ j.kind = "Claim" /\ j.stage \in {"started", "hashed"}
  /\ IF j.stage = "started"
     THEN /\ IF active = None THEN MoveTo(j, "failed")
             ELSE jobs' = (jobs \ {j}) \cup {[j EXCEPT !.who = active, !.stage = "hashed"]}
          /\ UNCHANGED <<rel, wrote>>
     ELSE \/ MoveTo(j, "failed") /\ UNCHANGED <<rel, wrote>>
          \/ /\ active # None /\ MoveTo(j, "ok")
             /\ rel' = [rel EXCEPT ![active] = j.who]
             /\ wrote' = wrote \cup {<<"relationship", j.who, active>>}
  /\ UNCHANGED <<files, spaces, active, view, apps, node, listeners, told, lost,
                 started, faults, edits>>

CreateWorkspace(j) ==
  /\ j.kind = "AddSpace" /\ j.stage = "started"
  /\ IF active = None THEN MoveTo(j, "failed") /\ UNCHANGED <<wrote, spaces>>
     ELSE /\ MoveTo(j, "ok") /\ wrote' = wrote \cup {<<"workspace", j.who, active>>}
          /\ spaces' = [spaces EXCEPT ![active] = @ + 1]
  /\ UNCHANGED <<files, rel, active, view, apps, node, listeners, told, lost,
                 started, faults, edits>>

Crash ==
  /\ faults < MaxFaults /\ faults' = faults + 1
  /\ active' = None /\ pending' = FALSE /\ apps' = {} /\ node' = None
  /\ listeners' = {} /\ jobs' = {}
  /\ screen' = IF Made = {} THEN "Signup" ELSE "Login"
  /\ UNCHANGED <<disk, page, history, started, edits>>

-----------------------------------------------------------------------------
Window == \/ Open \/ Lock \/ NewWorkspace \/ \E p \in apps : Edit(p)
          \/ \E m \in DOMAIN Target : Turn(m)
          \/ \E kind \in Kind : \/ Ask(kind)
                               \/ \E a \in Account : Submit(kind, a) \/ Request(kind, a)
Handle == \E j \in jobs : LoginDone(j) \/ SignupDone(j) \/ AuthDone(j) \/ ClaimDone(j)
                            \/ AddSpaceDone(j)
Thread == \E j \in jobs : Prepare(j) \/ CommitLogin(j) \/ CommitSignup(j) \/ Claim(j)
                            \/ CreateWorkspace(j)
Next == Window \/ Handle \/ Thread \/ Crash
Spec == Init /\ [][Next]_vars
\* Threads run, and the window handles the messages it has been sent
FairSpec == Spec /\ WF_vars(Handle) /\ WF_vars(Thread)
-----------------------------------------------------------------------------
(* Properties *)

\* Accounts' files, the screen and what it was built with, apps and threads.
TypeOK ==
  /\ files \in [Account -> {"none", "opened", "keyed"}]
  /\ rel \in [Account -> Account \cup {None}] /\ active \in Account \cup {None}
  /\ screen \in {"Login", "Signup", "Mnemonic", "Spaces", "Items"} /\ pending \in BOOLEAN
  /\ spaces \in [Account -> 0..MaxJobs]
  /\ page \in [spaces : 0..MaxJobs, node : Account \cup {None}]
  /\ apps \subseteq [of : Account, unsaved : BOOLEAN]
  /\ node \in Account \cup {None} /\ listeners \subseteq Account \X Account
  /\ jobs \subseteq Job /\ told \subseteq Account /\ lost \subseteq Account
  /\ wrote \subseteq {"doc", "relationship", "workspace", "token"} \X Account \X Account
  /\ started \in 0..MaxJobs /\ faults \in 0..MaxFaults /\ edits \in 0..MaxEdits

\* Whoever has been shown a recovery phrase has a keystore on disk to unlock,
\* whatever crashed: commit_signup puts it before it returns the phrase.
PhraseMeansKeystore == \A a \in told : files[a] = "keyed"

\* A flush writes an app's documents into the store of the account whose app
\* it is (main.rs, reset_tabs: it must never write them into another's).
OwnDocs == \A w \in wrote : w[1] = "doc" => w[2] = w[3]

\* What a claim was given is stored with the account it was issued to.
OwnRelationship == \A a \in Account : rel[a] \in {a, None}

\* Spaces and items are shown of an account that is unlocked.
SpacesUnlocked == screen \in {"Spaces", "Items"} => active # None

\* A spaces screen that shows, with nothing under way, shows the workspaces the
\* account has (refresh_after_workspace: a write must not leave it stale).
ShowingIsFresh ==
  (screen = "Spaces" /\ active # None /\ \A j \in jobs : j.kind # "AddSpace") =>
    page.spaces = spaces[active]

\* The relationship that is stored is the one in use, with a listener of its own.
StoredInUse ==
  active # None /\ rel[active] # None =>
    node = rel[active] /\ <<active, rel[active]>> \in listeners
\* Some claim was saved, or its token taken into use, under another account
ClaimStrayed == \E w \in wrote : w[1] \in {"relationship", "token"} /\ w[2] # w[3]

\* A relationship that is stored is not left "sitting unused until the next claim"
\* (main.rs, AuthDone), whatever was claimed, locked and unlocked meanwhile: once
\* nothing is under way, the node and the listener in use are of the unlocked
\* account's stored token; a claim that outlived its account is the exception.
PersistedIsUsed == jobs = {} => StoredInUse \/ ClaimStrayed
\* The same without the exception.
OnlyTheStoredIsUsed == jobs = {} => StoredInUse

\* Whichever front end is in use, a phrase that was shown is of a stored keystore, and
\* with one of them alone no page shows what is locked; over the bridge alone also,
\* an app's documents are saved with the account whose app it is, the page shows the
\* account as it is, and the stored token is the one in use unless a claim outlived
\* its account.
KeptApart ==
  /\ PhraseMeansKeystore
  /\ Frontends # {"window", "bridge"} => SpacesUnlocked
  /\ "window" \notin Frontends => OwnDocs /\ ShowingIsFresh /\ PersistedIsUsed

\* An account whose signup is over had its recovery phrase shown to someone.
PhraseShown ==
  \A a \in Account : files[a] = "keyed" /\ (\A j \in jobs : j.who # a) => a \in told

\* Dropping the apps loses nothing: each message before has flushed.
NothingLost == lost = {}

\* Locking shows the login screen if there are accounts.
LockShowsLogin == [][Lock /\ Made # {} => screen' = "Login"]_vars

\* A form whose button waits does not wait forever.
ButtonComesBack == pending ~> ~pending
=============================================================================
