-------------------------------- MODULE IwaWeb --------------------------------
(***************************************************************************)
(* One tab of the web client: the wallet (app/WalletProvider.tsx over      *)
(* lib/starknetWallet.ts), the session that private reads use              *)
(* (app/sessionHolder.ts, app/SessionProvider.tsx), the member identity,   *)
(* and the screens that load with them.                                    *)
(*                                                                         *)
(* Everything is asynchronous.  A load, a sign-in and a derivation go on   *)
(* while the person disconnects, connects another wallet or leaves the     *)
(* screen, and what the screens were rendered with lags behind the wallet  *)
(* module by one render.  watchWallet is subscribed once, on mount, when   *)
(* nothing is connected: it returns at once, so no change made in the      *)
(* extension reaches the tab, and a connected wallet stays on the expected *)
(* chain.                                                                  *)
(***************************************************************************)
EXTENDS Naturals, FiniteSets

CONSTANTS
  Accounts,
  Nobody,            \* null: no account, token, identity or data
  Loads,             \* bound: loads under way at a time
  MaxConnects        \* bound: connections

ASSUME WebAssumption == Nobody \notin Accounts /\ MaxConnects \in Nat

VARIABLES
  seam,              \* currentWallet() of lib/starknetWallet.ts
  shown,             \* the address the tab was last rendered with
  connects,
  identity,          \* WalletProvider's identityRef: whose it is.  The copy of
                     \* starknetWallet.ts, kept by account, only saves a prompt
  token,             \* the session held, named by the wallet it is of
  signin,            \* the sign-in under way (pending)
  route,
  screen,            \* what the screen holds
  loads

webvars == <<seam, shown, connects, identity, token, signin, route, screen, loads>>
wallet  == <<seam, connects, identity>>

Idle     == [phase |-> "idle"]
NoSignIn == [by |-> Nobody]

\* home, a list (CircleListView, StandingView), a circle, and the organizer's.
Routes == {"home", "list", "circle", "create"}

\* data: whose circles, tasks or seat the screen shows.
Fresh == [data |-> Nobody, due |-> TRUE, requested |-> FALSE, failed |-> FALSE]

-----------------------------------------------------------------------------
(* The session *)

\* walletForRead: straight after connecting, the tab still says disconnected.
walletForRead == IF shown = Nobody THEN seam ELSE shown

\* Every clear is a new era: all that matters of it is whether the sign-in
\* under way began in an earlier one.
clear ==
  /\ token' = Nobody
  /\ signin' = IF signin = NoSignIn THEN signin ELSE [signin EXCEPT !.stale = TRUE]

\* A load that needs the session uses it, waits for the sign-in under way, or
\* starts one.
ensure(l, for) ==
  LET held == token # Nobody
  IN  /\ walletForRead # Nobody
      /\ loads' = [loads EXCEPT ![l] =
           [phase |-> IF held THEN "reading" ELSE "waiting", screen |-> for, live |-> TRUE,
            mounted |-> TRUE, signer |-> walletForRead, auth |-> token, data |-> Nobody]]
      /\ signin' = IF held \/ signin # NoSignIn THEN signin
                   ELSE [by |-> walletForRead, stale |-> FALSE, signed |-> FALSE]

Waiting(l) == loads[l].phase = "waiting"

\* Loading is put down and a failure shown by the home screen, whichever wallet
\* it now shows; the others show nothing.
Fail(ls) ==
  /\ loads' = [l \in Loads |-> IF l \in ls THEN Idle ELSE loads[l]]
  /\ screen' = IF \E l \in ls : loads[l].screen = "home" /\ loads[l].mounted
               THEN [screen EXCEPT !.failed = TRUE] ELSE screen

Sign ==
  /\ signin # NoSignIn /\ ~signin.signed
  /\ seam = signin.by
  /\ signin' = [signin EXCEPT !.signed = TRUE]
  /\ UNCHANGED <<wallet, shown, token, route, screen, loads>>

\* Those who wait are not told.
SignInFails_bug_silent ==
  /\ signin # NoSignIn
  /\ signin' = NoSignIn
  /\ UNCHANGED <<wallet, shown, token, route, screen, loads>>

\* Declined, or signed by another wallet than the one the challenge is of.
SignInFails ==
  /\ signin # NoSignIn
  /\ Fail({l \in Loads : Waiting(l)})
  /\ signin' = NoSignIn
  /\ UNCHANGED <<wallet, shown, token, route>>

\* Whoever waits has the answer; a null one means that each read is signed.
Settle(answer) ==
  /\ loads' = [l \in Loads |->
       IF ~Waiting(l) THEN loads[l]
       ELSE [loads[l] EXCEPT !.auth = answer,
                             !.phase = IF answer = Nobody THEN "signing" ELSE "reading"]]
  /\ signin' = NoSignIn
  /\ UNCHANGED <<wallet, shown, route, screen>>

\* Whatever era it was asked for in.
SignedIn_bug_era ==
  /\ signin # NoSignIn /\ signin.signed
  /\ token' = signin.by
  /\ Settle(signin.by)

\* A token of an earlier era is revoked and not used.
SignedIn ==
  /\ signin # NoSignIn /\ signin.signed
  /\ IF signin.stale
     THEN UNCHANGED token /\ Settle(Nobody)
     ELSE token' = signin.by /\ Settle(signin.by)

\* A service that has no sessions.
NoSessions ==
  /\ signin # NoSignIn
  /\ Settle(Nobody)
  /\ UNCHANGED token

-----------------------------------------------------------------------------
(* The wallet *)

\* Offered by a tab that shows no wallet.
connect(a) ==
  /\ shown = Nobody /\ seam = Nobody /\ connects < MaxConnects
  /\ seam' = a
  /\ connects' = connects + 1
  /\ UNCHANGED <<shown, identity, token, signin, route, screen, loads>>

disconnect ==
  /\ shown # Nobody /\ seam = shown
  /\ seam' = Nobody /\ identity' = Nobody
  /\ UNCHANGED <<shown, connects, token, signin, route, screen, loads>>

\* The effects on the address: the session ends, the screens forget and load
\* again.  No load is stopped; those of the circle screen are told.
Render ==
  /\ shown # seam
  /\ shown' = seam
  /\ clear
  /\ screen' = Fresh
  /\ loads' = [l \in Loads |-> IF loads[l] = Idle THEN Idle ELSE [loads[l] EXCEPT !.live = FALSE]]
  /\ UNCHANGED <<wallet, route>>

\* Another screen is mounted.  The loads of the old one go on, for nothing.
navigate(r) ==
  /\ route # r
  /\ route' = r
  /\ screen' = Fresh
  /\ loads' = [l \in Loads |-> IF loads[l] = Idle THEN Idle
                               ELSE [loads[l] EXCEPT !.live = FALSE, !.mounted = FALSE]]
  /\ UNCHANGED <<wallet, shown, token, signin>>

-----------------------------------------------------------------------------
(* The screens *)

loading == \E l \in Loads : loads[l] # Idle /\ loads[l].screen = "home" /\ loads[l].mounted

\* The press that allows a signature, or "Try again".
Ask ==
  /\ route = "home" /\ shown # Nobody /\ screen.data = Nobody
  /\ screen.failed \/ (~loading /\ ~screen.requested)
  /\ screen' = [screen EXCEPT !.requested = TRUE, !.failed = FALSE]
  /\ UNCHANGED <<wallet, shown, token, signin, route, loads>>

shouldLoadActionCenter ==
  /\ shown # Nobody /\ ~loading /\ ~screen.failed /\ screen.data = Nobody
  /\ token # Nobody \/ screen.requested

Free(l) == loads[l] = Idle

BeginHome(l) ==
  /\ Free(l) /\ route = "home"
  /\ shouldLoadActionCenter
  /\ ensure(l, "home")
  /\ UNCHANGED <<wallet, shown, token, route, screen>>

BeginList(l) ==
  /\ Free(l) /\ route = "list" /\ screen.due /\ shown # Nobody
  /\ ensure(l, "list")
  /\ screen' = [screen EXCEPT !.due = FALSE, !.data = Nobody]
  /\ UNCHANGED <<wallet, shown, token, route>>

\* onConnect of the organizer's screen reads before the tab is rendered again.
BeginRecover(l) ==
  /\ Free(l) /\ route = "create" /\ screen.due /\ shown = Nobody
  /\ ensure(l, "create")
  /\ screen' = [screen EXCEPT !.due = FALSE]
  /\ UNCHANGED <<wallet, shown, token, route>>

\* A circle is public: only the seat that is yours needs the identity.
BeginCircle(l) ==
  /\ Free(l) /\ route = "circle" /\ screen.due
  /\ loads' = [loads EXCEPT ![l] =
       [phase |-> "identity", screen |-> "circle", live |-> TRUE, mounted |-> TRUE,
        signer |-> shown, auth |-> Nobody, data |-> Nobody]]
  /\ screen' = [screen EXCEPT !.due = FALSE, !.data = Nobody]
  /\ UNCHANGED <<wallet, shown, token, signin, route>>

\* A read that is authorized by itself is signed by the wallet, if it is there.
SignRead(l) ==
  /\ loads[l].phase = "signing" /\ seam = loads[l].signer
  /\ loads' = [loads EXCEPT ![l].phase = "reading"]
  /\ UNCHANGED <<wallet, shown, token, signin, route, screen>>

\* The service answers for the wallet of the session or of the signature.
Owner(load) == IF load.auth # Nobody THEN load.auth ELSE load.signer

\* The identity is needed if a place was accepted in a circle that exists.
ReadAnswered(l) ==
  /\ loads[l].phase = "reading"
  /\ \E next \in {"identity", "chain"} :
       loads' = [loads EXCEPT ![l].data = Owner(loads[l]), ![l].phase = next]
  /\ UNCHANGED <<wallet, shown, token, signin, route, screen>>

\* An ended session is forgotten, whichever is held by now.
ReadFails(l) ==
  /\ loads[l].phase \in {"signing", "reading"}
  /\ Fail({l})
  /\ \/ UNCHANGED <<token, signin>>
     \/ loads[l].auth # Nobody /\ clear
  /\ UNCHANGED <<wallet, shown, route>>

\* The data is put on the screen the load is of, while that is mounted.  The
\* circle screen also asks that no other wallet came since.
ChainRead(l) ==
  /\ loads[l].phase = "chain"
  /\ loads' = [loads EXCEPT ![l] = Idle]
  /\ screen' = IF loads[l].mounted /\ (loads[l].screen = "circle" => loads[l].live)
               THEN [screen EXCEPT !.data = loads[l].data] ELSE screen
  /\ UNCHANGED <<wallet, shown, token, signin, route>>

-----------------------------------------------------------------------------
(* The identity, and the transactions of the circle screen *)

\* A circle is shown with the seat of this identity; the other screens show
\* what the service said.
WithIdentity(l, of) ==
  loads' = [loads EXCEPT ![l].phase = "chain",
                         ![l].data = IF loads[l].screen = "circle" THEN of ELSE @]

\* ensureIdentity, as far as it goes without waiting: what the ref holds is
\* returned to any connected account.
BeginIdentity(l) ==
  /\ loads[l].phase = "identity"
  /\ IF shown # Nobody /\ identity = Nobody /\ seam # Nobody
     THEN loads' = [loads EXCEPT ![l].phase = "deriving", ![l].signer = shown]
     ELSE WithIdentity(l, IF shown = Nobody THEN Nobody ELSE identity)
  /\ UNCHANGED <<wallet, shown, token, signin, route, screen>>

\* The wallet signed.  The tab must still show the account it signed for.
Derived(l) ==
  LET moved == shown # loads[l].signer
  IN  /\ loads[l].phase = "deriving"
      /\ identity' = IF moved THEN identity ELSE loads[l].signer
      /\ WithIdentity(l, IF moved THEN Nobody ELSE loads[l].signer)
      /\ UNCHANGED <<seam, connects, shown, token, signin, route, screen>>

\* Declined, or no wallet.
NotDerived(l) ==
  /\ loads[l].phase = "deriving"
  /\ WithIdentity(l, Nobody)
  /\ UNCHANGED <<wallet, shown, token, signin, route, screen>>

\* join, pay and collect: the circle is read again for the identity that the
\* screen had when the button was pressed.
transact(l) ==
  /\ Free(l) /\ route = "circle" /\ shown # Nobody /\ identity # Nobody
  /\ loads' = [loads EXCEPT ![l] =
       [phase |-> "wallet", screen |-> "circle", live |-> TRUE, mounted |-> TRUE,
        signer |-> shown, auth |-> Nobody, data |-> identity]]
  /\ UNCHANGED <<wallet, shown, token, signin, route, screen>>

TransactionEnds(l) ==
  /\ loads[l].phase = "wallet"
  /\ loads' = [loads EXCEPT ![l] = Idle]
  /\ \/ UNCHANGED screen
     \/ loads[l].mounted /\ screen' = [screen EXCEPT !.data = loads[l].data]
  /\ UNCHANGED <<wallet, shown, token, signin, route>>

-----------------------------------------------------------------------------
(* The specification *)

WebInit ==
  /\ seam = Nobody /\ shown = Nobody /\ connects = 0
  /\ identity = Nobody
  /\ token = Nobody
  /\ signin = NoSignIn
  /\ route = "home" /\ screen = Fresh
  /\ loads = [l \in Loads |-> Idle]

\* What the browser does by itself: effects, and answers that come.
Begin(l)  == BeginHome(l) \/ BeginList(l) \/ BeginRecover(l) \/ BeginCircle(l)
SignedInOrNot == Sign \/ SignInFails \/ SignedIn \/ NoSessions
Progress(l) ==
  \/ SignRead(l) \/ ReadAnswered(l) \/ ReadFails(l) \/ ChainRead(l)
  \/ BeginIdentity(l) \/ Derived(l) \/ NotDerived(l) \/ TransactionEnds(l)

WebNext ==
  \/ \E a \in Accounts : connect(a)
  \/ disconnect
  \/ Render
  \/ \E r \in Routes : navigate(r)
  \/ Ask
  \/ SignedInOrNot
  \/ \E l \in Loads : Begin(l) \/ Progress(l) \/ transact(l)

\* Prompts are answered one way or the other, requests end, and React runs the
\* effects.  Nobody has to press anything.
Fairness ==
  /\ WF_webvars(Render)
  /\ WF_webvars(SignInFails \/ SignedIn \/ NoSessions)
  /\ \A l \in Loads : WF_webvars(Progress(l)) /\ WF_webvars(BeginHome(l))

WebSpec == WebInit /\ [][WebNext]_webvars /\ Fairness

-----------------------------------------------------------------------------
(* Properties *)

Load ==
  {Idle} \cup
  [phase : {"waiting", "signing", "reading", "identity", "deriving", "chain", "wallet"},
   screen : Routes, live : BOOLEAN, mounted : BOOLEAN, signer : Accounts \cup {Nobody},
   auth : Accounts \cup {Nobody}, data : Accounts \cup {Nobody}]

TypeOK ==
  /\ {seam, shown, identity, token} \subseteq Accounts \cup {Nobody}
  /\ connects \in 0..MaxConnects
  /\ signin \in {NoSignIn} \cup [by : Accounts, stale : BOOLEAN, signed : BOOLEAN]
  /\ route \in Routes
  /\ screen \in [data : Accounts \cup {Nobody}, due : BOOLEAN, requested : BOOLEAN,
                 failed : BOOLEAN]
  /\ loads \in [Loads -> Load]

\* sessionHolder.ts:63, "changing account mid-prompt would hand the new account
\* the old one's session": no read made for a wallet is authorized by another
\* wallet's session, whatever prompts, answers and changes of wallet overlap,
\* and a tab that has caught up with its wallet holds no other session.
SessionIsOurs ==
  /\ \A l \in Loads : loads[l].phase = "reading" => Owner(loads[l]) = loads[l].signer
  /\ shown = seam => token \in {Nobody, shown}

\* homeActions.ts:48: a person who asks on the front door is shown something,
\* or told that it failed; no lost or discarded sign-in leaves "Checking your
\* circles" there for good.
AskedIsAnswered ==
  screen.requested ~> (screen.data # Nobody \/ screen.failed \/ ~screen.requested)

\* WalletProvider.tsx:227: "a stale one would mark somebody else's seat as
\* yours": the identity of a tab that has caught up is that of its wallet.
IdentityIsOurs == shown = seam => identity \in {Nobody, shown}

\* "Forgets what was loaded when the wallet changes, so nothing stale shows"
\* (HomeView.tsx:165).
NothingStaleShows == route = "home" /\ shown # Nobody => screen.data \in {Nobody, shown}
=============================================================================
