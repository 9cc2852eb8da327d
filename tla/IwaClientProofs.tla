--------------------------- MODULE IwaClientProofs ---------------------------
(***************************************************************************)
(* What runs at the clients.  A tab of the web client, for any wallets and *)
(* any number of loads under way: no read of one wallet is authorized by   *)
(* the session of another (SessionIsOurs).  The demo scripts, for any      *)
(* members and any proving window: as long as none dies, a proof shows all *)
(* that the account sent to the pool before (ProofsSeeTheRun).             *)
(***************************************************************************)
EXTENDS IwaWeb, IwaDemo, SumTheorems, SequenceTheorems

-----------------------------------------------------------------------------
(* A tab: the invariant *)

Persons == Accounts \cup {Nobody}

LoadRecord ==
  [phase : {"waiting", "signing", "reading", "identity", "deriving", "chain", "wallet"},
   screen : Routes, live : BOOLEAN, mounted : BOOLEAN, signer : Persons,
   auth : Persons, data : Persons]

SignInRecord == [by : Accounts, stale : BOOLEAN, signed : BOOLEAN]

\* The sign-in under way is of the wallet that reads, unless the wallet has
\* changed since it began.
SignInOK == signin # NoSignIn /\ ~signin.stale => signin.by = walletForRead

\* A session is held for the wallet that reads only.
TokenOK == token # Nobody => token = walletForRead

\* A load waits for a sign-in, which is of its wallet or will be of no use.
LoadOK(load) ==
  /\ load.phase = "waiting" =>
       /\ signin # NoSignIn
       /\ signin.stale \/ signin.by = load.signer
  /\ load.phase = "signing" => load.auth = Nobody
  /\ load.phase = "reading" => Owner(load) = load.signer

WebInv ==
  /\ TypeOK
  /\ SignInOK
  /\ TokenOK
  /\ \A l \in Loads : LoadOK(loads[l])

-----------------------------------------------------------------------------
(* Loads *)

LEMMA LoadTypes ==
  /\ Load = {Idle} \cup LoadRecord
  /\ Idle \notin LoadRecord /\ Idle.phase = "idle"
  /\ \A load \in LoadRecord : load.phase # "idle"
BY DEF Load, LoadRecord, Idle, Persons

LEMMA LoadOfPhase ==
  ASSUME TypeOK, NEW l \in Loads, loads[l].phase # "idle"
  PROVE  loads[l] \in LoadRecord
BY LoadTypes DEF TypeOK

LEMMA LoadOfNotIdle ==
  ASSUME TypeOK, NEW l \in Loads, loads[l] # Idle
  PROVE  loads[l] \in LoadRecord
BY LoadTypes DEF TypeOK

LEMMA WalletTypes ==
  ASSUME TypeOK
  PROVE  /\ seam \in Persons /\ shown \in Persons /\ identity \in Persons /\ token \in Persons
         /\ walletForRead \in Persons
         /\ signin = NoSignIn \/ signin \in SignInRecord
         /\ NoSignIn \notin SignInRecord
<1>1. NoSignIn \notin SignInRecord  BY DEF NoSignIn, SignInRecord
<1>2. seam \in Persons /\ shown \in Persons /\ identity \in Persons /\ token \in Persons
  BY DEF TypeOK, Persons
<1> QED BY <1>1, <1>2 DEF TypeOK, walletForRead, SignInRecord

LEMMA IdleOK == LoadOK(Idle) /\ LoadOK(Idle)'
BY LoadTypes DEF LoadOK

\* A load that is neither waiting, signing nor reading says nothing.
LEMMA LaterOK ==
  ASSUME NEW load, load.phase \notin {"waiting", "signing", "reading"}
  PROVE  LoadOK(load) /\ LoadOK(load)'
BY DEF LoadOK

\* As long as the sign-in goes on for whom it was, or gets stale.
LEMMA LoadStaysOK ==
  ASSUME NEW load, LoadOK(load),
         load.phase = "waiting" =>
           /\ signin' # NoSignIn
           /\ signin'.stale \/ (~signin.stale /\ signin'.by = signin.by)
  PROVE  LoadOK(load)'
BY DEF LoadOK, Owner

-----------------------------------------------------------------------------
(* Every step keeps the invariant *)

\* A step of one load that leaves wallet, sign-in and session alone.
LEMMA OneLoadKeeps ==
  ASSUME WebInv, NEW l \in Loads, NEW load \in Load,
         loads' = [loads EXCEPT ![l] = load],
         load.phase # "waiting", LoadOK(load),
         UNCHANGED <<seam, shown, connects, token, signin, route>>,
         identity' \in Persons,
         screen' \in [data : Persons, due : BOOLEAN, requested : BOOLEAN, failed : BOOLEAN]
  PROVE  WebInv'
<1>1. loads' \in [Loads -> Load]  BY DEF WebInv, TypeOK
<1>2. TypeOK'  BY <1>1 DEF WebInv, TypeOK, Persons
<1>3. SignInOK' /\ TokenOK'  BY DEF WebInv, SignInOK, TokenOK, walletForRead
<1>4. ASSUME NEW m \in Loads PROVE LoadOK(loads[m])'
  <2>1. PICK s : s = loads'[m]  OBVIOUS
  <2>2. LoadOK(s)
    <3>1. CASE m = l  BY <3>1, <2>1 DEF WebInv, TypeOK
    <3>2. CASE m # l  BY <3>2, <2>1 DEF WebInv, TypeOK
    <3> QED BY <3>1, <3>2
  <2>3. LoadOK(s)'  BY <2>2 DEF LoadOK, Owner
  <2> QED BY <2>1, <2>3 DEF LoadOK, Owner
<1> QED BY <1>2, <1>3, <1>4 DEF WebInv

LEMMA ScreenType ==
  ASSUME TypeOK
  PROVE  screen \in [data : Persons, due : BOOLEAN, requested : BOOLEAN, failed : BOOLEAN]
BY DEF TypeOK, Persons

\* The steps that touch neither loads, wallet nor session.
LEMMA AskKeeps == ASSUME WebInv, Ask PROVE WebInv'
<1>1. UNCHANGED <<seam, shown, connects, identity, token, signin, route, loads>>
      /\ screen' = [screen EXCEPT !.requested = TRUE, !.failed = FALSE]
  BY DEF Ask, wallet
<1>2. screen' \in [data : Persons, due : BOOLEAN, requested : BOOLEAN, failed : BOOLEAN]
  BY <1>1, ScreenType DEF WebInv
<1>3. TypeOK'  BY <1>1, <1>2 DEF WebInv, TypeOK, Persons
<1>4. SignInOK' /\ TokenOK'  BY <1>1 DEF WebInv, SignInOK, TokenOK, walletForRead
<1>5. \A l \in Loads : LoadOK(loads[l])'  BY <1>1 DEF WebInv, LoadOK, Owner
<1> QED BY <1>3, <1>4, <1>5 DEF WebInv

LEMMA SignKeeps == ASSUME WebInv, Sign PROVE WebInv'
<1>1. UNCHANGED <<seam, shown, connects, identity, token, route, screen, loads>>
      /\ signin # NoSignIn /\ signin' = [signin EXCEPT !.signed = TRUE]
  BY DEF Sign, wallet
<1>2. signin \in SignInRecord  BY <1>1, WalletTypes DEF WebInv
<1>3. /\ signin' \in SignInRecord
      /\ signin'.by = signin.by /\ signin'.stale = signin.stale
  BY <1>1, <1>2 DEF SignInRecord
<1>4. signin' # NoSignIn  BY <1>3, WalletTypes DEF WebInv
<1>5. TypeOK'  BY <1>1, <1>3 DEF WebInv, TypeOK, SignInRecord
<1>6. SignInOK' /\ TokenOK'
  BY <1>1, <1>3 DEF WebInv, SignInOK, TokenOK, walletForRead
<1>7. ASSUME NEW l \in Loads PROVE LoadOK(loads[l])'
  BY <1>1, <1>3, <1>4 DEF WebInv, LoadOK, Owner
<1> QED BY <1>5, <1>6, <1>7 DEF WebInv

\* Fail puts loads down and never anything else.
LEMMA FailEffect ==
  ASSUME TypeOK, NEW ls \in SUBSET Loads, Fail(ls)
  PROVE  /\ loads' \in [Loads -> Load]
         /\ screen' \in [data : Persons, due : BOOLEAN, requested : BOOLEAN, failed : BOOLEAN]
         /\ \A l \in Loads : loads'[l] = IF l \in ls THEN Idle ELSE loads[l]
<1>1. Idle \in Load  BY LoadTypes
<1>2. loads' = [l \in Loads |-> IF l \in ls THEN Idle ELSE loads[l]]  BY DEF Fail
<1>3. screen' = screen \/ screen' = [screen EXCEPT !.failed = TRUE]  BY DEF Fail
<1>4. screen' \in [data : Persons, due : BOOLEAN, requested : BOOLEAN, failed : BOOLEAN]
  BY <1>3, ScreenType
<1> QED BY <1>1, <1>2, <1>4 DEF TypeOK

LEMMA SignInFailsKeeps == ASSUME WebInv, SignInFails PROVE WebInv'
<1>1. UNCHANGED <<seam, shown, connects, identity, token, route>>
      /\ signin' = NoSignIn /\ Fail({l \in Loads : Waiting(l)})
  BY DEF SignInFails, wallet
<1>2. /\ loads' \in [Loads -> Load]
      /\ screen' \in [data : Persons, due : BOOLEAN, requested : BOOLEAN, failed : BOOLEAN]
      /\ \A l \in Loads : loads'[l] = IF Waiting(l) THEN Idle ELSE loads[l]
  <2>1. {l \in Loads : Waiting(l)} \in SUBSET Loads  OBVIOUS
  <2> QED BY <1>1, <2>1, FailEffect DEF WebInv
<1>3. TypeOK'  BY <1>1, <1>2 DEF WebInv, TypeOK, Persons
<1>4. SignInOK' /\ TokenOK'  BY <1>1 DEF WebInv, SignInOK, TokenOK, walletForRead
<1>5. ASSUME NEW l \in Loads PROVE LoadOK(loads[l])'
  <2>1. CASE Waiting(l)  BY <2>1, <1>2, LoadTypes DEF LoadOK
  <2>2. CASE ~Waiting(l)  BY <2>2, <1>2 DEF WebInv, LoadOK, Owner, Waiting
  <2> QED BY <2>1, <2>2
<1> QED BY <1>3, <1>4, <1>5 DEF WebInv

\* Settle answers those who wait: with the session of their own wallet, or so
\* that each signs for itself.
LEMMA SettleEffect ==
  ASSUME WebInv, NEW answer \in Persons, Settle(answer), signin # NoSignIn,
         answer = Nobody \/ (answer = signin.by /\ ~signin.stale)
  PROVE  /\ loads' \in [Loads -> Load]
         /\ \A l \in Loads : LoadOK(loads[l])'
<1>1. /\ loads' = [l \in Loads |->
            IF ~Waiting(l) THEN loads[l]
            ELSE [loads[l] EXCEPT !.auth = answer,
                                  !.phase = IF answer = Nobody THEN "signing" ELSE "reading"]]
      /\ signin' = NoSignIn
  BY DEF Settle
<1>2. ASSUME NEW l \in Loads, Waiting(l)
      PROVE  /\ loads'[l] \in LoadRecord
             /\ loads'[l].auth = answer /\ loads'[l].signer = loads[l].signer
             /\ loads'[l].phase = IF answer = Nobody THEN "signing" ELSE "reading"
  <2>1. loads[l] \in LoadRecord  BY <1>2, LoadOfPhase DEF Waiting, WebInv
  <2>2. loads'[l] = [loads[l] EXCEPT !.auth = answer,
                       !.phase = IF answer = Nobody THEN "signing" ELSE "reading"]
    BY <1>1, <1>2
  <2> QED BY <2>1, <2>2 DEF LoadRecord
<1>3. ASSUME NEW l \in Loads, ~Waiting(l) PROVE loads'[l] = loads[l]  BY <1>1, <1>3
<1>4. ASSUME NEW l \in Loads PROVE loads'[l] \in Load
  BY <1>2, <1>3, LoadTypes DEF WebInv, TypeOK
<1>5. ASSUME NEW l \in Loads PROVE LoadOK(loads[l])'
  <2>1. CASE Waiting(l)
    <3>1. answer # Nobody => loads[l].signer = answer
      BY <2>1 DEF WebInv, LoadOK, Waiting
    <3> QED BY <2>1, <3>1, <1>2 DEF LoadOK, Owner
  <2>2. CASE ~Waiting(l)
    BY <2>2, <1>3 DEF WebInv, LoadOK, Owner, Waiting
  <2> QED BY <2>1, <2>2
<1> QED BY <1>1, <1>4, <1>5

LEMMA SignInAnsweredKeeps == ASSUME WebInv, SignedIn \/ NoSessions PROVE WebInv'
<1>1. PICK answer \in Persons :
        /\ Settle(answer) /\ signin # NoSignIn
        /\ answer = Nobody \/ (answer = signin.by /\ ~signin.stale)
        /\ token' = token \/ (token' = answer /\ answer = signin.by /\ ~signin.stale)
  <2>1. Nobody \in Persons  BY DEF Persons
  <2>2. signin # NoSignIn => signin \in SignInRecord /\ signin.by \in Persons
    BY WalletTypes DEF WebInv, SignInRecord, Persons
  <2>3. CASE NoSessions  BY <2>1, <2>3 DEF NoSessions
  <2>4. CASE SignedIn
    <3>1. CASE signin.stale  BY <2>1, <2>4, <3>1 DEF SignedIn
    <3>2. CASE ~signin.stale  BY <2>2, <2>4, <3>2 DEF SignedIn
    <3> QED BY <3>1, <3>2
  <2> QED BY <2>3, <2>4
<1>2. UNCHANGED <<seam, shown, connects, identity, route, screen>> /\ signin' = NoSignIn
  BY <1>1 DEF Settle, wallet
<1>3. loads' \in [Loads -> Load] /\ \A l \in Loads : LoadOK(loads[l])'
  BY <1>1, SettleEffect
<1>4. token' \in Persons  BY <1>1, WalletTypes DEF WebInv
<1>5. TypeOK'  BY <1>2, <1>3, <1>4 DEF WebInv, TypeOK, Persons
<1>6. SignInOK'  BY <1>2 DEF SignInOK
<1>7. TokenOK'  BY <1>1, <1>2 DEF WebInv, TokenOK, SignInOK, walletForRead
<1> QED BY <1>3, <1>5, <1>6, <1>7 DEF WebInv

LEMMA WalletKeeps ==
  ASSUME WebInv, (\E a \in Accounts : connect(a)) \/ disconnect PROVE WebInv'
<1>1. UNCHANGED <<shown, token, signin, route, screen, loads>>
  BY DEF connect, disconnect
<1>2. seam' \in Persons /\ identity' \in Persons
  BY WalletTypes DEF connect, disconnect, Persons, WebInv
<1>3. connects' \in 0..MaxConnects
  BY WebAssumption DEF connect, disconnect, WebInv, TypeOK
<1>4. shown = Nobody => seam = Nobody  BY DEF connect, disconnect
<1>5. TypeOK'  BY <1>1, <1>2, <1>3 DEF WebInv, TypeOK, Persons
<1>6. walletForRead' = walletForRead \/ walletForRead = Nobody
  BY <1>1, <1>4 DEF walletForRead
<1>7. signin # NoSignIn => signin.by # Nobody
  BY WalletTypes, WebAssumption DEF WebInv, SignInRecord
<1>8. SignInOK' /\ TokenOK'  BY <1>1, <1>6, <1>7 DEF WebInv, SignInOK, TokenOK
<1>9. \A l \in Loads : LoadOK(loads[l])'  BY <1>1 DEF WebInv, LoadOK, Owner
<1> QED BY <1>5, <1>8, <1>9 DEF WebInv

\* clear ends the session, and makes the sign-in under way one of another era.
LEMMA ClearEffect ==
  ASSUME TypeOK, clear
  PROVE  /\ token' = Nobody
         /\ signin' = NoSignIn \/ signin' \in SignInRecord
         /\ signin' = NoSignIn <=> signin = NoSignIn
         /\ signin' # NoSignIn => signin'.stale
<1>1. CASE signin = NoSignIn  BY <1>1, WalletTypes DEF clear
<1>2. CASE signin # NoSignIn
  <2>1. signin \in SignInRecord /\ signin' = [signin EXCEPT !.stale = TRUE]
    BY <1>2, WalletTypes DEF clear
  <2>2. signin' \in SignInRecord /\ signin'.stale  BY <2>1 DEF SignInRecord
  <2> QED BY <1>2, <2>2, WalletTypes DEF clear
<1> QED BY <1>1, <1>2

\* A screen that is told its loads are not live, or not mounted, any more.
LEMMA LoadToldType ==
  ASSUME NEW load \in LoadRecord, NEW told, told.phase = load.phase,
         told.auth = load.auth, told.signer = load.signer, LoadOK(load)
  PROVE  LoadOK(told)
BY DEF LoadOK, Owner

LEMMA FreshType ==
  Fresh \in [data : Persons, due : BOOLEAN, requested : BOOLEAN, failed : BOOLEAN]
BY DEF Fresh, Persons

LEMMA RenderKeeps == ASSUME WebInv, Render PROVE WebInv'
<1>1. UNCHANGED <<seam, connects, identity, route>> /\ shown' = seam /\ screen' = Fresh
      /\ clear
  BY DEF Render, wallet
<1>2. /\ token' = Nobody
      /\ signin' = NoSignIn \/ signin' \in SignInRecord
      /\ signin' = NoSignIn <=> signin = NoSignIn
      /\ signin' # NoSignIn => signin'.stale
  BY <1>1, ClearEffect DEF WebInv
<1>3. loads' = [l \in Loads |->
                  IF loads[l] = Idle THEN Idle ELSE [loads[l] EXCEPT !.live = FALSE]]
  BY DEF Render
<1>4. ASSUME NEW l \in Loads
      PROVE  /\ loads'[l] \in Load
             /\ LoadOK(loads'[l])
  <2>1. CASE loads[l] = Idle  BY <2>1, <1>3, LoadTypes, IdleOK
  <2>2. CASE loads[l] # Idle
    <3>1. loads[l] \in LoadRecord  BY <2>2, LoadOfNotIdle DEF WebInv
    <3>2. PICK told : told = [loads[l] EXCEPT !.live = FALSE]  OBVIOUS
    <3>3. /\ told \in LoadRecord /\ told.phase = loads[l].phase
          /\ told.auth = loads[l].auth /\ told.signer = loads[l].signer
      BY <3>1, <3>2 DEF LoadRecord
    <3>4. LoadOK(told)  BY <3>1, <3>3, LoadToldType DEF WebInv
    <3> QED BY <2>2, <3>2, <3>3, <3>4, <1>3, LoadTypes
  <2> QED BY <2>1, <2>2
<1>5. ASSUME NEW l \in Loads PROVE LoadOK(loads[l])'
  <2>1. PICK s : s = loads'[l]  OBVIOUS
  <2>2. LoadOK(s)  BY <2>1, <1>4
  <2>3. LoadOK(s)'  BY <2>2, <1>2 DEF LoadOK, Owner
  <2> QED BY <2>1, <2>3 DEF LoadOK, Owner
<1>6. TypeOK'
  <2>1. loads' \in [Loads -> Load]  BY <1>3, <1>4
  <2>2. {seam, shown, identity, token}' \subseteq Persons
    BY <1>1, <1>2, WalletTypes DEF WebInv, Persons
  <2> QED BY <2>1, <2>2, <1>1, <1>2, FreshType DEF WebInv, TypeOK, Persons, SignInRecord
<1>7. SignInOK' /\ TokenOK'  BY <1>2 DEF SignInOK, TokenOK
<1> QED BY <1>5, <1>6, <1>7 DEF WebInv

LEMMA NavigateKeeps == ASSUME WebInv, NEW r \in Routes, navigate(r) PROVE WebInv'
<1>1. UNCHANGED <<seam, connects, identity, shown, token, signin>> /\ route' = r
      /\ screen' = Fresh
  BY DEF navigate, wallet
<1>3. loads' = [l \in Loads |->
                  IF loads[l] = Idle THEN Idle
                  ELSE [loads[l] EXCEPT !.live = FALSE, !.mounted = FALSE]]
  BY DEF navigate
<1>4. ASSUME NEW l \in Loads
      PROVE  /\ loads'[l] \in Load
             /\ LoadOK(loads'[l])
  <2>1. CASE loads[l] = Idle  BY <2>1, <1>3, LoadTypes, IdleOK
  <2>2. CASE loads[l] # Idle
    <3>1. loads[l] \in LoadRecord  BY <2>2, LoadOfNotIdle DEF WebInv
    <3>2. PICK told : told = [loads[l] EXCEPT !.live = FALSE, !.mounted = FALSE]  OBVIOUS
    <3>3. /\ told \in LoadRecord /\ told.phase = loads[l].phase
          /\ told.auth = loads[l].auth /\ told.signer = loads[l].signer
      BY <3>1, <3>2 DEF LoadRecord
    <3>4. LoadOK(told)  BY <3>1, <3>3, LoadToldType DEF WebInv
    <3> QED BY <2>2, <3>2, <3>3, <3>4, <1>3, LoadTypes
  <2> QED BY <2>1, <2>2
<1>5. ASSUME NEW l \in Loads PROVE LoadOK(loads[l])'
  <2>1. PICK s : s = loads'[l]  OBVIOUS
  <2>2. LoadOK(s)  BY <2>1, <1>4
  <2>3. LoadOK(s)'  BY <2>2, <1>1 DEF LoadOK, Owner
  <2> QED BY <2>1, <2>3 DEF LoadOK, Owner
<1>6. TypeOK'
  <2>1. loads' \in [Loads -> Load]  BY <1>3, <1>4
  <2> QED BY <2>1, <1>1, FreshType DEF WebInv, TypeOK, Persons
<1>7. SignInOK' /\ TokenOK'  BY <1>1 DEF WebInv, SignInOK, TokenOK, walletForRead
<1> QED BY <1>5, <1>6, <1>7 DEF WebInv

\* A load that needs the session takes the one of its wallet, or waits for a
\* sign-in that is its wallet's, unless that is of an earlier era.
LEMMA EnsureKeeps ==
  ASSUME WebInv, NEW l \in Loads, NEW for \in Routes, ensure(l, for),
         UNCHANGED <<seam, connects, identity, shown, token, route>>,
         screen' \in [data : Persons, due : BOOLEAN, requested : BOOLEAN, failed : BOOLEAN]
  PROVE  WebInv'
<1> DEFINE load == [phase |-> IF token # Nobody THEN "reading" ELSE "waiting", screen |-> for,
                    live |-> TRUE, mounted |-> TRUE, signer |-> walletForRead, auth |-> token,
                    data |-> Nobody]
           begun == [by |-> walletForRead, stale |-> FALSE, signed |-> FALSE]
<1>1. /\ walletForRead # Nobody
      /\ loads' = [loads EXCEPT ![l] = load]
      /\ signin' = IF token # Nobody \/ signin # NoSignIn THEN signin ELSE begun
  BY DEF ensure
<1>2. /\ load \in LoadRecord /\ load \in Load
      /\ load.phase = IF token # Nobody THEN "reading" ELSE "waiting"
      /\ load.signer = walletForRead /\ load.auth = token
  <2>1. walletForRead \in Persons /\ token \in Persons /\ Nobody \in Persons
    BY WalletTypes DEF WebInv, Persons
  <2>2. load \in LoadRecord  BY <2>1 DEF LoadRecord
  <2> QED BY <2>2, LoadTypes
<1>3. begun \in SignInRecord /\ begun.by = walletForRead /\ ~begun.stale /\ begun # NoSignIn
  <2>1. walletForRead \in Accounts  BY <1>1, WalletTypes DEF WebInv, Persons
  <2>2. begun \in SignInRecord  BY <2>1 DEF SignInRecord
  <2> QED BY <2>2, WalletTypes DEF WebInv
<1> HIDE DEF load, begun
<1>4. /\ signin' = NoSignIn \/ signin' \in SignInRecord
      /\ load.phase = "waiting" => signin' # NoSignIn
      /\ signin # NoSignIn => signin' = signin
  BY <1>1, <1>2, <1>3, WalletTypes DEF WebInv
<1>5. loads' \in [Loads -> Load]  BY <1>1, <1>2 DEF WebInv, TypeOK
<1>6. TypeOK'  BY <1>4, <1>5 DEF WebInv, TypeOK, Persons, SignInRecord
<1>7. walletForRead' = walletForRead  BY DEF walletForRead
<1>8. SignInOK'  BY <1>1, <1>3, <1>7 DEF WebInv, SignInOK
<1>9. TokenOK'  BY <1>7 DEF WebInv, TokenOK
<1>10. ASSUME NEW m \in Loads PROVE LoadOK(loads[m])'
  <2>1. PICK s : s = loads'[m]  OBVIOUS
  <2>2. CASE m # l
    <3>1. s = loads[m] /\ LoadOK(s)  BY <1>1, <2>1, <2>2 DEF WebInv, TypeOK
    <3>2. LoadOK(s)'  BY <3>1, <1>4 DEF LoadOK, Owner
    <3> QED BY <2>1, <3>2 DEF LoadOK, Owner
  <2>3. CASE m = l
    <3>1. s = load  BY <1>1, <2>1, <2>3 DEF WebInv, TypeOK
    <3>2. token # Nobody => Owner(s) = s.signer
      BY <3>1, <1>2 DEF Owner, WebInv, TokenOK
    <3>3. s.phase = "waiting" => signin'.stale \/ signin'.by = s.signer
      BY <3>1, <1>2, <1>4, <1>7, <1>8 DEF SignInOK
    <3>4. LoadOK(s)'  BY <3>1, <3>2, <3>3, <1>2, <1>4 DEF LoadOK, Owner
    <3> QED BY <2>1, <3>4 DEF LoadOK, Owner
  <2> QED BY <2>2, <2>3
<1> QED BY <1>6, <1>8, <1>9, <1>10 DEF WebInv

LEMMA BeginKeeps == ASSUME WebInv, NEW l \in Loads, Begin(l) PROVE WebInv'
<1>1. screen \in [data : Persons, due : BOOLEAN, requested : BOOLEAN, failed : BOOLEAN]
  BY ScreenType DEF WebInv
<1>2. Nobody \in Persons /\ shown \in Persons  BY WalletTypes DEF WebInv, Persons
<1>3. CASE BeginHome(l)
  <2>1. ensure(l, "home") /\ "home" \in Routes  BY <1>3 DEF BeginHome, Routes
  <2>2. UNCHANGED <<seam, connects, identity, shown, token, route, screen>>
    BY <1>3 DEF BeginHome, wallet
  <2> QED BY <2>1, <2>2, <1>1, EnsureKeeps
<1>4. CASE BeginList(l)
  <2>1. ensure(l, "list") /\ "list" \in Routes  BY <1>4 DEF BeginList, Routes
  <2>2. UNCHANGED <<seam, connects, identity, shown, token, route>>
        /\ screen' = [screen EXCEPT !.due = FALSE, !.data = Nobody]
    BY <1>4 DEF BeginList, wallet
  <2>3. screen' \in [data : Persons, due : BOOLEAN, requested : BOOLEAN, failed : BOOLEAN]
    BY <2>2, <1>1, <1>2
  <2> QED BY <2>1, <2>2, <2>3, EnsureKeeps
<1>5. CASE BeginRecover(l)
  <2>1. ensure(l, "create") /\ "create" \in Routes  BY <1>5 DEF BeginRecover, Routes
  <2>2. UNCHANGED <<seam, connects, identity, shown, token, route>>
        /\ screen' = [screen EXCEPT !.due = FALSE]
    BY <1>5 DEF BeginRecover, wallet
  <2>3. screen' \in [data : Persons, due : BOOLEAN, requested : BOOLEAN, failed : BOOLEAN]
    BY <2>2, <1>1
  <2> QED BY <2>1, <2>2, <2>3, EnsureKeeps
<1>6. CASE BeginCircle(l)
  <2> DEFINE load == [phase |-> "identity", screen |-> "circle", live |-> TRUE,
                      mounted |-> TRUE, signer |-> shown, auth |-> Nobody, data |-> Nobody]
  <2>1. loads' = [loads EXCEPT ![l] = load]
        /\ screen' = [screen EXCEPT !.due = FALSE, !.data = Nobody]
        /\ UNCHANGED <<seam, connects, identity, shown, token, signin, route>>
    BY <1>6 DEF BeginCircle, wallet
  <2>2. load \in LoadRecord /\ load.phase = "identity"
    BY <1>2 DEF LoadRecord, Routes
  <2> HIDE DEF load
  <2>3. load \in Load /\ LoadOK(load)  BY <2>2, LoadTypes, LaterOK
  <2>4. screen' \in [data : Persons, due : BOOLEAN, requested : BOOLEAN, failed : BOOLEAN]
    BY <2>1, <1>1, <1>2
  <2>5. identity' \in Persons  BY <2>1, WalletTypes DEF WebInv
  <2> QED BY <2>1, <2>2, <2>3, <2>4, <2>5, OneLoadKeeps
<1> QED BY <1>3, <1>4, <1>5, <1>6 DEF Begin

LEMMA TransactKeeps == ASSUME WebInv, NEW l \in Loads, transact(l) PROVE WebInv'
<1> DEFINE load == [phase |-> "wallet", screen |-> "circle", live |-> TRUE, mounted |-> TRUE,
                    signer |-> shown, auth |-> Nobody, data |-> identity]
<1>1. loads' = [loads EXCEPT ![l] = load]
      /\ UNCHANGED <<seam, connects, identity, shown, token, signin, route, screen>>
  BY DEF transact, wallet
<1>2. load \in LoadRecord /\ load.phase = "wallet"
  <2>1. Nobody \in Persons /\ shown \in Persons /\ identity \in Persons
    BY WalletTypes DEF WebInv, Persons
  <2> QED BY <2>1 DEF LoadRecord, Routes
<1> HIDE DEF load
<1>3. load \in Load /\ LoadOK(load)  BY <1>2, LoadTypes, LaterOK
<1>4. screen' \in [data : Persons, due : BOOLEAN, requested : BOOLEAN, failed : BOOLEAN]
      /\ identity' \in Persons
  BY <1>1, ScreenType, WalletTypes DEF WebInv
<1> QED BY <1>1, <1>2, <1>3, <1>4, OneLoadKeeps

\* A read that the wallet signs by itself is of that wallet.
LEMMA SignReadKeeps == ASSUME WebInv, NEW l \in Loads, SignRead(l) PROVE WebInv'
<1>1. PICK load : load = [loads[l] EXCEPT !.phase = "reading"]  OBVIOUS
<1>2. loads' = [loads EXCEPT ![l] = load] /\ loads[l].phase = "signing"
      /\ UNCHANGED <<seam, connects, identity, shown, token, signin, route, screen>>
  BY <1>1 DEF SignRead, wallet
<1>3. loads[l] \in LoadRecord /\ loads[l].auth = Nobody
  BY <1>2, LoadOfPhase DEF WebInv, LoadOK
<1>4. load \in LoadRecord /\ load.phase = "reading" /\ load.auth = Nobody
  BY <1>1, <1>3 DEF LoadRecord
<1>5. load \in Load /\ LoadOK(load)  BY <1>4, LoadTypes DEF LoadOK, Owner
<1>6. screen' \in [data : Persons, due : BOOLEAN, requested : BOOLEAN, failed : BOOLEAN]
      /\ identity' \in Persons
  BY <1>2, ScreenType, WalletTypes DEF WebInv
<1> QED BY <1>2, <1>4, <1>5, <1>6, OneLoadKeeps

LEMMA ReadAnsweredKeeps == ASSUME WebInv, NEW l \in Loads, ReadAnswered(l) PROVE WebInv'
<1>1. PICK next \in {"identity", "chain"} :
        loads' = [loads EXCEPT ![l].data = Owner(loads[l]), ![l].phase = next]
  BY DEF ReadAnswered
<1>2. PICK load : load = [loads[l] EXCEPT !.data = Owner(loads[l]), !.phase = next]  OBVIOUS
<1>3. loads[l] \in LoadRecord /\ l \in DOMAIN loads
  BY LoadOfPhase DEF WebInv, TypeOK, ReadAnswered
<1>4. loads' = [loads EXCEPT ![l] = load]  BY <1>1, <1>2, <1>3 DEF WebInv, TypeOK
<1>5. Owner(loads[l]) \in Persons  BY <1>3 DEF Owner, LoadRecord
<1>6. load \in LoadRecord /\ load.phase \in {"identity", "chain"}
  BY <1>2, <1>3, <1>5 DEF LoadRecord
<1>7. load \in Load /\ LoadOK(load) /\ load.phase # "waiting"  BY <1>6, LoadTypes, LaterOK
<1>8. UNCHANGED <<seam, connects, identity, shown, token, signin, route, screen>>
  BY DEF ReadAnswered, wallet
<1>9. screen' \in [data : Persons, due : BOOLEAN, requested : BOOLEAN, failed : BOOLEAN]
      /\ identity' \in Persons
  BY <1>8, ScreenType, WalletTypes DEF WebInv
<1> QED BY <1>4, <1>7, <1>8, <1>9, OneLoadKeeps

LEMMA ReadFailsKeeps == ASSUME WebInv, NEW l \in Loads, ReadFails(l) PROVE WebInv'
<1>1. UNCHANGED <<seam, connects, identity, shown, route>> /\ Fail({l})
      /\ (UNCHANGED <<token, signin>> \/ clear)
  BY DEF ReadFails, wallet
<1>2. /\ loads' \in [Loads -> Load]
      /\ screen' \in [data : Persons, due : BOOLEAN, requested : BOOLEAN, failed : BOOLEAN]
      /\ \A m \in Loads : loads'[m] = IF m = l THEN Idle ELSE loads[m]
  <2>1. {l} \in SUBSET Loads  OBVIOUS
  <2> QED BY <1>1, <2>1, FailEffect DEF WebInv
<1>3. /\ token' = token \/ token' = Nobody
      /\ signin' = NoSignIn \/ signin' \in SignInRecord
      /\ signin' = NoSignIn <=> signin = NoSignIn
      /\ signin' # NoSignIn => signin' = signin \/ signin'.stale
  <2>1. CASE clear  BY <2>1, ClearEffect DEF WebInv
  <2>2. CASE UNCHANGED <<token, signin>>  BY <2>2, WalletTypes DEF WebInv
  <2> QED BY <1>1, <2>1, <2>2
<1>4. TypeOK'
  <2>1. token' \in Persons  BY <1>3, WalletTypes DEF WebInv, Persons
  <2> QED BY <2>1, <1>1, <1>2, <1>3 DEF WebInv, TypeOK, Persons, SignInRecord
<1>5. SignInOK' /\ TokenOK'  BY <1>1, <1>3 DEF WebInv, SignInOK, TokenOK, walletForRead
<1>6. ASSUME NEW m \in Loads PROVE LoadOK(loads[m])'
  <2>1. PICK s : s = loads'[m]  OBVIOUS
  <2>2. LoadOK(s)
    <3>1. CASE m = l  BY <3>1, <2>1, <1>2, IdleOK
    <3>2. CASE m # l  BY <3>2, <2>1, <1>2 DEF WebInv
    <3> QED BY <3>1, <3>2
  <2>3. LoadOK(s)'  BY <2>2, <1>3 DEF LoadOK, Owner
  <2> QED BY <2>1, <2>3 DEF LoadOK, Owner
<1> QED BY <1>4, <1>5, <1>6 DEF WebInv

LEMMA EndKeeps ==
  ASSUME WebInv, NEW l \in Loads, ChainRead(l) \/ TransactionEnds(l) PROVE WebInv'
<1>1. loads[l] \in LoadRecord  BY LoadOfPhase DEF WebInv, ChainRead, TransactionEnds
<1>2. /\ loads' = [loads EXCEPT ![l] = Idle]
      /\ screen' = screen \/ screen' = [screen EXCEPT !.data = loads[l].data]
      /\ UNCHANGED <<seam, connects, identity, shown, token, signin, route>>
  BY DEF ChainRead, TransactionEnds, wallet
<1>3. loads[l].data \in Persons  BY <1>1 DEF LoadRecord
<1>4. screen' \in [data : Persons, due : BOOLEAN, requested : BOOLEAN, failed : BOOLEAN]
      /\ identity' \in Persons
  BY <1>2, <1>3, ScreenType, WalletTypes DEF WebInv
<1>5. Idle \in Load /\ LoadOK(Idle) /\ Idle.phase # "waiting"  BY LoadTypes, IdleOK
<1> QED BY <1>2, <1>4, <1>5, OneLoadKeeps

\* What a load does with an identity, or without one.
LEMMA WithIdentityKeeps ==
  ASSUME WebInv, NEW l \in Loads, loads[l].phase # "idle", NEW of \in Persons,
         WithIdentity(l, of), identity' \in Persons,
         UNCHANGED <<seam, connects, shown, token, signin, route, screen>>
  PROVE  WebInv'
<1>1. PICK load : load = [loads[l] EXCEPT !.phase = "chain",
                            !.data = IF loads[l].screen = "circle" THEN of ELSE @]
  OBVIOUS
<1>2. loads[l] \in LoadRecord  BY LoadOfPhase DEF WebInv
<1>3. loads' = [loads EXCEPT ![l] = load]  BY <1>1 DEF WebInv, TypeOK, WithIdentity
<1>4. load \in LoadRecord /\ load.phase = "chain"  BY <1>1, <1>2 DEF LoadRecord
<1>5. load \in Load /\ LoadOK(load) /\ load.phase # "waiting"  BY <1>4, LoadTypes, LaterOK
<1>6. screen' \in [data : Persons, due : BOOLEAN, requested : BOOLEAN, failed : BOOLEAN]
  BY ScreenType DEF WebInv
<1> QED BY <1>3, <1>5, <1>6, OneLoadKeeps

LEMMA IdentityKeeps ==
  ASSUME WebInv, NEW l \in Loads, BeginIdentity(l) \/ Derived(l) \/ NotDerived(l)
  PROVE  WebInv'
<1>1. loads[l] \in LoadRecord /\ loads[l].phase # "idle"
  BY LoadOfPhase DEF WebInv, BeginIdentity, Derived, NotDerived
<1>2. Nobody \in Persons /\ shown \in Persons /\ identity \in Persons
      /\ loads[l].signer \in Persons
  BY <1>1, WalletTypes DEF WebInv, Persons, LoadRecord
<1>3. CASE BeginIdentity(l)
  <2>1. UNCHANGED <<seam, connects, identity, shown, token, signin, route, screen>>
    BY <1>3 DEF BeginIdentity, wallet
  <2>2. CASE shown # Nobody /\ identity = Nobody /\ seam # Nobody
    <3>1. PICK load : load = [loads[l] EXCEPT !.phase = "deriving", !.signer = shown]  OBVIOUS
    <3>2. loads' = [loads EXCEPT ![l] = load]
      BY <1>3, <2>2, <3>1 DEF BeginIdentity, WebInv, TypeOK
    <3>3. load \in LoadRecord /\ load.phase = "deriving"
      BY <1>1, <1>2, <3>1 DEF LoadRecord
    <3>4. load \in Load /\ LoadOK(load) /\ load.phase # "waiting"
      BY <3>3, LoadTypes, LaterOK
    <3>5. screen' \in [data : Persons, due : BOOLEAN, requested : BOOLEAN, failed : BOOLEAN]
          /\ identity' \in Persons
      BY <2>1, <1>2, ScreenType DEF WebInv
    <3> QED BY <2>1, <3>2, <3>4, <3>5, OneLoadKeeps
  <2>3. CASE ~(shown # Nobody /\ identity = Nobody /\ seam # Nobody)
    <3>1. PICK of \in Persons : of = IF shown = Nobody THEN Nobody ELSE identity  BY <1>2
    <3>2. WithIdentity(l, of)  BY <1>3, <2>3, <3>1 DEF BeginIdentity
    <3> QED BY <1>1, <1>2, <2>1, <3>2, WithIdentityKeeps
  <2> QED BY <2>2, <2>3
<1>4. CASE Derived(l)
  <2>1. PICK of \in Persons : WithIdentity(l, of)
    BY <1>2, <1>4 DEF Derived
  <2>2. identity' \in Persons
        /\ UNCHANGED <<seam, connects, shown, token, signin, route, screen>>
    BY <1>2, <1>4 DEF Derived
  <2> QED BY <1>1, <2>1, <2>2, WithIdentityKeeps
<1>5. CASE NotDerived(l)
  <2>1. WithIdentity(l, Nobody)
        /\ UNCHANGED <<seam, connects, identity, shown, token, signin, route, screen>>
    BY <1>5 DEF NotDerived, wallet
  <2> QED BY <1>1, <1>2, <2>1, WithIdentityKeeps
<1> QED BY <1>3, <1>4, <1>5

LEMMA InitKeeps == ASSUME WebInit PROVE WebInv
<1>1. TypeOK
  <2>1. loads \in [Loads -> Load]  BY LoadTypes DEF WebInit
  <2> QED BY <2>1, FreshType, WebAssumption DEF WebInit, TypeOK, Persons, Routes
<1>2. SignInOK /\ TokenOK  BY DEF WebInit, SignInOK, TokenOK
<1>3. \A l \in Loads : LoadOK(loads[l])  BY IdleOK DEF WebInit
<1> QED BY <1>1, <1>2, <1>3 DEF WebInv

LEMMA StutterKeeps == ASSUME WebInv, UNCHANGED webvars PROVE WebInv'
<1>1. UNCHANGED <<seam, shown, connects, identity, token, signin, route, screen, loads>>
  BY DEF webvars
<1>2. TypeOK'  BY <1>1 DEF WebInv, TypeOK
<1>3. SignInOK' /\ TokenOK'  BY <1>1 DEF WebInv, SignInOK, TokenOK, walletForRead
<1>4. \A l \in Loads : LoadOK(loads[l])'  BY <1>1 DEF WebInv, LoadOK, Owner
<1> QED BY <1>2, <1>3, <1>4 DEF WebInv

\* What a tab knows of its session, its sign-in and its loads stays true.
THEOREM WebInvariant == WebSpec => []WebInv
<1>1. WebInit => WebInv  BY InitKeeps
<1>2. WebInv /\ [WebNext]_webvars => WebInv'
  BY WalletKeeps, RenderKeeps, NavigateKeeps, AskKeeps, SignKeeps, SignInFailsKeeps,
     SignInAnsweredKeeps, BeginKeeps, TransactKeeps, SignReadKeeps, ReadAnsweredKeeps,
     ReadFailsKeeps, EndKeeps, IdentityKeeps, StutterKeeps
     DEF WebNext, SignedInOrNot, Progress
<1> QED BY <1>1, <1>2, PTL DEF WebSpec

-----------------------------------------------------------------------------
(* The theorem *)

\* No read made for a wallet is authorized by the session of another, and a tab
\* that has caught up with its wallet holds no other session: ensure and clear of
\* sessionHolder.ts, with walletForRead.
THEOREM SessionIsOursHolds == WebSpec => []SessionIsOurs
<1>1. WebInv => SessionIsOurs
  BY DEF WebInv, SessionIsOurs, LoadOK, TokenOK, walletForRead
<1> QED BY <1>1, WebInvariant, PTL

-----------------------------------------------------------------------------
(* The demo scripts *)

TxFields == {"label", "kind", "circle", "round", "member", "state", "age", "base"}
ScriptFields == {"name", "at", "stage", "member", "circle", "round", "custody", "snapshot",
                 "since", "base"}

\* The transactions that are done with: all but the one whose receipt is awaited.
DoneWith == IF script.at = "receipt" THEN 1..(Len(txs) - 1) ELSE 1..Len(txs)
\* The pool transactions among them.
PoolDone == {h \in DoneWith : txs[h].kind = "pool"}

DemoTypes ==
  /\ \E S : txs \in Seq(S)
  /\ \A h \in 1..Len(txs) : DOMAIN txs[h] = TxFields /\ txs[h].age \in Nat
  /\ DOMAIN state = {"circleId", "transactions"}
  /\ script = NoScript \/ DOMAIN script = ScriptFields
  /\ script.at = "receipt" => Len(txs) >= 1

\* A script leaves no transaction behind without a receipt, and none of the
\* pool without a record.
NothingLeft ==
  /\ \A h \in DoneWith : txs[h].state = "done"
  /\ state.transactions \subseteq DoneWith
  /\ PoolDone \subseteq state.transactions

\* The run state that prepare will write back has them too.
SnapshotOK ==
  script.stage = "create_circle" =>
    /\ script.at \in {"submit", "receipt"}
    /\ script.snapshot \subseteq DoneWith
    /\ PoolDone \subseteq script.snapshot
    /\ script.at = "receipt" => txs[Len(txs)].kind = "transparent"

\* A proof shows every pool transaction sent before it.
BasesOK ==
  /\ script.at = "broadcast" => PoolDone \subseteq script.base
  /\ \A h \in 1..Len(txs) : txs[h].kind = "pool" =>
       \A k \in 1..(h - 1) :
         txs[k].kind = "pool" /\ txs[k].state = "done" => k \in txs[h].base

GoodRun == DemoTypes /\ NothingLeft /\ SnapshotOK /\ BasesOK

\* Nothing is said of a run in which a script has died.
DemoInv == died = {} => GoodRun

LEMMA DemoPlaces ==
  ASSUME DemoTypes
  PROVE  Len(txs) \in Nat /\ DOMAIN txs = 1..Len(txs)
<1>1. PICK S : txs \in Seq(S)  BY DEF DemoTypes
<1> QED BY <1>1, LenProperties, Zenon

\* A script that lives has all its fields.
LEMMA ScriptHasFields ==
  ASSUME DemoTypes, script.at # "none" PROVE DOMAIN script = ScriptFields
BY DEF DemoTypes, NoScript

\* A script that goes on to send or to wait, or that has ended.
ScriptRests ==
  \/ script' = NoScript
  \/ /\ DOMAIN script' = ScriptFields
     /\ script'.at \in {"submit", "wait"}
     /\ script'.stage # "create_circle"

LEMMA RestsKeeps ==
  ASSUME GoodRun, ScriptRests, script.at # "receipt", UNCHANGED <<txs, state>>
  PROVE  GoodRun'
<1>1. /\ script' = NoScript \/ DOMAIN script' = ScriptFields
      /\ script'.at \notin {"receipt", "broadcast"} /\ script'.stage # "create_circle"
  BY DEF ScriptRests, NoScript
<1>2. DoneWith' = DoneWith /\ PoolDone' = PoolDone  BY <1>1 DEF DoneWith, PoolDone
<1>3. DemoTypes'  BY <1>1 DEF GoodRun, DemoTypes
<1>4. NothingLeft'  BY <1>2 DEF GoodRun, NothingLeft
<1>5. SnapshotOK' /\ BasesOK'  BY <1>1 DEF GoodRun, SnapshotOK, BasesOK
<1> QED BY <1>3, <1>4, <1>5 DEF GoodRun

LEMMA StartsKeeps ==
  ASSUME GoodRun, NEW name, NEW m, NEW label, NEW at, Starts(name, m, label, at),
         at \in {"submit", "wait"}, label = "create_circle" => at = "submit"
  PROVE  GoodRun'
<1>1. /\ script = NoScript /\ UNCHANGED <<txs, state>>
      /\ DOMAIN script' = ScriptFields /\ script'.at = at /\ script'.stage = label
      /\ script'.snapshot = state.transactions
  BY DEF Starts, ScriptFields
<1>2. script.at = "none"  BY <1>1 DEF NoScript
<1>3. DoneWith' = DoneWith /\ PoolDone' = PoolDone  BY <1>1, <1>2 DEF DoneWith, PoolDone
<1>4. DemoTypes'  BY <1>1 DEF GoodRun, DemoTypes
<1>5. NothingLeft'  BY <1>1, <1>3 DEF GoodRun, NothingLeft
<1>6. SnapshotOK'  BY <1>1, <1>3 DEF GoodRun, SnapshotOK, NothingLeft
<1>7. BasesOK'  BY <1>1 DEF GoodRun, BasesOK
<1> QED BY <1>4, <1>5, <1>6, <1>7 DEF GoodRun

LEMMA PrepareKeeps == ASSUME GoodRun, Prepare PROVE GoodRun'
BY StartsKeeps DEF Prepare

LEMMA DepositKeeps == ASSUME GoodRun, Deposit PROVE GoodRun'
<1>1. \/ Starts("deposit", Order[1], "approve", "submit")
      \/ Starts("deposit", Order[1], "deposit", "wait")
  BY DEF Deposit
<1> QED BY <1>1, StartsKeeps

LEMMA ContributeKeeps == ASSUME GoodRun, NEW m, Contribute(m) PROVE GoodRun'
<1>1. Starts("contribute", m, "contribution", "wait")  BY DEF Contribute
<1> QED BY <1>1, StartsKeeps

LEMMA ClaimStages ==
  ASSUME NEW status, NEW custody
  PROVE  ClaimStage(status, custody) \in {"finalize", "abort", "payout", "authorize"}
BY DEF ClaimStage

LEMMA PayoutKeeps == ASSUME GoodRun, Payout PROVE GoodRun'
<1>1. PICK label : /\ label = ClaimStage(getPayoutState(state.circleId,
                                circles[state.circleId].round), getHelperTokenLiability)
                   /\ Starts("payout", Order[1], label,
                             IF label = "payout" THEN "wait" ELSE "submit")
  BY DEF Payout
<1>2. label # "create_circle"  BY <1>1, ClaimStages
<1> QED BY <1>1, <1>2, StartsKeeps

\* Sending appends one transaction, which awaits its receipt.
LEMMA SendingAppends ==
  ASSUME DemoTypes, NEW kind, txs' = Append(txs, Tx(kind)), UNCHANGED state,
         script.at # "receipt",
         script' = [script EXCEPT !.at = "receipt"], DOMAIN script = ScriptFields
  PROVE  /\ DemoTypes'
         /\ Len(txs') = Len(txs) + 1
         /\ \A h \in 1..Len(txs) : txs'[h] = txs[h]
         /\ txs'[Len(txs')].kind = kind /\ txs'[Len(txs')].base = script.base
         /\ DoneWith' = DoneWith /\ PoolDone' = PoolDone
<1>1. PICK S : txs \in Seq(S)  BY DEF DemoTypes
<1>2. PICK t : t = Tx(kind)  OBVIOUS
<1>3. DOMAIN t = TxFields /\ t.age = 0 /\ t.kind = kind /\ t.base = script.base
  BY <1>2 DEF Tx, TxFields
<1>4. txs \in Seq(S \cup {t}) /\ t \in S \cup {t} /\ Len(txs) \in Nat
  BY <1>1, SeqMonotonic, DemoPlaces
<1>5. /\ txs' \in Seq(S \cup {t})
      /\ Len(txs') = Len(txs) + 1
      /\ \A h \in 1..Len(txs) : txs'[h] = txs[h]
      /\ txs'[Len(txs) + 1] = t
  BY <1>2, <1>4
<1>6. script'.at = "receipt" /\ DOMAIN script' = ScriptFields  BY DEF ScriptFields
<1>7. DoneWith' = DoneWith  BY <1>4, <1>5, <1>6 DEF DoneWith
<1>8. PoolDone' = PoolDone
  <2>1. \A h \in DoneWith : txs'[h] = txs[h]  BY <1>5, <1>4 DEF DoneWith
  <2> QED BY <2>1, <1>7 DEF PoolDone
<1>9. \A h \in 1..Len(txs') : DOMAIN txs'[h] = TxFields /\ txs'[h].age \in Nat
  BY <1>3, <1>4, <1>5 DEF DemoTypes
<1>10. DemoTypes'  BY <1>4, <1>5, <1>6, <1>9 DEF DemoTypes
<1> QED BY <1>3, <1>5, <1>7, <1>8, <1>10

LEMMA SubmitTransparentKeeps == ASSUME GoodRun, submit PROVE GoodRun'
<1>1. /\ script.at = "submit" /\ UNCHANGED state
      /\ txs' = Append(txs, Tx("transparent"))
      /\ script' = [script EXCEPT !.at = "receipt"]
  BY DEF submit
<1>2. DOMAIN script = ScriptFields  BY <1>1, ScriptHasFields DEF GoodRun
<1>3. /\ DemoTypes'
      /\ Len(txs') = Len(txs) + 1
      /\ \A h \in 1..Len(txs) : txs'[h] = txs[h]
      /\ txs'[Len(txs')].kind = "transparent"
      /\ DoneWith' = DoneWith /\ PoolDone' = PoolDone
      /\ Len(txs) \in Nat
  BY <1>1, <1>2, SendingAppends, DemoPlaces DEF GoodRun
<1>4. script'.at = "receipt" /\ script'.stage = script.stage /\ script'.snapshot = script.snapshot
  BY <1>1, <1>2 DEF ScriptFields
<1>5. NothingLeft'
  <2>1. \A h \in DoneWith : txs'[h] = txs[h]  BY <1>1, <1>3 DEF DoneWith
  <2> QED BY <2>1, <1>1, <1>3 DEF GoodRun, NothingLeft
<1>6. SnapshotOK'  BY <1>3, <1>4 DEF GoodRun, SnapshotOK
<1>7. BasesOK'
  <2>1. ASSUME NEW h \in 1..Len(txs'), txs'[h].kind = "pool", NEW k \in 1..(h - 1),
               txs'[k].kind = "pool", txs'[k].state = "done"
        PROVE  k \in txs'[h].base
    <3>1. h \in 1..Len(txs)  BY <2>1, <1>3
    <3>2. k \in 1..Len(txs)  BY <3>1, <1>3
    <3> QED BY <3>1, <3>2, <2>1, <1>3 DEF GoodRun, BasesOK
  <2> QED BY <2>1, <1>4 DEF BasesOK
<1> QED BY <1>3, <1>5, <1>6, <1>7 DEF GoodRun

LEMMA SubmitPoolKeeps == ASSUME GoodRun, submitPoolTx PROVE GoodRun'
<1>1. /\ script.at = "broadcast" /\ UNCHANGED state
      /\ txs' = Append(txs, Tx("pool"))
      /\ script' = [script EXCEPT !.at = "receipt"]
  BY DEF submitPoolTx
<1>2. DOMAIN script = ScriptFields  BY <1>1, ScriptHasFields DEF GoodRun
<1>3. /\ DemoTypes'
      /\ Len(txs') = Len(txs) + 1
      /\ \A h \in 1..Len(txs) : txs'[h] = txs[h]
      /\ txs'[Len(txs')].base = script.base
      /\ DoneWith' = DoneWith /\ PoolDone' = PoolDone
      /\ Len(txs) \in Nat
  BY <1>1, <1>2, SendingAppends, DemoPlaces DEF GoodRun
<1>4. script'.at = "receipt" /\ script'.stage = script.stage
  BY <1>1, <1>2 DEF ScriptFields
<1>5. NothingLeft'
  <2>1. \A h \in DoneWith : txs'[h] = txs[h]  BY <1>1, <1>3 DEF DoneWith
  <2> QED BY <2>1, <1>1, <1>3 DEF GoodRun, NothingLeft
<1>6. SnapshotOK'  BY <1>1, <1>4 DEF GoodRun, SnapshotOK
<1>7. BasesOK'
  <2>1. ASSUME NEW h \in 1..Len(txs'), txs'[h].kind = "pool", NEW k \in 1..(h - 1),
               txs'[k].kind = "pool", txs'[k].state = "done"
        PROVE  k \in txs'[h].base
    <3>1. k \in 1..Len(txs)  BY <2>1, <1>3
    <3>2. CASE h \in 1..Len(txs)
      BY <3>1, <3>2, <2>1, <1>3 DEF GoodRun, BasesOK
    <3>3. CASE h = Len(txs')
      <4>1. k \in PoolDone  BY <3>1, <2>1, <1>1, <1>3 DEF PoolDone, DoneWith
      <4> QED BY <4>1, <3>3, <1>1, <1>3 DEF GoodRun, BasesOK
    <3> QED BY <3>2, <3>3, <1>3
  <2> QED BY <2>1, <1>4 DEF BasesOK
<1> QED BY <1>3, <1>5, <1>6, <1>7 DEF GoodRun

\* The wait is for the latest recorded pool transaction, and every one of the
\* run is recorded, so that a proof made after it shows them all.
LEMMA WindowShowsAll ==
  ASSUME GoodRun, script.at = "wait", waitForProvingWindow(script.since \cup lastPoolTxBlock)
  PROVE  PoolDone \subseteq ProvingBase
<1>1. Len(txs) \in Nat /\ DOMAIN txs = 1..Len(txs) /\ DoneWith = 1..Len(txs)
  BY DemoPlaces DEF GoodRun, DoneWith
<1>2. SUFFICES ASSUME NEW k \in PoolDone PROVE k \in ProvingBase
  OBVIOUS
<1>3. Recorded = PoolDone
  BY DEF GoodRun, NothingLeft, PoolDone, Recorded
<1>4. \A h \in PoolDone : txs[h].age \in Nat /\ txs[h].state = "done" /\ h \in DOMAIN txs
  BY <1>1 DEF GoodRun, DemoTypes, NothingLeft, PoolDone
<1>5. PICK h \in PoolDone : \A j \in PoolDone : txs[h].age <= txs[j].age
  <2> DEFINE T == {txs[j].age : j \in PoolDone}
  <2>1. T \subseteq Nat /\ T # {}  BY <1>2, <1>4
  <2>2. PICK n \in T : \A i \in T : n <= i
    <3> HIDE DEF T
    <3> QED BY <2>1, LeastNatural
  <2> QED BY <2>2
<1>6. h \in lastPoolTxBlock  BY <1>3, <1>5 DEF lastPoolTxBlock
<1>7. txs[h].age > PROVING_BLOCK_BACKOFF  BY <1>6 DEF waitForProvingWindow
<1>8. txs[k].age >= PROVING_BLOCK_BACKOFF
  BY <1>2, <1>4, <1>5, <1>7, DemoAssumption
<1> QED BY <1>2, <1>4, <1>8 DEF ProvingBase, Hashes

LEMMA WaitAndProveKeeps == ASSUME GoodRun, WaitAndProve PROVE GoodRun'
<1>1. /\ script.at = "wait" /\ UNCHANGED <<txs, state>>
      /\ waitForProvingWindow(script.since \cup lastPoolTxBlock)
      /\ \/ script' = NoScript
         \/ script' = [script EXCEPT !.at = "broadcast", !.base = ProvingBase]
  BY DEF WaitAndProve, Ends
<1>2. CASE script' = NoScript
  BY <1>1, <1>2, RestsKeeps DEF ScriptRests
<1>3. CASE script' = [script EXCEPT !.at = "broadcast", !.base = ProvingBase]
  <2>1. DOMAIN script = ScriptFields  BY <1>1, ScriptHasFields DEF GoodRun
  <2>2. /\ DOMAIN script' = ScriptFields /\ script'.at = "broadcast"
        /\ script'.stage = script.stage /\ script'.base = ProvingBase
    BY <2>1, <1>3 DEF ScriptFields
  <2>3. script.stage # "create_circle"  BY <1>1 DEF GoodRun, SnapshotOK
  <2>4. DoneWith' = DoneWith /\ PoolDone' = PoolDone  BY <1>1, <2>2 DEF DoneWith, PoolDone
  <2>5. DemoTypes'  BY <1>1, <2>2 DEF GoodRun, DemoTypes
  <2>6. NothingLeft'  BY <1>1, <2>4 DEF GoodRun, NothingLeft
  <2>7. SnapshotOK'  BY <2>2, <2>3 DEF SnapshotOK
  <2>8. PoolDone' \subseteq script'.base  BY <1>1, <2>2, <2>4, WindowShowsAll
  <2>9. BasesOK'  BY <1>1, <2>8 DEF GoodRun, BasesOK
  <2> QED BY <2>5, <2>6, <2>7, <2>9 DEF GoodRun
<1> QED BY <1>1, <1>2, <1>3

\* A receipt of a transaction that reverted ends the script and forgets it.
LEMMA RevertedKeeps ==
  ASSUME GoodRun, script.at = "receipt", script' = NoScript, UNCHANGED state,
         txs' = SubSeq(txs, 1, Len(txs) - 1)
  PROVE  GoodRun'
<1>1. PICK S : txs \in Seq(S)  BY DEF GoodRun, DemoTypes
<1>2. Len(txs) \in Nat /\ Len(txs) >= 1  BY <1>1, LenProperties DEF GoodRun, DemoTypes
<1>3. PICK n : n = Len(txs) - 1  OBVIOUS
<1>4. n \in Nat /\ DoneWith = 1..n  BY <1>2, <1>3 DEF DoneWith
<1>5. \A i \in 1..n : txs[i] \in S  BY <1>1, <1>2, <1>3, ElementOfSeq
<1>6. /\ txs' \in Seq(S) /\ Len(txs') = n
      /\ \A i \in 1..n : txs'[i] = txs[i]
  <2>1. 1 \in Int /\ n \in Int  BY <1>4
  <2>2. /\ SubSeq(txs, 1, n) \in Seq(S)
        /\ Len(SubSeq(txs, 1, n)) = IF 1 <= n THEN n - 1 + 1 ELSE 0
        /\ \A i \in 1..(n - 1 + 1) : SubSeq(txs, 1, n)[i] = txs[1 + i - 1]
    BY <2>1, <1>5, SubSeqProperties
  <2>3. txs' = SubSeq(txs, 1, n)  BY <1>3
  <2> QED BY <2>2, <2>3, <1>4
<1>7. script'.at = "none" /\ script'.stage = "none"  BY DEF NoScript
<1>8. DoneWith' = DoneWith  BY <1>4, <1>6, <1>7 DEF DoneWith
<1>9. PoolDone' = PoolDone  BY <1>4, <1>6, <1>8 DEF PoolDone
<1>10. \A h \in 1..n : DOMAIN txs[h] = TxFields /\ txs[h].age \in Nat
  BY <1>2, <1>3 DEF GoodRun, DemoTypes
<1>11. DemoTypes'  BY <1>6, <1>7, <1>10 DEF GoodRun, DemoTypes
<1>12. NothingLeft'  BY <1>4, <1>6, <1>8, <1>9 DEF GoodRun, NothingLeft
<1>13. BasesOK'
  <2>1. ASSUME NEW h \in 1..n, txs'[h].kind = "pool", NEW k \in 1..(h - 1),
               txs'[k].kind = "pool", txs'[k].state = "done"
        PROVE  k \in txs'[h].base
    <3>1. k \in 1..n /\ h \in 1..Len(txs)  BY <2>1, <1>2, <1>3
    <3> QED BY <3>1, <2>1, <1>6 DEF GoodRun, BasesOK
  <2> QED BY <2>1, <1>6, <1>7 DEF BasesOK
<1> QED BY <1>7, <1>11, <1>12, <1>13 DEF GoodRun, SnapshotOK

\* What a script does after the receipt of a transaction that was included.
LEMMA NextStages ==
  ASSUME DOMAIN script = ScriptFields, Receipt, txs[Len(txs)].state = "done"
  PROVE  /\ ScriptRests
         /\ UNCHANGED txs
         /\ script.stage = "create_circle" =>
              state' = [circleId |-> resolveNewCircleId, transactions |-> script.snapshot]
         /\ script.stage # "create_circle" =>
              state' = [state EXCEPT !.transactions = @ \cup {Len(txs)}]
<1>1. \A label, at : /\ DOMAIN Stage(label, at) = ScriptFields
                     /\ Stage(label, at).at = at /\ Stage(label, at).stage = label
  BY DEF Stage, ScriptFields
<1>2. \A i : /\ DOMAIN NextJoin(i) = ScriptFields
             /\ NextJoin(i).at = "submit" /\ NextJoin(i).stage = "join"
  BY <1>1 DEF NextJoin, ScriptFields
<1>3. ASSUME NEW h
      PROVE  \/ AfterStage(h) = NoScript
             \/ /\ DOMAIN AfterStage(h) = ScriptFields
                /\ AfterStage(h).at \in {"submit", "wait"}
                /\ AfterStage(h).stage # "create_circle"
  <2>1. PICK s : s = [Stage("payout", "wait") EXCEPT !.since = {h}]  OBVIOUS
  <2>2. DOMAIN s = ScriptFields /\ s.at = "wait" /\ s.stage = "payout"
    BY <1>1, <2>1 DEF ScriptFields
  <2>3. AfterStage(h) \in {s, Stage("authorize", "submit"), NoScript}
    BY <2>1 DEF AfterStage
  <2> QED BY <1>1, <2>2, <2>3
<1>4. UNCHANGED txs  BY DEF Receipt
<1>5. CASE script.stage = "create_circle"
  <2>1. /\ state' = [circleId |-> resolveNewCircleId, transactions |-> script.snapshot]
        /\ script' = [NextJoin(1) EXCEPT !.circle = resolveNewCircleId]
    BY <1>5 DEF Receipt
  <2>2. DOMAIN script' = ScriptFields /\ script'.at = "submit" /\ script'.stage = "join"
    BY <2>1, <1>2 DEF ScriptFields
  <2> QED BY <1>4, <1>5, <2>1, <2>2 DEF ScriptRests
<1>6. CASE script.stage # "create_circle"
  <2>1. state' = [state EXCEPT !.transactions = @ \cup {Len(txs)}]
    BY <1>6 DEF Receipt, recordTransaction
  <2>2. CASE script.stage = "join"
    <3>1. script' = NoScript \/ \E i : script' = NextJoin(i)
      BY <2>2 DEF Receipt, Ends
    <3> QED BY <3>1, <1>2, <1>4, <1>6, <2>1 DEF ScriptRests
  <2>3. CASE script.stage = "approve"
    <3>1. script' = [Stage("deposit", "wait") EXCEPT !.since = {Len(txs)}]
      BY <2>3 DEF Receipt
    <3>2. DOMAIN script' = ScriptFields /\ script'.at = "wait" /\ script'.stage = "deposit"
      BY <3>1, <1>1 DEF ScriptFields
    <3> QED BY <3>2, <1>4, <1>6, <2>1 DEF ScriptRests
  <2>4. CASE script.stage \in {"finalize", "authorize"}
    <3>1. script' = AfterStage(Len(txs))  BY <2>4 DEF Receipt
    <3> QED BY <3>1, <1>3, <1>4, <1>6, <2>1 DEF ScriptRests
  <2>5. CASE script.stage \notin {"create_circle", "join", "approve", "finalize", "authorize"}
    <3>1. script' = NoScript  BY <2>5 DEF Receipt, Ends
    <3> QED BY <3>1, <1>4, <1>6, <2>1 DEF ScriptRests
  <2> QED BY <1>6, <2>2, <2>3, <2>4, <2>5
<1> QED BY <1>5, <1>6

LEMMA ReceiptKeeps == ASSUME GoodRun, Receipt PROVE GoodRun'
<1>1. script.at = "receipt"  BY DEF Receipt
<1>2. DOMAIN script = ScriptFields  BY <1>1, ScriptHasFields DEF GoodRun
<1>3. Len(txs) \in Nat /\ Len(txs) >= 1  BY <1>1, DemoPlaces DEF GoodRun, DemoTypes
<1>4. CASE txs[Len(txs)].state = "reverted"
  <2>1. /\ script' = NoScript /\ UNCHANGED state
        /\ txs' = SubSeq(txs, 1, Len(txs) - 1)
    BY <1>4 DEF Receipt, Ends
  <2> QED BY <1>1, <2>1, RevertedKeeps
<1>5. CASE txs[Len(txs)].state = "done"
  <2>1. /\ ScriptRests
        /\ UNCHANGED txs
        /\ script.stage = "create_circle" =>
             state' = [circleId |-> resolveNewCircleId, transactions |-> script.snapshot]
        /\ script.stage # "create_circle" =>
             state' = [state EXCEPT !.transactions = @ \cup {Len(txs)}]
    BY <1>2, <1>5, NextStages
  <2>2. /\ script' = NoScript \/ DOMAIN script' = ScriptFields
        /\ script'.at \notin {"receipt", "broadcast"} /\ script'.stage # "create_circle"
    BY <2>1 DEF ScriptRests, NoScript
  <2>3. /\ DoneWith = 1..(Len(txs) - 1) /\ DoneWith' = 1..Len(txs)
        /\ DoneWith' = DoneWith \cup {Len(txs)}
    BY <1>1, <1>3, <2>1, <2>2 DEF DoneWith
  <2>4. PoolDone' \subseteq PoolDone \cup {Len(txs)}  BY <2>1, <2>3 DEF PoolDone
  <2>5. DOMAIN state' = {"circleId", "transactions"}
    BY <2>1 DEF GoodRun, DemoTypes
  <2>6. DemoTypes'  BY <2>1, <2>2, <2>5 DEF GoodRun, DemoTypes
  <2>7. \A h \in DoneWith' : txs'[h].state = "done"
    BY <1>5, <2>1, <2>3 DEF GoodRun, NothingLeft
  <2>8. ASSUME script.stage = "create_circle" PROVE NothingLeft'
    <3>1. txs[Len(txs)].kind = "transparent"
      BY <1>1, <2>8 DEF GoodRun, SnapshotOK
    <3>2. PoolDone' = PoolDone  BY <2>1, <2>3, <3>1 DEF PoolDone
    <3>3. state'.transactions \subseteq DoneWith' /\ PoolDone' \subseteq state'.transactions
      BY <2>1, <2>3, <2>8, <3>2 DEF GoodRun, SnapshotOK
    <3> QED BY <2>7, <3>3 DEF NothingLeft
  <2>9. ASSUME script.stage # "create_circle" PROVE NothingLeft'
    <3>1. state'.transactions = state.transactions \cup {Len(txs)}
      BY <2>1, <2>9 DEF GoodRun, DemoTypes
    <3>2. state'.transactions \subseteq DoneWith' /\ PoolDone' \subseteq state'.transactions
      BY <2>3, <2>4, <3>1 DEF GoodRun, NothingLeft
    <3> QED BY <2>7, <3>2 DEF NothingLeft
  <2>10. SnapshotOK' /\ BasesOK'  BY <2>1, <2>2 DEF GoodRun, SnapshotOK, BasesOK
  <2> QED BY <2>6, <2>8, <2>9, <2>10 DEF GoodRun
<1>6. txs[Len(txs)].state \in {"reverted", "done"}  BY DEF Receipt
<1> QED BY <1>4, <1>5, <1>6

\* What becomes of the transactions by themselves, without a script.
LEMMA TxsMove ==
  ASSUME GoodRun, NEW n \in Nat, DOMAIN txs' = 1..n, NEW T, txs' \in [1..n -> T],
         n = Len(txs), UNCHANGED <<state, script>>,
         \A h \in 1..n : /\ DOMAIN txs'[h] = TxFields /\ txs'[h].age \in Nat
                         /\ txs'[h].kind = txs[h].kind
                         /\ txs'[h].base = txs[h].base,
         \A h \in DoneWith : txs'[h].state = txs[h].state
  PROVE  GoodRun'
<1>1. txs' \in Seq(T) /\ Len(txs') = n
  <2>1. txs' \in Seq(T)  BY SeqDef
  <2> QED BY <2>1, LenProperties
<1>2. DoneWith' = DoneWith /\ DoneWith \subseteq 1..n  BY <1>1 DEF DoneWith
<1>3. PoolDone' = PoolDone  BY <1>2 DEF PoolDone
<1>4. DemoTypes'  BY <1>1 DEF GoodRun, DemoTypes
<1>5. NothingLeft'  BY <1>2, <1>3 DEF GoodRun, NothingLeft
<1>6. SnapshotOK'
  <2>1. script.at = "receipt" => txs'[Len(txs')].kind = txs[Len(txs)].kind
    BY <1>1 DEF GoodRun, DemoTypes
  <2> QED BY <2>1, <1>2, <1>3 DEF GoodRun, SnapshotOK
<1>7. BasesOK'
  <2>1. ASSUME NEW h \in 1..n, txs'[h].kind = "pool", NEW k \in 1..(h - 1),
               txs'[k].kind = "pool", txs'[k].state = "done"
        PROVE  k \in txs'[h].base
    <3>1. k \in 1..n /\ k \in DoneWith  BY <2>1 DEF DoneWith
    <3> QED BY <3>1, <2>1 DEF GoodRun, BasesOK
  <2> QED BY <2>1, <1>1, <1>3 DEF GoodRun, BasesOK
<1> QED BY <1>4, <1>5, <1>6, <1>7 DEF GoodRun

LEMMA IncludedKeeps == ASSUME GoodRun, Included PROVE GoodRun'
<1>1. PICK h \in Hashes :
        /\ txs[h].state = "sent"
        /\ \/ txs' = [txs EXCEPT ![h].state = "done",
                              ![h].age = IF txs[h].label \in AgeMatters THEN 0 ELSE Old]
           \/ txs' = [txs EXCEPT ![h].state = "reverted"]
        /\ UNCHANGED <<state, script>>
  BY DEF Included
<1>2. PICK n \in Nat : n = Len(txs) /\ DOMAIN txs = 1..n
  BY DemoPlaces DEF GoodRun
<1>3. h \in 1..n /\ h \notin DoneWith
  BY <1>1, <1>2 DEF Hashes, GoodRun, NothingLeft
<1>4. Old \in Nat  BY DemoAssumption DEF Old
<1>5. PICK a \in Nat : a = IF txs[h].label \in AgeMatters THEN 0 ELSE Old
  BY <1>4
<1>6. \A i \in 1..n : DOMAIN txs[i] = TxFields /\ txs[i].age \in Nat
  BY <1>2 DEF GoodRun, DemoTypes
<1>7. /\ DOMAIN txs' = 1..n
      /\ \A i \in 1..n : i # h => txs'[i] = txs[i]
      /\ DOMAIN txs'[h] = TxFields /\ txs'[h].age \in Nat
      /\ txs'[h].kind = txs[h].kind /\ txs'[h].base = txs[h].base
  <2>1. CASE txs' = [txs EXCEPT ![h].state = "done", ![h].age = a]
    BY <2>1, <1>2, <1>3, <1>6 DEF TxFields
  <2>2. CASE txs' = [txs EXCEPT ![h].state = "reverted"]
    BY <2>2, <1>2, <1>3, <1>6 DEF TxFields
  <2> QED BY <2>1, <2>2, <1>1, <1>5
<1>8. PICK T : txs' \in [1..n -> T]
  <2>1. txs' = [i \in 1..n |-> txs'[i]]
    BY <1>1, <1>2, <1>7
  <2>2. PICK T : T = {txs'[i] : i \in 1..n}  OBVIOUS
  <2>3. \A i \in 1..n : txs'[i] \in T  BY <2>2
  <2> QED BY <2>1, <2>3
<1>9. \A i \in DoneWith : txs'[i].state = txs[i].state
  BY <1>2, <1>3, <1>7 DEF DoneWith
<1> QED BY <1>1, <1>2, <1>6, <1>7, <1>8, <1>9, TxsMove

LEMMA BlockKeeps == ASSUME GoodRun, Block PROVE GoodRun'
<1>1. PICK n \in Nat : n = Len(txs) /\ DOMAIN txs = 1..n
  BY DemoPlaces DEF GoodRun
<1>2. /\ UNCHANGED <<state, script>>
      /\ txs' = [h \in 1..n |->
                       IF txs[h].state = "done" /\ txs[h].age < Old
                       THEN [txs[h] EXCEPT !.age = @ + 1] ELSE txs[h]]
  BY <1>1 DEF Block, Hashes
<1>3. \A i \in 1..n : DOMAIN txs[i] = TxFields /\ txs[i].age \in Nat
  BY <1>1 DEF GoodRun, DemoTypes
<1>4. ASSUME NEW i \in 1..n
      PROVE  /\ DOMAIN txs'[i] = TxFields /\ txs'[i].age \in Nat
             /\ txs'[i].kind = txs[i].kind /\ txs'[i].base = txs[i].base
             /\ txs'[i].state = txs[i].state
  <2>1. txs'[i] \in {txs[i], [txs[i] EXCEPT !.age = @ + 1]}  BY <1>2
  <2> QED BY <2>1, <1>3 DEF TxFields
<1>5. PICK T : txs' \in [1..n -> T]
  <2>1. PICK T : T = {txs'[i] : i \in 1..n}  OBVIOUS
  <2>2. \A i \in 1..n : txs'[i] \in T  BY <2>1
  <2>3. txs' = [i \in 1..n |-> txs'[i]]  BY <1>2
  <2> QED BY <2>2, <2>3
<1>6. DoneWith \subseteq 1..n  BY <1>1 DEF DoneWith
<1>7. DOMAIN txs' = 1..n  BY <1>2
<1> QED BY <1>1, <1>2, <1>4, <1>5, <1>6, <1>7, TxsMove

LEMMA DemoIdleKeeps ==
  ASSUME GoodRun, UNCHANGED <<txs, state, script>> PROVE GoodRun'
BY DEF GoodRun, DemoTypes, NothingLeft, SnapshotOK, BasesOK, DoneWith, PoolDone

LEMMA DemoInitKeeps == ASSUME Init PROVE GoodRun
<1>1. /\ txs = << >> /\ script = NoScript
      /\ state = [circleId |-> 0, transactions |-> {}]
  BY DEF Init
<1>2. \A S : txs \in Seq(S)  BY <1>1, EmptySeq
<1>3. script.at = "none" /\ script.stage = "none" /\ Len(txs) = 0
  BY <1>1 DEF NoScript
<1>4. DoneWith = {} /\ PoolDone = {}  BY <1>3 DEF DoneWith, PoolDone
<1> QED BY <1>1, <1>2, <1>3, <1>4 DEF GoodRun, DemoTypes, NothingLeft, SnapshotOK, BasesOK

LEMMA DemoKeeps == ASSUME DemoInv, [Next]_vars PROVE DemoInv'
<1>1. CASE Crash
  <2>1. died' # {}  BY <1>1 DEF Crash
  <2> QED BY <2>1 DEF DemoInv
<1>2. CASE UNCHANGED vars
  BY <1>2, DemoIdleKeeps DEF DemoInv, vars
<1>3. ASSUME Next, ~Crash PROVE DemoInv'
  <2>1. UNCHANGED died
    BY <1>3 DEF Next, Prepare, Deposit, Payout, Contribute, Starts, ScriptStep, submit,
       WaitAndProve, submitPoolTx, Receipt, Included, Block, Donate, normalize_surplus, Default
  <2> SUFFICES ASSUME GoodRun PROVE GoodRun'
    BY <2>1 DEF DemoInv
  <2>2. CASE Prepare  BY <2>2, PrepareKeeps
  <2>3. CASE Deposit  BY <2>3, DepositKeeps
  <2>4. CASE Payout  BY <2>4, PayoutKeeps
  <2>5. CASE \E m \in Members : Contribute(m)  BY <2>5, ContributeKeeps
  <2>6. CASE ScriptStep
    BY <2>6, SubmitTransparentKeeps, WaitAndProveKeeps, SubmitPoolKeeps, ReceiptKeeps
    DEF ScriptStep
  <2>7. CASE Included  BY <2>7, IncludedKeeps
  <2>8. CASE Block  BY <2>8, BlockKeeps
  <2>9. CASE Donate  BY <2>9, DemoIdleKeeps DEF Donate
  <2>10. CASE normalize_surplus  BY <2>10, DemoIdleKeeps DEF normalize_surplus
  <2>11. CASE \E c \in CircleIds, m \in Members : Default(c, m)
    BY <2>11, DemoIdleKeeps DEF Default
  <2> QED BY <1>3, <2>2, <2>3, <2>4, <2>5, <2>6, <2>7, <2>8, <2>9, <2>10, <2>11 DEF Next
<1> QED BY <1>1, <1>2, <1>3

\* While no script has died, the run state has every pool transaction.
THEOREM DemoInvariant == Spec => []DemoInv
<1>1. Init => DemoInv  BY DemoInitKeeps DEF DemoInv
<1>2. DemoInv /\ [Next]_vars => DemoInv'  BY DemoKeeps
<1> QED BY <1>1, <1>2, PTL DEF Spec

\* As long as no script has died, a pool transaction is sent with a proof
\* against a block that shows every pool transaction of the account before it,
\* for any number of members, any proving window and any order of the scripts:
\* lib/run.mjs records what it sends, and its wait is for the latest record.
THEOREM ProofsSeeTheRunHolds == Spec => []ProofsSeeTheRun
<1>1. ASSUME DemoInv PROVE ProofsSeeTheRun
  <2> SUFFICES ASSUME GoodRun PROVE ProofsSeeTheRun
    BY <1>1 DEF DemoInv, ProofsSeeTheRun
  <2>1. DOMAIN txs = 1..Len(txs)  BY DemoPlaces DEF GoodRun
  <2> QED BY <2>1 DEF GoodRun, BasesOK, ProofsSeeTheRun, Hashes
<1> QED BY <1>1, DemoInvariant, PTL
=============================================================================
