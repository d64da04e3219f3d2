--------------------------- MODULE WalletAppProofs ---------------------------
(***************************************************************************)
(* Proofs about WalletApp, for any presses, names and number of restarts.  *)
(*                                                                         *)
(* What Home knows is behind the table by the change that is marked or the *)
(* answer that travels; when there is neither, it knows. That is inductive *)
(* with the bits it speaks of, and it makes Welcome a sign of a change on  *)
(* its way. A step of the app moves the store only as the repository does. *)
(***************************************************************************)
EXTENDS WalletApp, TLAPS

\* What the flow and the LiveData hold.
Flowing ==
    /\ dirty \in BOOLEAN /\ exists \in BOOLEAN
    /\ found \in BOOLEAN \cup {None}

\* Unless the table has changed since, the last answer says that it has rows.
Known == table # {} /\ ~dirty => IF found = None THEN exists ELSE found

IInv == Flowing /\ Known

-----------------------------------------------------------------------------

LEMMA InitInv == Init => IInv
BY DEF Init, IInv, Flowing, Known

\* A new AppViewModel has everything to learn.
LEMMA StartedInv == ASSUME NEW top, Started(top) PROVE IInv'
BY DEF Started, IInv, Flowing, Known

\* Nothing is written but by an insertion.
LEMMA SameTable ==
    ASSUME Next, table' # table
    PROVE  \E c \in Press : Insert(c)
<1>1. ASSUME NEW c \in Press, Read(c) \/ CreateWallet(c) \/ Cancelled(c) PROVE table' = table
  BY <1>1 DEF Read, CreateWallet, Cancelled, Repository!Find, Repository!FindMissing,
     Repository!createWallet, Repository!Create, Repository!Cancel
<1>2. ASSUME ProcessEnds PROVE table' = table
  BY <1>2 DEF ProcessEnds, Repository!Kill, storeVars
<1>3. ASSUME Main \/ Query \/ OpenCreateWallet \/ Back \/ Killed \/ Reopened PROVE table' = table
  BY <1>2, <1>3 DEF Main, Resume, CreatedEffect, HomeEffect, Deliver, Crash, Query,
     OpenCreateWallet, Back, Killed, Reopened, storeVars
<1> QED
  BY <1>1, <1>3 DEF Next

\* Of the other steps only three touch the flow.
LEMMA SameFlow ==
    ASSUME Next, ~UNCHANGED flowVars
    PROVE  \/ \E c \in Press : Insert(c)
           \/ Query \/ Deliver
           \/ \E top \in {screen, "Home"} : Started(top)
<1>1. ASSUME NEW c \in Press, Read(c) \/ CreateWallet(c) \/ Cancelled(c) \/ Resume(c)
      PROVE  UNCHANGED flowVars
  BY <1>1 DEF Read, CreateWallet, Cancelled, Resume
<1>2. ASSUME CreatedEffect \/ HomeEffect \/ OpenCreateWallet \/ Back
      PROVE  UNCHANGED flowVars
  BY <1>2 DEF CreatedEffect, HomeEffect, OpenCreateWallet, Back
<1>3. ASSUME Crash \/ Killed \/ Reopened
      PROVE  \E top \in {screen, "Home"} : Started(top)
  BY <1>3 DEF Crash, Killed, Reopened
<1> QED
  BY <1>1, <1>2, <1>3 DEF Next, Main

LEMMA NextInv == IInv /\ [Next]_vars => IInv'
<1> SUFFICES ASSUME IInv, [Next]_vars PROVE IInv'
  OBVIOUS
<1>1. CASE \E c \in Press : Insert(c)
  BY <1>1 DEF Insert, Invalidated, IInv, Flowing, Known
<1>2. CASE Query
  BY <1>2, NoneIsNoAnswer DEF Query, IInv, Flowing, Known, storeVars
<1>3. CASE Deliver
  BY <1>3 DEF Deliver, IInv, Flowing, Known, storeVars
<1>4. CASE \E top \in {screen, "Home"} : Started(top)
  BY <1>4, StartedInv
<1>5. CASE table' = table /\ UNCHANGED flowVars
  BY <1>5 DEF IInv, Flowing, Known, flowVars
<1>6. CASE UNCHANGED vars
  BY <1>5, <1>6 DEF vars, storeVars
<1> QED
  BY <1>1, <1>2, <1>3, <1>4, <1>5, <1>6, SameTable, SameFlow

-----------------------------------------------------------------------------

\* Only the effect of Home goes from Home to Welcome: a start shows Home or the
\* screen that was shown.
LEMMA OnlyHomeEffect ==
    ASSUME Next, screen = "Home", screen' = "Welcome"
    PROVE  HomeEffect
<1>1. ASSUME NEW c \in Press, Insert(c) \/ Read(c) \/ CreateWallet(c) \/ Cancelled(c) \/ Resume(c)
      PROVE  screen' = screen
  BY <1>1 DEF Insert, Read, CreateWallet, Cancelled, Resume, screenVars
<1>2. ASSUME Query \/ Deliver PROVE screen' = screen
  BY <1>2 DEF Query, Deliver, screenVars
<1>3. ASSUME CreatedEffect \/ OpenCreateWallet \/ Back PROVE FALSE
  BY <1>3 DEF CreatedEffect, OpenCreateWallet, Back
<1>4. ASSUME Crash \/ Killed \/ Reopened PROVE screen' \in {screen, "Home"}
  BY <1>4 DEF Crash, Killed, Reopened, Started
<1> QED
  BY <1>1, <1>2, <1>3, <1>4 DEF Next, Main

\* Home sends the user to Welcome although a wallet is stored only while the
\* change of the table is still on its way, however often the app is started
\* and whatever calls overlap.
THEOREM WelcomeOnlyBehind == Spec => WelcomeOnlyWhilePending
<1>1. Init => IInv
  BY InitInv
<1>2. IInv /\ [Next]_vars => IInv'
  BY NextInv
<1>3. IInv /\ [Next]_vars =>
          [screen = "Home" /\ screen' = "Welcome" /\ table # {} => dirty \/ found # None]_vars
  <2> SUFFICES ASSUME IInv, Next, screen = "Home", screen' = "Welcome", table # {}
               PROVE  dirty \/ found # None
    OBVIOUS
  <2>1. HomeEffect
    BY OnlyHomeEffect
  <2>2. ~exists
    BY <2>1 DEF HomeEffect
  <2> QED
    BY <2>2 DEF IInv, Known
<1> QED
  BY <1>1, <1>2, <1>3, PTL DEF Spec, WelcomeOnlyWhilePending

-----------------------------------------------------------------------------

\* Around its repository the app changes nothing: every step of it is a step of
\* the repository's, or none.
LEMMA StoreStep == ASSUME Next PROVE Repository!Next \/ UNCHANGED storeVars
<1>1. ASSUME NEW c \in Press, Insert(c) \/ Read(c)
      PROVE  Repository!Next
  BY <1>1 DEF Insert, Read, Repository!Next, Repository!Step
<1>2. ASSUME NEW c \in Press, CreateWallet(c) \/ Cancelled(c)
      PROVE  Repository!Next
  BY <1>2 DEF CreateWallet, Cancelled, Repository!Next
<1>3. ASSUME ProcessEnds PROVE Repository!Next \/ UNCHANGED storeVars
  BY <1>3 DEF ProcessEnds, Repository!Next
<1>4. ASSUME Crash \/ Killed PROVE Repository!Next \/ UNCHANGED storeVars
  BY <1>3, <1>4 DEF Crash, Killed
<1>5. ASSUME \/ \E c \in Press : Resume(c)
             \/ CreatedEffect \/ HomeEffect \/ Deliver \/ Query
             \/ OpenCreateWallet \/ Back \/ Reopened
      PROVE  UNCHANGED storeVars
  BY <1>5 DEF Resume, CreatedEffect, HomeEffect, Deliver, Query, OpenCreateWallet, Back, Reopened
<1> QED
  BY <1>1, <1>2, <1>4, <1>5 DEF Next, Main

\* The app implements the repository: what the screens, the coroutines and the
\* system do to the table is what some sequence of its calls does, so the
\* invariants of the repository are the app's.
THEOREM AppImplementsRepository ==
    Spec => Repository!Init /\ [][Repository!Next]_storeVars
<1>1. Init => Repository!Init
  BY DEF Init
<1>2. [Next]_vars => [Repository!Next]_storeVars
  BY StoreStep DEF vars
<1> QED
  BY <1>1, <1>2, PTL DEF Spec
=============================================================================
