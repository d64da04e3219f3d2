------------------------------ MODULE WalletApp ------------------------------
(***************************************************************************)
(* The app around WalletRepository: the create screen whose button starts  *)
(* a coroutine per press, the view model that is cleared when the screen   *)
(* is left, the count of wallets that travels from the table to a LiveData, *)
(* and Home, which looks at that LiveData once each time it is shown and   *)
(* sends the user to Welcome when it says there is no wallet.              *)
(*                                                                         *)
(* The main thread runs one step at a time; the repository's calls run on  *)
(* the IO dispatcher next to it. Home is always at the bottom of the back  *)
(* stack, with Welcome and then CreateWallet above it, so the top screen   *)
(* tells the whole stack.                                                  *)
(***************************************************************************)
EXTENDS Naturals, FiniteSets

CONSTANTS
    Press,          \* the presses of the create button
    Name,           \* the name every press passes
    Empty,
    None,
    MaxRestarts     \* bound: how often the app is killed or left and reopened

ASSUME MaxRestartsAssumption == MaxRestarts \in Nat
ASSUME NoneIsNoAnswer == None \notin BOOLEAN

VARIABLES
    table, sequence, call,  \* of WalletRepository
    jobs,       \* coroutines of viewModelScope that have not completed
    vm,         \* CreateWalletViewModel of the create screen, if it is shown
    screen,     \* the top of the back stack
    effect,     \* Home was composed and its LaunchedEffect has not run
    dirty,      \* wallet_table changed since the flow last queried it
    found,      \* what the flow queried and has not delivered
    exists,     \* AppViewModel.existsWallet
    restarts

storeVars == <<table, sequence, call>>
flowVars == <<dirty, found, exists>>
screenVars == <<vm, screen, effect>>
vars == <<storeVars, flowVars, screenVars, jobs, restarts>>

Repository == INSTANCE WalletRepository WITH Calls <- Press, Secret <- {}

NewViewModel == [calls |-> {}, isLoading |-> FALSE, createWalletId |-> None]

\* Collecting countStream() begins with a query of its own
Init ==
    /\ Repository!Init
    /\ jobs = {}
    /\ vm = None /\ screen = "Home" /\ effect = TRUE
    /\ dirty = TRUE /\ found = None /\ exists = FALSE
    /\ restarts = 0

-----------------------------------------------------------------------------
(* The table and the count of its rows                                     *)

\* A count that is taken once instead of observed, and a tracker that takes a
\* query in progress for an answer to a change made during it.
CountedOnce == dirty
UnlessQuerying == dirty \/ found = None

\* Room marks the table as changed when the insertion commits
Invalidated == TRUE

Insert(c) ==
    /\ Repository!Insert(c)
    /\ dirty' = Invalidated
    /\ UNCHANGED <<jobs, screenVars, found, exists, restarts>>

Read(c) ==
    /\ Repository!Find(c) \/ Repository!FindMissing(c)
    /\ UNCHANGED <<jobs, screenVars, flowVars, restarts>>

\* countStream().map { it > 0 }
Query ==
    /\ dirty /\ found = None
    /\ dirty' = FALSE
    /\ found' = (table # {})
    /\ UNCHANGED <<storeVars, screenVars, jobs, exists, restarts>>

\* onEach { existsWallet.value = it }, on the main thread
Deliver ==
    /\ found # None
    /\ exists' = found
    /\ found' = None
    /\ UNCHANGED <<storeVars, screenVars, jobs, dirty, restarts>>

-----------------------------------------------------------------------------
(* The screens                                                             *)

\* createWalletViewModel.createWallet("name", "password"), up to withContext.
\* Nothing stops a press while isLoading.
CreateWallet(c) ==
    /\ screen = "CreateWallet"
    /\ \E name \in Name : Repository!createWallet(c, name)
    /\ jobs' = jobs \cup {c}
    /\ vm' = [vm EXCEPT !.isLoading = TRUE, !.calls = @ \cup {c}]
    /\ UNCHANGED <<flowVars, screen, effect, restarts>>

\* The rest of the coroutine, if its scope has not been cancelled
Resume(c) ==
    /\ c \in jobs /\ call[c].at = "returned"
    /\ jobs' = jobs \ {c}
    /\ vm' = IF vm # None /\ c \in vm.calls
             THEN [vm EXCEPT !.isLoading = FALSE, !.createWalletId = call[c].wallet.id]
             ELSE vm
    /\ UNCHANGED <<storeVars, flowVars, screen, effect, restarts>>

\* A coroutine whose view model is gone may never be dispatched
Cancelled(c) ==
    /\ c \in jobs /\ (vm # None => c \notin vm.calls)
    /\ Repository!Cancel(c)
    /\ jobs' = jobs \ {c}
    /\ UNCHANGED <<flowVars, screenVars, restarts>>

\* LaunchedEffect(createWalletId): onBack() pops everything above Home
CreatedEffect ==
    /\ vm # None /\ vm.createWalletId # None
    /\ screen' = "Home" /\ effect' = TRUE /\ vm' = None
    /\ UNCHANGED <<storeVars, flowVars, jobs, restarts>>

\* LaunchedEffect(existsWallet): its key is the State and not the value, so it
\* runs once each time Home is shown, on the value of that moment
HomeEffect ==
    /\ screen = "Home" /\ effect
    /\ effect' = FALSE
    /\ screen' = IF exists THEN "Home" ELSE "Welcome"
    /\ UNCHANGED <<storeVars, flowVars, jobs, vm, restarts>>

OpenCreateWallet ==
    /\ screen = "Welcome"
    /\ screen' = "CreateWallet" /\ vm' = NewViewModel
    /\ UNCHANGED <<storeVars, flowVars, jobs, effect, restarts>>

\* Leaving the create screen clears its view model and cancels its coroutines
Back ==
    /\ \/ /\ screen = "CreateWallet"
          /\ screen' = "Welcome" /\ vm' = None
          /\ UNCHANGED effect
       \/ /\ screen = "Welcome"
          /\ screen' = "Home" /\ effect' = TRUE
          /\ UNCHANGED vm
    /\ UNCHANGED <<storeVars, flowVars, jobs, restarts>>

-----------------------------------------------------------------------------
(* The activity and its process                                            *)

\* A new AppViewModel: existsWallet is false until the flow has answered
Started(top) ==
    /\ screen' = top
    /\ effect' = (top = "Home")
    /\ vm' = IF top = "CreateWallet" THEN NewViewModel ELSE None
    /\ dirty' = TRUE /\ found' = None /\ exists' = FALSE

ProcessEnds ==
    /\ IF \E c \in Press : Repository!Running(c) THEN Repository!Kill
                                                 ELSE UNCHANGED storeVars
    /\ jobs' = {}

\* The exception of a failed call reaches no handler but the default one, which
\* ends the process; the loop in App.attachBaseContext does not see it
Crash ==
    /\ \E c \in jobs : call[c].at = "failed"
    /\ ProcessEnds
    /\ Started("Home")
    /\ UNCHANGED restarts

\* The system ends the process; the back stack may be restored or not
Killed ==
    /\ restarts < MaxRestarts
    /\ restarts' = restarts + 1
    /\ ProcessEnds
    /\ \E top \in {screen, "Home"} : Started(top)

\* Back on Home finishes the activity; the process and its threads go on
Reopened ==
    /\ screen = "Home"
    /\ restarts < MaxRestarts
    /\ restarts' = restarts + 1
    /\ Started("Home")
    /\ UNCHANGED <<storeVars, jobs>>

Main == (\E c \in Press : Resume(c)) \/ CreatedEffect \/ HomeEffect \/ Deliver \/ Crash

Next ==
    \/ \E c \in Press : Insert(c) \/ Read(c) \/ CreateWallet(c) \/ Cancelled(c)
    \/ Main \/ Query
    \/ OpenCreateWallet \/ Back \/ Killed \/ Reopened

\* The main looper and Room's threads keep running; the user owes nothing
Fairness ==
    /\ \A c \in Press : WF_vars(Insert(c)) /\ WF_vars(Read(c)) /\ WF_vars(Resume(c))
    /\ WF_vars(CreatedEffect) /\ WF_vars(HomeEffect)
    /\ WF_vars(Query) /\ WF_vars(Deliver) /\ WF_vars(Crash)

Spec == Init /\ [][Next]_vars /\ Fairness

-----------------------------------------------------------------------------

\* Home sends the user to Welcome although a wallet is stored only while the
\* change of the table is still on its way to existsWallet: right after the
\* app has started, or when a creation returns before its own invalidation.
WelcomeOnlyWhilePending ==
    [][screen = "Home" /\ screen' = "Welcome" /\ table # {} => dirty \/ found # None]_vars

\* Once a wallet is stored the app comes to know of it, whatever was in flight
\* when the row was written and however often it is started again.
ExistsIsLearnt == table # {} ~> exists

\* The coroutine of every press completes: it returns, is cancelled, or ends
\* with the process, also when its row is replaced before it is read back.
PressesEnd == \A c \in Press : c \in jobs ~> c \notin jobs

=============================================================================
