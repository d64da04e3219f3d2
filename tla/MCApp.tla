-------------------------------- MODULE MCApp --------------------------------
(***************************************************************************)
(* The app's feature flags and its screens over the wallet repository, two *)
(* machines in one run: the initial state chooses one, and the other is    *)
(* parked. WalletApp is parked at Home after its effect and its query, so   *)
(* that fairness asks nothing of it.                                       *)
(***************************************************************************)
EXTENDS MCFeatureFlags, WalletApp

VARIABLE part

allVars == <<part, flagsVars, vars>>

Parked ==
    /\ Repository!Init
    /\ jobs = {}
    /\ vm = None /\ screen = "Home" /\ effect = FALSE
    /\ dirty = FALSE /\ found = None /\ exists = FALSE
    /\ restarts = 0

AllInit ==
    \/ part = "flags" /\ FlagsInit /\ Parked
    \/ part = "wallets" /\ FlagsInit /\ build = "release" /\ Init

AllNext ==
    /\ UNCHANGED part
    /\ \/ part = "flags" /\ FlagsNext /\ UNCHANGED vars
       \/ part = "wallets" /\ Next /\ UNCHANGED flagsVars

AllSpec == AllInit /\ [][AllNext]_allVars /\ Fairness
===============================================================================
