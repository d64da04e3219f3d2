------------------------------ MODULE MCPhrases ------------------------------
(***************************************************************************)
(* Phrases and the cache of the lists their words come from, two machines  *)
(* in one run: the initial state chooses one, and the other stays as it    *)
(* starts, without a phrase and without a call.                            *)
(***************************************************************************)
EXTENDS MCMnemonic, WordCache

VARIABLE part

allVars == <<part, vars, cacheVars>>

AllInit ==
    /\ part \in {"phrases", "cache"}
    /\ Init
    /\ CacheInit

AllNext ==
    /\ UNCHANGED part
    /\ \/ part = "phrases" /\ Next /\ UNCHANGED cacheVars
       \/ part = "cache" /\ CacheNext /\ UNCHANGED vars

\* Where no thread ever calls, Scheduling asks for nothing
AllSpec == AllInit /\ [][AllNext]_allVars /\ Scheduling
===============================================================================
