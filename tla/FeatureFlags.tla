---------------------------- MODULE FeatureFlags ----------------------------
(***************************************************************************)
(* RuntimeBehavior, the registry that answers whether a feature is on, and *)
(* its providers: the build's own (Store in release builds, the settings   *)
(* of the test screen in debug builds), the object the tests fill, and the *)
(* remote configuration, fetched by a thread of its own.                   *)
(*                                                                         *)
(* A reader works on a snapshot of the copy-on-write list of providers: it *)
(* first picks the provider and asks it for the value later, while the app *)
(* may still be adding providers, a fetch may bring new data, a setting    *)
(* may be changed, or the process may end. One reader stands for any of    *)
(* them, for readers change nothing.                                       *)
(***************************************************************************)
EXTENDS Naturals, Sequences, SequencesExt

CONSTANTS
    Config,         \* what a JSON object of the server may say: functions from
                    \* some of the features to BOOLEAN
    NotJson,        \* any other text
    Null,
    MaxFetching     \* bound: threads that fetch at the same time

ASSUME MaxFetchingAssumption == MaxFetching \in Nat \ {0}

FeatureFlag == {"DARK_MODE"}
TestSetting == {"DEBUG_LOGGING", "DEBUG_FIREBASE"}  \* the others are like these
Feature == FeatureFlag \cup TestSetting
defaultValue == [f \in Feature |-> f # "DEBUG_FIREBASE"]

ASSUME ConfigAssumption ==
    \A c \in Config : DOMAIN c \subseteq Feature /\ \A f \in DOMAIN c : c[f] \in BOOLEAN

Provider == {"Test", "Qiniu", "Runtime", "Store"}
priority == [p \in Provider |-> CASE p = "Test"    -> 0
                                  [] p = "Qiniu"   -> 1
                                  [] p = "Runtime" -> 2
                                  [] p = "Store"   -> 3]

ASSUME NoneIsNoProvider == Null \notin Provider

VARIABLES
    build,      \* BuildConfig.DEBUG
    next,       \* how far initialize is: the place of the provider to add next
    providers,  \* RuntimeBehavior.providers
    prefs,      \* the settings in memory, Null where nothing was chosen
    disk,       \* the same settings in their file
    data,       \* jsonObjectData of the remote provider
    fetching,   \* HttpThreads that run
    read        \* a call of isFeatureEnabled

flagsVars == <<build, next, providers, prefs, disk, data, fetching, read>>

NoRead == [at |-> "idle", feature |-> Null, provider |-> Null, value |-> Null,
           early |-> FALSE, effective |-> {}]

FlagsInit ==
    /\ build \in {"debug", "release"}
    /\ next = 1 /\ providers = <<>>
    /\ prefs = [f \in Feature |-> Null] /\ disk = prefs
    /\ data = Null /\ fetching = 0
    /\ read = NoRead

-----------------------------------------------------------------------------
(* The providers                                                           *)

HasIfRemote(p, f) ==            \* mutant: whatever the remote data defines
    CASE p = "Test"  -> FALSE
      [] p = "Qiniu" -> data # Null /\ f \in DOMAIN data
      [] OTHER       -> TRUE
\* Nothing but a test fills the test object, so it has no feature here
hasFeature(p, f) ==
    CASE p = "Test"  -> FALSE
      [] p = "Qiniu" -> f = "DARK_MODE"
      [] OTHER       -> TRUE

\* RuntimeFeatureFlagProvider reads a setting with the feature's default
Chosen(f) == IF prefs[f] = Null THEN defaultValue[f] ELSE prefs[f]

\* getData: no data, no such key and a failed conversion are all false
Remote(f) == data # Null /\ f \in DOMAIN data /\ data[f]

ProviderEnabled(p, f) ==
    CASE p = "Qiniu"   -> Remote(f)
      [] p = "Runtime" -> Chosen(f)
      [] OTHER         -> FALSE

\* The registry's promise: of the providers that have the feature, the one of
\* the least priority decides; without one, the feature's default.
Effective(f) ==
    LET holders == {p \in ToSet(providers) : hasFeature(p, f)}
    IN  IF holders = {} THEN defaultValue[f]
        ELSE ProviderEnabled(CHOOSE p \in holders :
                 \A q \in holders : priority[p] <= priority[q], f)

\* What an unfinished read might have answered at any moment since it began
Observe ==
    read' = IF read.at = "picked"
            THEN [read EXCEPT !.effective = @ \cup {Effective(f)' : f \in {read.feature}}]
            ELSE read

-----------------------------------------------------------------------------
(* App.onCreate: RuntimeBehavior.initialize, one provider at a time        *)

Plan == IF build = "debug" THEN <<"Runtime", "Test", "Qiniu">>
                           ELSE <<"Store", "Qiniu">>
Initialized == next > Len(Plan)

\* The remote provider is left out of a debug build unless it is asked for;
\* making one starts its first fetch
Initialize ==
    /\ ~Initialized
    /\ next' = next + 1
    /\ LET p == Plan[next]
           wanted == p = "Qiniu" /\ build = "debug" => Chosen("DEBUG_FIREBASE")
       IN  /\ providers' = IF wanted THEN Append(providers, p) ELSE providers
           /\ fetching' = IF wanted /\ p = "Qiniu" THEN fetching + 1 ELSE fetching
    /\ UNCHANGED <<build, prefs, disk, data>>
    /\ Observe

\* refreshFeatureFlags
Refresh ==
    /\ "Qiniu" \in ToSet(providers)
    /\ fetching < MaxFetching
    /\ fetching' = fetching + 1
    /\ UNCHANGED <<build, next, providers, prefs, disk, data, read>>

\* A text that is not a JSON object leaves the data as they were
Parsed(text) == IF text \in Config THEN text ELSE data

\* HttpThread.run up to setData; answers arrive in any order
Fetched ==
    /\ fetching > 0
    /\ fetching' = fetching - 1
    /\ \E text \in Config \cup {NotJson} : data' = Parsed(text)
    /\ UNCHANGED <<build, next, providers, prefs, disk>>
    /\ Observe

-----------------------------------------------------------------------------
(* The screen of the settings, in debug builds                             *)

\* setFeatureEnabled: apply() changes the memory now and the file later
Toggle(f, enabled) ==
    /\ build = "debug" /\ Initialized
    /\ prefs' = [prefs EXCEPT ![f] = enabled]
    /\ UNCHANGED <<build, next, providers, disk, data, fetching>>
    /\ Observe

Written ==
    /\ disk' = prefs
    /\ UNCHANGED <<build, next, providers, prefs, data, fetching, read>>

\* A fetch that fails throws in its thread, which ends the process; so does
\* the "Force Stop" of the settings screen, and the system may
ProcessDies ==
    /\ next' = 1 /\ providers' = <<>>
    /\ prefs' = disk
    /\ data' = Null /\ fetching' = 0
    /\ read' = NoRead
    /\ UNCHANGED <<build, disk>>

-----------------------------------------------------------------------------
(* RuntimeBehavior.isFeatureEnabled                                        *)

\* filter: the places of the providers that have the feature
Holding(f) == {i \in DOMAIN providers : hasFeature(providers[i], f)}
FirstAdded(f) ==                \* mutant: without the sort
    IF Holding(f) = {} THEN Null
    ELSE providers[CHOOSE i \in Holding(f) : \A j \in Holding(f) : i <= j]
\* sortedBy, which keeps the order of equals, and firstOrNull
Sooner(i, j) ==
    \/ priority[providers[i]] < priority[providers[j]]
    \/ priority[providers[i]] = priority[providers[j]] /\ i <= j
First(f) ==
    IF Holding(f) = {} THEN Null
    ELSE providers[CHOOSE i \in Holding(f) : \A j \in Holding(f) : Sooner(i, j)]

Pick(f) ==
    /\ read.at \in {"idle", "answered"}
    /\ read' = [at |-> "picked", feature |-> f, provider |-> First(f), value |-> Null,
                early |-> ~Initialized, effective |-> {Effective(f)}]
    /\ UNCHANGED <<build, next, providers, prefs, disk, data, fetching>>

Answer ==
    /\ read.at = "picked"
    /\ read' = [read EXCEPT !.at = "answered",
           !.value = IF read.provider = Null THEN defaultValue[read.feature]
                     ELSE ProviderEnabled(read.provider, read.feature)]
    /\ UNCHANGED <<build, next, providers, prefs, disk, data, fetching>>

FlagsNext ==
    \/ Initialize \/ Refresh \/ Fetched \/ Written \/ ProcessDies
    \/ \E f \in Feature, enabled \in BOOLEAN : Toggle(f, enabled)
    \/ \E f \in Feature : Pick(f)
    \/ Answer

FlagsSpec == FlagsInit /\ [][FlagsNext]_flagsVars

-----------------------------------------------------------------------------

\* "TestSettings should never be shipped to users": in a release build no read
\* that begins after initialize turns a test setting on, whatever the server
\* sends, whatever the default is and whichever fetch is under way.
TestSettingsOff ==
    read.at = "answered" /\ build = "release" /\ ~read.early
        /\ read.feature \in TestSetting => read.value = FALSE

\* A read takes no lock between picking its provider and asking it. It still
\* answers what was effective at some moment of the read, in release builds
\* always and in debug builds once initialize has returned.
ReadsAreAtomic ==
    read.at = "answered" /\ (build = "release" \/ ~read.early)
        => read.value \in read.effective

=============================================================================
