------------------------- MODULE FeatureFlagsProofs -------------------------
(***************************************************************************)
(* Proofs about FeatureFlags, for any answers of the server and any number *)
(* of fetches.                                                             *)
(*                                                                         *)
(* A read keeps the provider it picked. What ReadsAreAtomic says of its    *)
(* answer needs to be known before: either that provider is still the one  *)
(* the registry would pick, and answers what is effective now, or it gives *)
(* a fixed answer, which was effective when it was picked.                 *)
(***************************************************************************)
EXTENDS FeatureFlags, WellFoundedInduction, SequenceTheorems, TLAPS

Read == [at : {"idle", "picked", "answered"}, feature : Feature \cup {Null},
         provider : Provider \cup {Null}, value : BOOLEAN \cup {Null},
         early : BOOLEAN, effective : SUBSET BOOLEAN]

Stored ==
    /\ build \in {"debug", "release"}
    /\ next \in Nat \ {0}
    /\ providers \in Seq(Provider)
    /\ prefs \in [Feature -> BOOLEAN \cup {Null}]
    /\ disk \in [Feature -> BOOLEAN \cup {Null}]
    /\ data \in Config \cup {Null}
Typed == Stored /\ read \in Read

\* A release build adds its two providers whatever the settings are.
Added ==
    build = "release" =>
        \/ next = 1 /\ providers = <<>>
        \/ next = 2 /\ providers = <<"Store">>
        \/ next = 3 /\ providers = <<"Store", "Qiniu">>

\* The answers that nothing changes
Fixed(p, f) == IF p = Null THEN defaultValue[f] ELSE FALSE

Picked ==
    read.at = "picked" =>
        /\ read.feature \in Feature
        /\ Effective(read.feature) \in read.effective
        /\ ~read.early => Initialized
        /\ \/ read.provider = First(read.feature)
           \/ /\ build = "release" /\ read.early
              /\ read.provider \in {Null, "Store"}
              /\ Fixed(read.provider, read.feature) \in read.effective
           \/ build = "debug" /\ read.early

IInv == Typed /\ Added /\ Picked /\ TestSettingsOff /\ ReadsAreAtomic

-----------------------------------------------------------------------------

\* Whatever is chosen, found or defined is on or off.
LEMMA EnabledType ==
    ASSUME Stored, NEW f \in Feature, NEW p
    PROVE  ProviderEnabled(p, f) \in BOOLEAN /\ defaultValue[f] \in BOOLEAN
<1>1. defaultValue[f] \in BOOLEAN
  BY DEF defaultValue
<1>2. Chosen(f) \in BOOLEAN
  BY <1>1 DEF Chosen, Stored
<1>3. Remote(f) \in BOOLEAN
  BY DEF Remote
<1> QED
  BY <1>1, <1>2, <1>3 DEF ProviderEnabled

LEMMA LeastNumber ==
    ASSUME NEW S, S \subseteq Nat, S # {}
    PROVE  \E x \in S : \A y \in S : x <= y
<1>1. PICK x \in S : \A y \in S : <<y, x>> \notin OpToRel(<, Nat)
  BY NatLessThanWellFounded, WFMin
<1>2. \A y \in S : ~(y < x)
  BY <1>1 DEF OpToRel
<1> QED
  BY <1>2

\* A list that has the feature somewhere has a place that comes first.
LEMMA FirstIsLeast ==
    ASSUME providers \in Seq(Provider), NEW f \in Feature, Holding(f) # {}
    PROVE  /\ First(f) \in Provider
           /\ First(f) \in ToSet(providers) /\ hasFeature(First(f), f)
           /\ \A i \in Holding(f) : priority[First(f)] <= priority[providers[i]]
<1> DEFINE Ranks == {priority[providers[i]] : i \in Holding(f)}
           Least(r) == {i \in Holding(f) : priority[providers[i]] = r}
<1>1. \A i \in Holding(f) : i \in Nat /\ providers[i] \in Provider /\ priority[providers[i]] \in Nat
  BY DEF Holding, priority, Provider
<1>2. PICK r \in Ranks : \A q \in Ranks : r <= q
  <2>1. Ranks \subseteq Nat /\ Ranks # {}
    BY <1>1
  <2> QED
    BY <2>1, LeastNumber
<1>3. PICK i \in Least(r) : \A j \in Least(r) : i <= j
  <2>1. Least(r) \subseteq Nat /\ Least(r) # {}
    BY <1>1, <1>2
  <2> QED
    BY <2>1, LeastNumber
<1>4. i \in Holding(f) /\ \A j \in Holding(f) : Sooner(i, j)
  <2>1. i \in Holding(f) /\ priority[providers[i]] = r
    BY <1>3
  <2>2. ASSUME NEW j \in Holding(f) PROVE Sooner(i, j)
    <3>1. r <= priority[providers[j]]
      BY <1>2
    <3>2. priority[providers[j]] = r => i <= j
      BY <1>3
    <3> HIDE DEF Ranks, Least
    <3> QED
      BY <1>1, <2>1, <3>1, <3>2 DEF Sooner
  <2> QED
    BY <2>1, <2>2
<1>5. PICK k \in Holding(f) : First(f) = providers[k] /\ \A j \in Holding(f) : Sooner(k, j)
  BY <1>4 DEF First
<1>6. \A j \in Holding(f) : priority[providers[k]] <= priority[providers[j]]
  BY <1>1, <1>5 DEF Sooner
<1> QED
  BY <1>1, <1>5, <1>6 DEF ToSet, Holding

\* The provider that comes first decides what is effective.
LEMMA FirstDecides ==
    ASSUME providers \in Seq(Provider), NEW f \in Feature
    PROVE  Effective(f) = IF First(f) = Null THEN defaultValue[f] ELSE ProviderEnabled(First(f), f)
<1> DEFINE holders == {p \in ToSet(providers) : hasFeature(p, f)}
<1>1. holders = {providers[i] : i \in Holding(f)}
  BY DEF ToSet, Holding
<1>2. CASE Holding(f) = {}
  BY <1>1, <1>2 DEF Effective, First
<1>3. CASE Holding(f) # {}
  <2>1. /\ First(f) \in Provider /\ First(f) \in holders
        /\ \A q \in holders : priority[First(f)] <= priority[q]
    BY <1>1, <1>3, FirstIsLeast
  <2>2. holders \subseteq Provider
    BY DEF ToSet
  <2>3. ASSUME NEW p \in holders, \A q \in holders : priority[p] <= priority[q]
        PROVE  p = First(f)
    <3>1. p \in Provider /\ priority[p] = priority[First(f)]
      <4>1. p \in Provider /\ priority[p] \in Nat /\ priority[First(f)] \in Nat
        BY <2>1, <2>2 DEF priority, Provider
      <4> QED
        BY <2>1, <2>3, <4>1
    <3> QED
      BY <2>1, <3>1 DEF priority, Provider
  <2>4. First(f) = CHOOSE p \in holders : \A q \in holders : priority[p] <= priority[q]
    BY <2>1, <2>3
  <2>5. holders # {} /\ First(f) # Null
    BY <2>1, NoneIsNoProvider
  <2> QED
    BY <2>4, <2>5 DEF Effective
<1> QED
  BY <1>2, <1>3

\* What is effective is on or off.
LEMMA EffectiveType == Stored => \A f \in Feature : Effective(f) \in BOOLEAN
<1> SUFFICES ASSUME Stored, NEW f \in Feature PROVE Effective(f) \in BOOLEAN
  OBVIOUS
<1>1. Effective(f) = IF First(f) = Null THEN defaultValue[f] ELSE ProviderEnabled(First(f), f)
  BY FirstDecides DEF Stored
<1> QED
  BY <1>1, EnabledType

\* Before the remote provider is added to a release build, every answer is
\* fixed.
LEMMA EarlyIsFixed ==
    ASSUME Added, build = "release", ~Initialized, NEW f \in Feature
    PROVE  First(f) \in {Null, "Store"} /\ Effective(f) = Fixed(First(f), f)
<1>1. Plan = <<"Store", "Qiniu">> /\ Len(Plan) = 2
  BY DEF Plan
<1>2. CASE providers = <<>>
  <2>1. Holding(f) = {} /\ providers \in Seq(Provider)
    BY <1>2 DEF Holding
  <2> QED
    BY <2>1, FirstDecides DEF First, Fixed
<1>3. CASE providers = <<"Store">>
  <2>1. Holding(f) = {1} /\ providers \in Seq(Provider)
    BY <1>3 DEF Holding, hasFeature, Provider
  <2>2. First(f) = "Store"
    BY <1>3, <2>1 DEF First, Sooner
  <2> QED
    BY <2>1, <2>2, FirstDecides, NoneIsNoProvider DEF Fixed, ProviderEnabled, Provider
<1> QED
  BY <1>1, <1>2, <1>3 DEF Added, Initialized

\* In a release build a test setting is the store's.
LEMMA StoreDecides ==
    ASSUME Added, build = "release", Initialized, NEW f \in TestSetting
    PROVE  First(f) = "Store"
<1>1. providers = <<"Store", "Qiniu">>
  BY DEF Added, Initialized, Plan
<1>2. Holding(f) = {1}
  BY <1>1 DEF Holding, hasFeature, TestSetting
<1> QED
  BY <1>1, <1>2 DEF First, Sooner

\* Nothing has been added, chosen or asked.
LEMMA InitInv == FlagsInit => IInv
<1> SUFFICES ASSUME FlagsInit PROVE IInv
  OBVIOUS
<1>1. Typed
  BY DEF FlagsInit, Typed, Stored, Read, NoRead
<1>2. Added /\ Picked /\ TestSettingsOff /\ ReadsAreAtomic
  BY DEF FlagsInit, Added, Picked, TestSettingsOff, ReadsAreAtomic, NoRead
<1> QED
  BY <1>1, <1>2 DEF IInv

\* A read under way hears of the new effective value, or nothing it depends on
\* has changed; everything else it knows is kept.
LEMMA ObserveType ==
    ASSUME IInv, Observe, \A f \in Feature : Effective(f)' \in BOOLEAN
    PROVE  read' \in Read
<1>1. CASE read.at = "picked"
  <2>1. {Effective(f)' : f \in {read.feature}} \subseteq BOOLEAN
    BY <1>1 DEF IInv, Picked
  <2>2. read \in Read
    BY DEF IInv, Typed, Stored
  <2> QED
    BY <1>1, <2>1, <2>2 DEF Observe, Read
<1>2. CASE read.at # "picked"
  BY <1>2 DEF Observe, IInv, Typed, Stored
<1> QED
  BY <1>1, <1>2

LEMMA ObserveKeeps ==
    ASSUME IInv, Observe
    PROVE  /\ read'.at = read.at /\ read'.feature = read.feature
           /\ read'.provider = read.provider /\ read'.value = read.value
           /\ read'.early = read.early
           /\ read.at = "picked" =>
                 /\ read.effective \subseteq read'.effective
                 /\ Effective(read.feature)' \in read'.effective
           /\ read.at # "picked" => read' = read
BY DEF Observe, IInv, Typed, Stored, Read

LEMMA AppendOne == ASSUME NEW x, NEW y PROVE Append(<<x>>, y) = <<x, y>>
<1>1. Append(<<x>>, y) \in Seq({x, y}) /\ <<x, y>> \in Seq({x, y})
  OBVIOUS
<1>2. Len(Append(<<x>>, y)) = 2 /\ Len(<<x, y>>) = 2
  OBVIOUS
<1>3. \A i \in 1..2 : Append(<<x>>, y)[i] = <<x, y>>[i]
  <2>1. \A i \in 1..2 : i = 1 \/ i = 2
    OBVIOUS
  <2> QED
    BY <2>1
<1> QED
  BY <1>1, <1>2, <1>3, SeqEqual

\* A provider is added only early; a release build's answers are fixed then.
LEMMA InitializeInv == ASSUME IInv, Initialize, Typed' PROVE IInv'
<1>1. Added'
  <2>1. CASE build = "debug"
    BY <2>1 DEF Added, Initialize
  <2>2. CASE build = "release"
    <3>1. Plan = <<"Store", "Qiniu">>
      BY <2>2 DEF Plan
    <3>2. /\ next \in 1..2 /\ next' = next + 1 /\ build' = build
          /\ providers' = Append(providers, Plan[next])
      BY <2>2, <3>1 DEF Initialize, Initialized, IInv, Added
    <3>3. CASE next = 1
      BY <2>2, <3>1, <3>2, <3>3 DEF IInv, Added
    <3>4. CASE next = 2
      <4>1. providers = <<"Store">> /\ Plan[next] = "Qiniu"
        BY <2>2, <3>1, <3>4 DEF IInv, Added
      <4>2. providers' = Append(<<"Store">>, "Qiniu")
        BY <3>2, <4>1
      <4>3. Append(<<"Store">>, "Qiniu") = <<"Store", "Qiniu">>
        BY AppendOne
      <4>4. next' = 3
        BY <3>2, <3>4
      <4>5. providers' = <<"Store", "Qiniu">>
        BY <4>2, <4>3, Zenon
      <4> QED
        BY <4>4, <4>5, Zenon DEF Added
    <3> QED
      BY <3>2, <3>3, <3>4
  <2> QED
    BY <2>1, <2>2 DEF IInv, Typed, Stored
<1>2. Observe /\ ~Initialized /\ build' = build
  BY DEF Initialize
<1>3. Picked'
  <2> SUFFICES ASSUME read'.at = "picked" PROVE Picked'
    BY DEF Picked
  <2>1. read.at = "picked"
    BY <1>2, ObserveKeeps
  <2>2. PICK f \in Feature : f = read.feature
    BY <2>1 DEF IInv, Picked
  <2>3. Effective(f) \in read.effective /\ read.early
    BY <1>2, <2>1, <2>2 DEF IInv, Picked, Typed, Stored, Read
  <2>4. build = "release" =>
            read.provider \in {Null, "Store"} /\ Fixed(read.provider, f) \in read.effective
    BY <1>2, <2>1, <2>2, <2>3, EarlyIsFixed DEF IInv, Picked
  <2>5. /\ read'.feature = f /\ read'.provider = read.provider /\ read'.early
        /\ read.effective \subseteq read'.effective
        /\ Effective(read.feature)' \in read'.effective
    BY <1>2, <2>1, <2>2, <2>3, ObserveKeeps
  <2>6. build' \in {"debug", "release"}
    BY DEF Typed, Stored
  <2> QED
    BY <1>2, <2>4, <2>5, <2>6 DEF Picked, Fixed
<1>4. TestSettingsOff' /\ ReadsAreAtomic'
  <2>1. read.at # "picked" => read' = read
    BY <1>2, ObserveKeeps
  <2>2. read'.at = read.at
    BY <1>2, ObserveKeeps
  <2> QED
    BY <1>2, <2>1, <2>2 DEF IInv, TestSettingsOff, ReadsAreAtomic
<1> QED
  BY <1>1, <1>3, <1>4 DEF IInv

\* While the providers stay, so does the one that comes first.
LEMMA SameFirst ==
    ASSUME UNCHANGED providers, NEW f PROVE First(f)' = First(f)
BY DEF First, Holding, Sooner

\* What changes under an unfinished read, other than the providers, is heard.
LEMMA HeardInv ==
    ASSUME IInv, Observe, UNCHANGED <<build, next, providers>>, Typed'
    PROVE  IInv'
<1>1. Added' /\ Initialized' = Initialized
  BY DEF IInv, Added, Initialized, Plan
<1>2. Picked'
  <2> SUFFICES ASSUME read'.at = "picked" PROVE Picked'
    BY DEF Picked
  <2>1. read.at = "picked"
    BY ObserveKeeps
  <2>2. PICK f \in Feature : f = read.feature
    BY <2>1 DEF IInv, Picked
  <2>3. /\ read'.feature = f /\ read'.provider = read.provider /\ read'.early = read.early
        /\ read.effective \subseteq read'.effective
        /\ Effective(read.feature)' \in read'.effective
    BY <2>1, <2>2, ObserveKeeps
  <2>4. First(f)' = First(f)
    BY SameFirst
  <2>5. First(read.feature)' = First(f)
    BY <2>3, <2>4
  <2>6. /\ ~read.early => Initialized
        /\ \/ read.provider = First(f)
           \/ /\ build = "release" /\ read.early
              /\ read.provider \in {Null, "Store"}
              /\ Fixed(read.provider, f) \in read.effective
           \/ build = "debug" /\ read.early
    BY <2>1, <2>2 DEF IInv, Picked
  <2> QED
    BY <1>1, <2>3, <2>5, <2>6 DEF Picked, Fixed
<1>3. TestSettingsOff' /\ ReadsAreAtomic'
  BY ObserveKeeps DEF IInv, TestSettingsOff, ReadsAreAtomic
<1> QED
  BY <1>1, <1>2, <1>3 DEF IInv

\* Nothing changes that a read looks at.
LEMMA QuietInv ==
    ASSUME IInv, UNCHANGED <<build, next, providers, prefs, data, read>>, Typed'
    PROVE  IInv'
<1>1. \A f : First(f)' = First(f) /\ Effective(f)' = Effective(f)
  BY SameFirst DEF Effective, ProviderEnabled, Chosen, Remote
<1> QED
  BY <1>1 DEF IInv, Added, Picked, TestSettingsOff, ReadsAreAtomic, Initialized, Plan

\* The provider comes from the list as it is now.
LEMMA PickInv == ASSUME IInv, NEW f \in Feature, Pick(f) PROVE IInv'
<1>1. First(f) \in Provider \cup {Null}
  BY FirstIsLeast DEF IInv, Typed, Stored, First
<1>2. Effective(f) \in BOOLEAN
  BY EffectiveType DEF IInv, Typed
<1>3. read' \in Read
  BY <1>1, <1>2 DEF Pick, Read, Initialized
<1>4. Typed' /\ Added'
  BY <1>3 DEF Pick, IInv, Typed, Stored, Added
<1>5. /\ read'.at = "picked" /\ read'.feature = f /\ read'.provider = First(f)
      /\ read'.early = ~Initialized /\ read'.effective = {Effective(f)}
  BY DEF Pick
<1>6. First(f)' = First(f) /\ Initialized' = Initialized
  BY SameFirst DEF Pick, Initialized, Plan
<1>7. Effective(f)' = Effective(f)
  BY DEF Pick, Effective, ProviderEnabled, Chosen, Remote
<1>8. First(read.feature)' = First(f) /\ Effective(read.feature)' = Effective(f)
  BY <1>5, <1>6, <1>7
<1>9. Picked'
  BY <1>5, <1>6, <1>8 DEF Picked
<1>10. TestSettingsOff' /\ ReadsAreAtomic'
  BY <1>5 DEF TestSettingsOff, ReadsAreAtomic
<1> QED
  BY <1>4, <1>9, <1>10 DEF IInv

\* The answer is what is effective, or the fixed one.
LEMMA AnswerInv == ASSUME IInv, Answer PROVE IInv'
<1> DEFINE answer == IF read.provider = Null THEN defaultValue[read.feature]
                     ELSE ProviderEnabled(read.provider, read.feature)
<1>1. read.feature \in Feature /\ read \in Read
  BY DEF Answer, IInv, Picked, Typed, Stored
<1>2. answer \in BOOLEAN
  BY <1>1, EnabledType DEF IInv, Typed
<1>3. read' = [read EXCEPT !.at = "answered", !.value = answer]
  BY DEF Answer
<1>4. read' \in Read
  <2> HIDE DEF answer
  <2> QED
    BY <1>1, <1>2, <1>3 DEF Read
<1>5. /\ read'.at = "answered" /\ read'.value = answer /\ read'.early = read.early
      /\ read'.feature = read.feature /\ read'.effective = read.effective
  <2> HIDE DEF answer
  <2> QED
    BY <1>1, <1>3 DEF Read
<1>6. Typed' /\ Added' /\ Picked' /\ build' = build
  BY <1>4, <1>5 DEF Answer, IInv, Typed, Stored, Added, Picked
<1>7. Effective(read.feature) = IF First(read.feature) = Null THEN defaultValue[read.feature]
                                ELSE ProviderEnabled(First(read.feature), read.feature)
  BY <1>1, FirstDecides DEF IInv, Typed, Stored
<1>8. ReadsAreAtomic'
  <2>1. CASE read.provider = First(read.feature)
    BY <1>5, <1>7, <2>1 DEF Answer, IInv, Picked, ReadsAreAtomic
  <2>2. CASE /\ read.provider \in {Null, "Store"}
             /\ Fixed(read.provider, read.feature) \in read.effective
    <3>1. answer = Fixed(read.provider, read.feature)
      BY <2>2, NoneIsNoProvider DEF Fixed, ProviderEnabled, Provider
    <3> QED
      BY <1>5, <2>2, <3>1 DEF ReadsAreAtomic
  <2>3. CASE build = "debug" /\ read.early
    BY <1>5, <1>6, <2>3 DEF ReadsAreAtomic
  <2> QED
    BY <2>1, <2>2, <2>3 DEF Answer, IInv, Picked
<1>9. TestSettingsOff'
  <2> SUFFICES ASSUME build = "release", ~read.early, read.feature \in TestSetting
               PROVE  answer = FALSE
    BY <1>5, <1>6 DEF TestSettingsOff
  <2>1. read.provider = First(read.feature) /\ Initialized
    BY DEF Answer, IInv, Picked
  <2>2. read.provider = "Store"
    BY <2>1, StoreDecides DEF IInv
  <2> QED
    BY <2>2, NoneIsNoProvider DEF ProviderEnabled, Provider
<1> QED
  BY <1>6, <1>8, <1>9 DEF IInv

\* What is stored keeps its types.
LEMMA StoredStep == ASSUME IInv, [FlagsNext]_flagsVars PROVE Stored'
<1> USE DEF IInv, Typed, Stored
<1>1. CASE Initialize
  <2>1. Plan[next] \in Provider
    <3>1. build = "debug" => Plan = <<"Runtime", "Test", "Qiniu">>
      BY DEF Plan
    <3>2. build = "release" => Plan = <<"Store", "Qiniu">>
      BY DEF Plan
    <3>3. next \in 1..Len(Plan)
      BY <1>1 DEF Initialize, Initialized
    <3> QED
      BY <3>1, <3>2, <3>3 DEF Provider
  <2> QED
    BY <1>1, <2>1 DEF Initialize
<1>2. CASE Refresh \/ Written \/ Answer \/ UNCHANGED flagsVars
  BY <1>2 DEF Refresh, Written, Answer, flagsVars
<1>3. CASE Fetched
  BY <1>3 DEF Fetched, Parsed
<1>4. CASE ProcessDies
  BY <1>4 DEF ProcessDies
<1>5. ASSUME NEW f \in Feature, NEW enabled \in BOOLEAN, Toggle(f, enabled) PROVE Stored'
  BY <1>5 DEF Toggle
<1>6. ASSUME NEW f \in Feature, Pick(f) PROVE Stored'
  BY <1>6 DEF Pick
<1> QED
  BY <1>1, <1>2, <1>3, <1>4, <1>5, <1>6 DEF FlagsNext

\* A process that ends takes its reads with it.
LEMMA ProcessEndsInv == ASSUME IInv, ProcessDies, Stored' PROVE IInv'
<1>1. read' \in Read /\ read'.at = "idle"
  BY DEF ProcessDies, NoRead, Read
<1>2. Added'
  BY DEF ProcessDies, Added
<1> QED
  BY <1>1, <1>2 DEF IInv, Typed, Picked, TestSettingsOff, ReadsAreAtomic

LEMMA StepInv == IInv /\ [FlagsNext]_flagsVars => IInv'
<1> SUFFICES ASSUME IInv, [FlagsNext]_flagsVars PROVE IInv'
  OBVIOUS
<1>1. Stored'
  BY StoredStep
<1>2. (\A f \in Feature : Effective(f) \in BOOLEAN)'
  BY <1>1, EffectiveType, PTL
<1>3. Observe => Typed'
  BY <1>1, <1>2, ObserveType DEF Typed
<1>4. read' = read => Typed'
  BY <1>1 DEF IInv, Typed
<1>5. CASE Initialize
  BY <1>3, <1>5, InitializeInv DEF Initialize
<1>6. CASE Refresh \/ Written \/ UNCHANGED flagsVars
  BY <1>4, <1>6, QuietInv DEF Refresh, Written, flagsVars
<1>7. CASE Fetched
  BY <1>3, <1>7, HeardInv DEF Fetched
<1>8. ASSUME NEW f \in Feature, NEW enabled \in BOOLEAN, Toggle(f, enabled) PROVE IInv'
  BY <1>3, <1>8, HeardInv DEF Toggle
<1>9. CASE ProcessDies
  BY <1>1, <1>9, ProcessEndsInv
<1>10. ASSUME NEW f \in Feature, Pick(f) PROVE IInv'
  BY <1>10, PickInv
<1>11. CASE Answer
  BY <1>11, AnswerInv
<1> QED
  BY <1>5, <1>6, <1>7, <1>8, <1>9, <1>10, <1>11 DEF FlagsNext

\* In a release build no read that begins after initialize has returned turns
\* a test setting on, for any server, defaults and number of fetches
\* (RuntimeBehavior.isFeatureEnabled over StoreFeatureFlagProvider).
THEOREM TestSettingsStayOff == FlagsSpec => []TestSettingsOff
<1>1. IInv => TestSettingsOff
  BY DEF IInv
<1> QED
  BY <1>1, InitInv, StepInv, PTL DEF FlagsSpec

\* A read of isFeatureEnabled, which takes no lock between choosing a provider
\* and asking it, answers what was effective at some moment of it.
THEOREM ReadsAreOfOneMoment == FlagsSpec => []ReadsAreAtomic
<1>1. IInv => ReadsAreAtomic
  BY DEF IInv
<1> QED
  BY <1>1, InitInv, StepInv, PTL DEF FlagsSpec
=============================================================================
