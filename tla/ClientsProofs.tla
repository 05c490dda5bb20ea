---------------------------- MODULE ClientsProofs -----------------------------
(***************************************************************************)
(* What is proved of the SDK, of the observer of a voice call and of the   *)
(* rate limiters holds where Clients composes them: each step of Clients   *)
(* is a step of the part, or leaves it alone.                              *)
(***************************************************************************)
EXTENDS Clients, TsSdkProofs, LiveKitObserverProofs, RateLimiterProofs

-----------------------------------------------------------------------------
(* The SDK *)

LEMMA SdkPart == [ClientsNext]_clientVars => [SdkNext]_sdkVars
<1>1. ASSUME ClientsNext PROVE [SdkNext]_sdkVars
  BY <1>1 DEF ClientsNext, Others, SdkNext
<1>2. ASSUME UNCHANGED clientVars PROVE UNCHANGED sdkVars
  BY <1>2 DEF clientVars
<1> QED
  BY <1>1, <1>2

\* Whatever scene is played, the contexts and calls of the SDK behave as TsSdk says.
THEOREM ClientsPlaySdk == ClientsSpec => SdkSpec
<1>1. ClientsInit => SdkInit
  BY DEF ClientsInit
<1> QED
  BY <1>1, SdkPart, PTL DEF ClientsSpec, SdkSpec

\* In every behaviour of the clients the SDK links an event only to one of its context.
THEOREM ClientsLinksCausal == ClientsSpec => LinksAreCausal
  BY ClientsPlaySdk, LinksFollowContexts, PTL

\* Logs that are awaited one by one form a chain.
THEOREM ClientsLogsChain == ClientsSpec => []AwaitedLogsFormAChain
  BY ClientsPlaySdk, AwaitedLogsChain, PTL

-----------------------------------------------------------------------------
(* The observer of a voice call *)

LEMMA ObserverPart == [ClientsNext]_clientVars => [ObserverNext]_observerVars
<1>1. ASSUME ClientsNext PROVE [ObserverNext]_observerVars
  BY <1>1 DEF ClientsNext, Others
<1>2. ASSUME UNCHANGED clientVars PROVE UNCHANGED observerVars
  BY <1>2 DEF clientVars
<1> QED
  BY <1>1, <1>2

\* Whatever scene is played, the observer behaves as LiveKitObserver says.
THEOREM ClientsPlayObserver == ClientsSpec => ObserverSpec
<1>1. ClientsInit => ObserverInit
  BY DEF ClientsInit
<1> QED
  BY <1>1, ObserverPart, PTL DEF ClientsSpec, ObserverSpec

\* The events the observer had acknowledged form a single strand.
THEOREM ClientsSingleStrand == ClientsSpec => []AckedStrandIsSingle
  BY ClientsPlayObserver, SingleStrand, PTL

\* No turn of a call is recorded twice.
THEOREM ClientsRecordedOnce == ClientsSpec => []TurnsRecordedOnce
  BY ClientsPlayObserver, RecordedOnce, PTL

-----------------------------------------------------------------------------
(* The rate limiters *)

\* Clients plays one limiter at a time, as a route of its own.
LEMMA LimiterPart ==
  ASSUME KeysApart, LimiterInv, [ClientsNext]_clientVars
  PROVE  LimiterInv'
<1>1. CASE scene \in Limiters /\ LimiterNext({<<scene>>})
  <2>1. <<scene>> \in Seq(Limiters)
    BY <1>1
  <2>2. {<<scene>>} \in SUBSET Seq(Limiters)
    BY <2>1
  <2> QED
    BY <1>1, <2>2, LimiterStep
<1>2. CASE UNCHANGED limiterVars
  <2>1. {} \in SUBSET Seq(Limiters)
    OBVIOUS
  <2> QED
    BY <1>2, <2>1, LimiterStep
<1>3. ClientsNext => (scene \in Limiters /\ LimiterNext({<<scene>>})) \/ UNCHANGED limiterVars
  BY DEF ClientsNext, Others
<1>4. UNCHANGED clientVars => UNCHANGED limiterVars
  BY DEF clientVars
<1> QED
  BY <1>1, <1>2, <1>3, <1>4

\* Limiters that count under keys of their own are not overshot by more than the calls
\* that overlap.
THEOREM ClientsOvershootBounded ==
  ASSUME KeysApart
  PROVE  ClientsSpec => []OvershootBounded
<1>1. ClientsInit => LimiterInv
  BY LimiterInitInv DEF ClientsInit
<1>2. LimiterInv /\ [ClientsNext]_clientVars => LimiterInv'
  BY LimiterPart
<1> QED
  BY <1>1, <1>2, Bounded, PTL DEF ClientsSpec
=============================================================================
