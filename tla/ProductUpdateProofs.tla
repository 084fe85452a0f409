-------------------------- MODULE ProductUpdateProofs --------------------------
(***************************************************************************)
(* The mote's registrations, for any size of the engines' pools and any    *)
(* number of losses.                                                       *)
(***************************************************************************)
EXTENDS ProductUpdate, FiniteSetTheorems, TLAPS

UpdateInv == UpdateTypeOK /\ ObsIsLive /\ LeaksBounded

(* All sets of tokens are finite. *)
LEMMA TokensFinite ==
  ASSUME NEW S \in SUBSET Tokens
  PROVE  IsFiniteSet(S) /\ Cardinality(S) \in Nat
BY UpdateAssumption, FS_Subset, FS_CardinalityType

(* Tokens never run out. *)
LEMMA FreshTokenExists ==
  ASSUME UpdateTypeOK
  PROVE  FreshTokens # {}
<1>1. SUFFICES ASSUME Tokens \subseteq (observees \cup observers) \cup notices
               PROVE  FALSE
  BY DEF FreshTokens
<1>. DEFINE S == observees \cup observers
<1>2. /\ observees \in SUBSET Tokens /\ observers \in SUBSET Tokens
      /\ notices \in SUBSET Tokens /\ S \in SUBSET Tokens
      /\ observees \cap observers \in SUBSET Tokens /\ S \cap notices \in SUBSET Tokens
      /\ Tokens \in SUBSET Tokens
      /\ Cardinality(observees) <= POOL /\ Cardinality(observers) <= MAX_OBSERVERS
      /\ Cardinality(notices) <= MaxNotices
  BY DEF UpdateTypeOK
<1>3. /\ IsFiniteSet(observees) /\ Cardinality(observees) \in Nat
      /\ IsFiniteSet(observers) /\ Cardinality(observers) \in Nat
      /\ IsFiniteSet(notices) /\ Cardinality(notices) \in Nat
      /\ IsFiniteSet(S) /\ Cardinality(S) \in Nat
      /\ Cardinality(observees \cap observers) \in Nat
      /\ Cardinality(S \cap notices) \in Nat
      /\ Cardinality(Tokens) \in Nat
  BY ONLY <1>2, TokensFinite
<1>4. Cardinality(S) <= Cardinality(observees) + Cardinality(observers)
  <2>1. Cardinality(S) = Cardinality(observees) + Cardinality(observers)
                         - Cardinality(observees \cap observers)
    BY <1>3, FS_Union
  <2>. QED  BY <1>3, <2>1
<1>5. Cardinality(S \cup notices) <= Cardinality(S) + Cardinality(notices)
  <2>1. Cardinality(S \cup notices) = Cardinality(S) + Cardinality(notices)
                                      - Cardinality(S \cap notices)
    BY <1>3, FS_Union
  <2>. QED  BY <1>3, <2>1
<1>6. S \cup notices = Tokens
  BY <1>1, <1>2
<1>7. Cardinality(S \cup notices) = Cardinality(Tokens)
  BY <1>6
<1>8. /\ Cardinality(Tokens) > POOL + MAX_OBSERVERS + MaxNotices
      /\ POOL \in Nat /\ MAX_OBSERVERS \in Nat /\ MaxNotices \in Nat
  BY UpdateAssumption
<1>. HIDE DEF S
<1>. QED  BY <1>2, <1>3, <1>4, <1>5, <1>7, <1>8

(* At first nothing is registered, sent or lost. *)
LEMMA InitiallyRegistered == UpdateInit => UpdateInv
<1>. SUFFICES ASSUME UpdateInit PROVE UpdateInv
  OBVIOUS
<1>1. Cardinality({}) = 0 /\ {} \ {NULL} = {}
  BY FS_EmptySet
<1>. QED  BY <1>1, UpdateAssumption
          DEF UpdateInit, UpdateInv, UpdateTypeOK, ObsIsLive, LeaksBounded

(* The route is lost: the registration of the mote joins the leaked ones. *)
LEMMA WakeUnreachableKeeps ==
  ASSUME UpdateInv, WakeUnreachable
  PROVE  UpdateInv'
<1>. USE DEF UpdateInv
<1>1. /\ obs' = NULL /\ observees' = observees /\ requested' = requested
      /\ observers' = observers /\ notices' = notices /\ reachable' = reachable
      /\ losses' = IF obs = NULL THEN losses ELSE losses + 1
      /\ obs = NULL \/ losses < MaxLosses
  BY DEF WakeUnreachable, netVars, engineVars
<1>2. observees \in SUBSET Tokens /\ losses \in Nat /\ NULL \notin observees
  BY UpdateAssumption DEF UpdateTypeOK
<1>3. IsFiniteSet(observees) /\ Cardinality(observees) \in Nat
  BY <1>2, TokensFinite
<1>4. Cardinality(observees \ {NULL}) <= losses'
  <2>1. observees \ {NULL} = observees
    BY <1>2
  <2>2. CASE obs = NULL
    BY <1>1, <2>1, <2>2 DEF LeaksBounded
  <2>3. CASE obs # NULL
    <3>1. Cardinality(observees \ {obs}) = Cardinality(observees) - 1
      BY <1>3, <2>3, FS_RemoveElement DEF ObsIsLive
    <3>2. Cardinality(observees) - 1 <= losses
      BY <3>1 DEF LeaksBounded
    <3>3. Cardinality(observees) <= losses + 1
      BY <1>2, <1>3, <3>2
    <3>. QED  BY <1>1, <2>1, <2>3, <3>3
  <2>. QED  BY <2>2, <2>3
<1>. QED  BY <1>1, <1>2, <1>4, UpdateAssumption DEF UpdateTypeOK, ObsIsLive, LeaksBounded

(* A new registration takes the place of none, and is not leaked. *)
LEMMA WakeReachableKeeps ==
  ASSUME UpdateInv, WakeReachable
  PROVE  UpdateInv'
<1>. USE DEF UpdateInv
<1>1. /\ observers' = observers /\ notices' = notices /\ reachable' = reachable
      /\ losses' = losses
  BY DEF WakeReachable, netVars
<1>2. CASE obs # NULL
  BY <1>1, <1>2 DEF WakeReachable, engineVars, UpdateTypeOK, ObsIsLive, LeaksBounded
<1>3. CASE obs = NULL /\ Cardinality(observees) = POOL
  BY <1>1, <1>3
     DEF WakeReachable, RequestRegistration, engineVars, UpdateTypeOK, ObsIsLive, LeaksBounded
<1>4. CASE obs = NULL /\ Cardinality(observees) # POOL
  <2>. DEFINE t == CHOOSE t \in FreshTokens : TRUE
  <2>1. t \in Tokens /\ t \notin observees
    BY FreshTokenExists DEF FreshTokens
  <2>2. /\ obs' = t /\ observees' = observees \cup {t}
        /\ requested' = requested \cup {t}
    BY <1>4 DEF WakeReachable, RequestRegistration
  <2>. HIDE DEF t
  <2>3. observees \in SUBSET Tokens /\ NULL \notin observees
    BY UpdateAssumption DEF UpdateTypeOK
  <2>4. IsFiniteSet(observees) /\ Cardinality(observees) \in Nat
    BY <2>3, TokensFinite
  <2>5. Cardinality(observees') = Cardinality(observees) + 1
    BY <2>1, <2>2, <2>4, FS_AddElement
  <2>6. Cardinality(observees') <= POOL
    BY <1>4, <2>4, <2>5, UpdateAssumption DEF UpdateTypeOK
  <2>7. observees' \ {obs'} = observees \ {obs}
    BY <1>4, <2>1, <2>2, <2>3
  <2>. QED  BY <1>1, <2>1, <2>2, <2>6, <2>7 DEF UpdateTypeOK, ObsIsLive, LeaksBounded
<1>. QED  BY <1>2, <1>3, <1>4

(* The error of one registration makes the mote forget another at most: one   *)
(* goes, one is leaked.                                                       *)
LEMMA RegistrationFailsKeeps ==
  ASSUME UpdateInv, NEW t \in Tokens, RegistrationFails(t)
  PROVE  UpdateInv'
<1>. USE DEF UpdateInv
<1>1. /\ t \in observees /\ obs' = NULL /\ observees' = observees \ {t}
      /\ requested' = requested \ {t} /\ observers' = observers /\ notices' = notices
      /\ reachable' = reachable /\ losses' = losses
  BY DEF RegistrationFails, NotificationCallback, netVars, UpdateTypeOK
<1>2. observees \in SUBSET Tokens /\ NULL \notin observees /\ losses \in Nat
  BY UpdateAssumption DEF UpdateTypeOK
<1>3. IsFiniteSet(observees) /\ Cardinality(observees) \in Nat
  BY <1>2, TokensFinite
<1>4. Cardinality(observees \ {t}) = Cardinality(observees) - 1
  BY <1>1, <1>3, FS_RemoveElement
<1>5. (observees \ {t}) \ {NULL} = observees \ {t} /\ observees \ {NULL} = observees
  BY <1>2
<1>6. Cardinality(observees') <= POOL
  BY <1>1, <1>3, <1>4, UpdateAssumption DEF UpdateTypeOK
<1>7. Cardinality(observees \ {t}) <= losses
  <2>1. CASE obs = NULL
    <3>1. Cardinality(observees) <= losses
      BY <1>5, <2>1 DEF LeaksBounded
    <3>. QED  BY <1>2, <1>3, <1>4, <3>1
  <2>2. CASE obs # NULL
    <3>1. Cardinality(observees \ {obs}) = Cardinality(observees) - 1
      BY <1>3, <2>2, FS_RemoveElement DEF ObsIsLive
    <3>. QED  BY <1>4, <3>1 DEF LeaksBounded
  <2>. QED  BY <2>1, <2>2
<1>. QED  BY <1>1, <1>2, <1>5, <1>6, <1>7 DEF UpdateTypeOK, ObsIsLive, LeaksBounded

(* The rest leaves the mote's registrations alone. *)
LEMMA ServerKeeps ==
  ASSUME UpdateInv, NEW t \in Tokens,
         TakeRegistration(t) \/ RegistrationAnswered(t) \/ TakeNotice(t) \/ DropObserver(t)
           \/ LoseNotice(t)
  PROVE  UpdateInv'
<1>. USE DEF UpdateInv
<1>1. /\ obs' = obs /\ observees' = observees /\ requested' \subseteq requested
      /\ losses' = losses /\ reachable' = reachable
  BY DEF TakeRegistration, RegistrationAnswered, TakeNotice, DropObserver, LoseNotice,
         NotificationCallback, netVars, engineVars
<1>2. observers \in SUBSET Tokens /\ notices \in SUBSET Tokens
  BY DEF UpdateTypeOK
<1>3. /\ IsFiniteSet(observers) /\ Cardinality(observers) \in Nat
      /\ IsFiniteSet(notices) /\ Cardinality(notices) \in Nat
  BY <1>2, TokensFinite
<1>4. observers' \subseteq Tokens /\ Cardinality(observers') <= MAX_OBSERVERS
  <2>1. CASE TakeRegistration(t)
    BY <1>2, <2>1 DEF TakeRegistration
  <2>2. CASE observers' = observers
    BY <1>2, <2>2 DEF UpdateTypeOK
  <2>3. CASE observers' = observers \ {t}
    <3>1. Cardinality(observers \ {t}) <= Cardinality(observers)
      BY <1>3, FS_Subset, observers \ {t} \in SUBSET observers
    <3>2. Cardinality(observers \ {t}) \in Nat
      BY <1>2, TokensFinite
    <3>3. Cardinality(observers) <= MAX_OBSERVERS /\ MAX_OBSERVERS \in Nat
      BY UpdateAssumption DEF UpdateTypeOK
    <3>4. Cardinality(observers \ {t}) <= MAX_OBSERVERS
      BY <1>3, <3>1, <3>2, <3>3
    <3>. QED  BY <1>2, <2>3, <3>4
  <2>. QED  BY <2>1, <2>2, <2>3
            DEF RegistrationAnswered, TakeNotice, DropObserver, LoseNotice
<1>5. notices' \subseteq Tokens /\ Cardinality(notices') <= MaxNotices
  <2>1. CASE notices' = notices
    BY <1>2, <2>1 DEF UpdateTypeOK
  <2>2. CASE notices' = notices \ {t}
    <3>1. Cardinality(notices \ {t}) <= Cardinality(notices)
      BY <1>3, FS_Subset, notices \ {t} \in SUBSET notices
    <3>2. Cardinality(notices \ {t}) \in Nat
      BY <1>2, TokensFinite
    <3>3. Cardinality(notices) <= MaxNotices /\ MaxNotices \in Nat
      BY UpdateAssumption DEF UpdateTypeOK
    <3>4. Cardinality(notices \ {t}) <= MaxNotices
      BY <1>3, <3>1, <3>2, <3>3
    <3>. QED  BY <1>2, <2>2, <3>4
  <2>. QED  BY <2>1, <2>2
            DEF TakeRegistration, RegistrationAnswered, TakeNotice, DropObserver, LoseNotice,
                netVars
<1>. QED  BY <1>1, <1>4, <1>5 DEF UpdateTypeOK, ObsIsLive, LeaksBounded

(* Every handler of the mote and of the two engines keeps the invariant, ... *)
LEMMA UpdateInductive ==
  ASSUME UpdateInv, [UpdateNext]_updateVars
  PROVE  UpdateInv'
<1>1. CASE WakeUnreachable
  BY <1>1, WakeUnreachableKeeps
<1>2. CASE WakeReachable
  BY <1>2, WakeReachableKeeps
<1>3. ASSUME NEW t \in Tokens,
             TakeRegistration(t) \/ RegistrationAnswered(t) \/ RegistrationFails(t)
               \/ TakeNotice(t) \/ DropObserver(t) \/ LoseNotice(t)
      PROVE  UpdateInv'
  BY <1>3, RegistrationFailsKeeps, ServerKeeps
<1>4. CASE RouteChange \/ UNCHANGED updateVars
  BY <1>4 DEF UpdateInv, RouteChange, updateVars, engineVars, UpdateTypeOK, ObsIsLive,
              LeaksBounded
<1>5. CASE Trigger
  BY <1>5 DEF UpdateInv, Trigger, engineVars, UpdateTypeOK, ObsIsLive, LeaksBounded
<1>. QED  BY <1>1, <1>2, <1>3, <1>4, <1>5 DEF UpdateNext

(* ... so it holds throughout. *)
LEMMA RegistrationsInductive == UpdateSpec => []UpdateInv
<1>1. UpdateInv /\ [UpdateNext]_updateVars => UpdateInv'
  BY UpdateInductive
<1>. QED  BY <1>1, InitiallyRegistered, PTL DEF UpdateSpec

(* Whatever is lost, refused or late, no pool and no list of the engines ever *)
(* holds more than it has room for.                                           *)
THEOREM PoolsHold == UpdateSpec => []UpdateTypeOK
<1>1. UpdateInv => UpdateTypeOK
  BY DEF UpdateInv
<1>. QED  BY <1>1, RegistrationsInductive, PTL

(* The registration the mote knows of is one that exists, although the engine *)
(* frees registrations on its own and reports errors of any of them.          *)
THEOREM KnownIsLive == UpdateSpec => []ObsIsLive
<1>1. UpdateInv => ObsIsLive
  BY DEF UpdateInv
<1>. QED  BY <1>1, RegistrationsInductive, PTL

(* Only losses of the route leak registrations, one each: an error of an old  *)
(* registration, which makes the mote forget a newer one, leaks none on top.  *)
THEOREM RegistrationsKept == UpdateSpec => []LeaksBounded
<1>1. UpdateInv => LeaksBounded
  BY DEF UpdateInv
<1>. QED  BY <1>1, RegistrationsInductive, PTL
=============================================================================
