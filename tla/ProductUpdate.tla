---------------------------- MODULE ProductUpdate ----------------------------
(***************************************************************************)
(* Product updates: the server's observable resource and the registration  *)
(* that a mote keeps with it.                                              *)
(*                                                                         *)
(* The observe part of the CoAP engine is external, on both sides.  The    *)
(* mote's engine keeps a pool of registrations, each with a token, and     *)
(* calls notification_callback for any of them; after an error it drops    *)
(* the registration.  The server's engine keeps a list of observers, which *)
(* it may shorten, and drops one whose notification the mote rejects.      *)
(***************************************************************************)
EXTENDS Naturals, FiniteSets

CONSTANTS
  Tokens,
  POOL,         \* registrations the mote's engine has room for
  MAX_OBSERVERS,\* observers the server's engine has room for
  MaxLosses,    \* bound: how often a mote with a registration loses its route
  MaxNotices,   \* bound: notifications on the air
  NULL

ASSUME UpdateAssumption ==
  /\ POOL \in Nat \ {0} /\ MAX_OBSERVERS \in Nat \ {0}
  /\ MaxLosses \in Nat /\ MaxNotices \in Nat
  /\ IsFiniteSet(Tokens) /\ NULL \notin Tokens
  /\ Cardinality(Tokens) > POOL + MAX_OBSERVERS + MaxNotices

VARIABLES
  reachable,    \* the routing layer has a route to the server
  obs,          \* the registration the mote knows of
  observees,    \* the registrations its engine keeps
  requested,    \* those the server has not answered yet
  observers,    \* the server's list
  notices,      \* notifications on the air, by token
  losses        \* registrations given up for want of a route (history)

netVars    == <<reachable, notices>>
engineVars == <<observees, requested>>
updateVars == <<reachable, obs, observees, requested, observers, notices, losses>>

UpdateTypeOK ==
  /\ reachable \in BOOLEAN
  /\ obs \in Tokens \cup {NULL}
  /\ requested \subseteq observees /\ observees \subseteq Tokens
  /\ Cardinality(observees) <= POOL
  /\ observers \subseteq Tokens /\ Cardinality(observers) <= MAX_OBSERVERS
  /\ notices \subseteq Tokens /\ Cardinality(notices) <= MaxNotices
  /\ losses \in 0 .. MaxLosses

UpdateInit ==
  /\ reachable \in BOOLEAN
  /\ obs = NULL
  /\ observees = {} /\ requested = {}
  /\ observers = {} /\ notices = {}
  /\ losses = 0

-----------------------------------------------------------------------------
(* The mote's process, each time its timer has expired.                     *)

(* No route: the pointer is cleared; the engine is told nothing. *)
WakeUnreachable ==
  /\ ~reachable
  /\ obs = NULL \/ losses < MaxLosses
  /\ obs' = NULL
  /\ losses' = IF obs = NULL THEN losses ELSE losses + 1
  /\ UNCHANGED <<netVars, engineVars, observers>>

FreshTokens == Tokens \ (observees \cup observers \cup notices)

(* Seeded fault: the pool has no end. *)
RequestRegistration_endless ==
  /\ obs' = CHOOSE t \in FreshTokens : TRUE
  /\ observees' = observees \cup {obs'}
  /\ requested' = requested \cup {obs'}

(* coap_obs_request_registration: NULL if the pool is full. *)
RequestRegistration ==
  IF Cardinality(observees) = POOL
  THEN obs' = NULL /\ UNCHANGED engineVars
  ELSE /\ obs' = CHOOSE t \in FreshTokens : TRUE
       /\ observees' = observees \cup {obs'}
       /\ requested' = requested \cup {obs'}

(* Seeded fault: registers on every pass. *)
WakeReachable_always ==
  /\ reachable
  /\ RequestRegistration
  /\ UNCHANGED <<netVars, observers, losses>>

(* A route: the mote registers unless it knows of a registration. *)
WakeReachable ==
  /\ reachable
  /\ IF obs = NULL THEN RequestRegistration ELSE UNCHANGED <<obs, engineVars>>
  /\ UNCHANGED <<netVars, observers, losses>>

(* Seeded fault: the error is logged and no more. *)
NotificationCallback_logs(flag) == UNCHANGED obs

(* notification_callback, which does not look at the registration it is *)
(* called for.                                                          *)
NotificationCallback(flag) ==
  IF flag \in {"NOTIFICATION_OK", "OBSERVE_OK"} THEN UNCHANGED obs ELSE obs' = NULL

-----------------------------------------------------------------------------
(* The engines.                                                             *)

(* The server takes a registration; an older one of the mote may go. *)
TakeRegistration(t) ==
  /\ t \in requested
  /\ observers' \in {observers \cup {t}, {t}}
  /\ Cardinality(observers') <= MAX_OBSERVERS
  /\ UNCHANGED <<netVars, obs, engineVars, losses>>

(* Its answer arrives. *)
RegistrationAnswered(t) ==
  /\ t \in requested \cap observers
  /\ NotificationCallback("OBSERVE_OK")
  /\ requested' = requested \ {t}
  /\ UNCHANGED <<netVars, observees, observers, losses>>

(* It is refused, or no answer arrives, whether or not the server took it. *)
RegistrationFails(t) ==
  /\ t \in requested
  /\ \E flag \in {"OBSERVE_NOT_SUPPORTED", "ERROR_RESPONSE_CODE", "NO_REPLY_FROM_SERVER"} :
       NotificationCallback(flag)
  /\ observees' = observees \ {t}
  /\ requested' = requested \ {t}
  /\ UNCHANGED <<netVars, observers, losses>>

(* A notification arrives.  The mote's engine rejects one it has no *)
(* registration for.                                                *)
TakeNotice(t) ==
  /\ t \in notices
  /\ notices' = notices \ {t}
  /\ IF t \in observees
     THEN NotificationCallback("NOTIFICATION_OK") /\ UNCHANGED observers
     ELSE observers' = observers \ {t} /\ UNCHANGED obs
  /\ UNCHANGED <<reachable, engineVars, losses>>

(* The server drops an observer that does not answer. *)
DropObserver(t) ==
  /\ t \in observers
  /\ observers' = observers \ {t}
  /\ UNCHANGED <<netVars, obs, engineVars, losses>>

LoseNotice(t) ==
  /\ t \in notices
  /\ notices' = notices \ {t}
  /\ UNCHANGED <<reachable, obs, engineVars, observers, losses>>

RouteChange ==
  /\ reachable' = ~reachable
  /\ UNCHANGED <<obs, engineVars, observers, notices, losses>>

-----------------------------------------------------------------------------
(* The server's process: every 180 seconds the resource is triggered, which *)
(* sends the one product it knows to everyone on the list.                   *)
Trigger ==
  /\ Cardinality(notices \cup observers) <= MaxNotices
  /\ notices' = notices \cup observers
  /\ UNCHANGED <<reachable, obs, engineVars, observers, losses>>

UpdateNext ==
  \/ WakeUnreachable
  \/ WakeReachable
  \/ \E t \in Tokens :
       \/ TakeRegistration(t)
       \/ RegistrationAnswered(t)
       \/ RegistrationFails(t)
       \/ TakeNotice(t)
       \/ DropObserver(t)
       \/ LoseNotice(t)
  \/ RouteChange
  \/ Trigger

(* The mote's timer always expires again.  Nothing is owed by the network. *)
UpdateFairness == WF_updateVars(WakeReachable)

UpdateSpec == UpdateInit /\ [][UpdateNext]_updateVars /\ UpdateFairness

-----------------------------------------------------------------------------
(* Properties.                                                              *)

(* obs is compared with NULL to decide whether to register, and the engine    *)
(* frees registrations on its own: the one obs points to still exists,        *)
(* whatever becomes of older ones and in whatever order.                      *)
ObsIsLive == obs # NULL => obs \in observees

(* The process forgets registrations it never releases, and an error of an    *)
(* old registration makes it forget a newer one that works: still only losses *)
(* of the route leak, one registration each.                                  *)
LeaksBounded == Cardinality(observees \ {obs}) <= losses

(* A mote that keeps its route in the end is registered, again and again if   *)
(* registrations fail, provided it lost its route less than POOL times; after *)
(* that it may be too late for ever.                                          *)
KeepsRegistering == <>[](reachable /\ losses < POOL) => []<>(obs # NULL)
=============================================================================
