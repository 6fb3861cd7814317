-------------------------- MODULE ThinkingModels --------------------------
(***************************************************************************)
(* The profiles of thinking models, their stored credentials, and the      *)
(* planner: the provider that the next plan will talk to.  The planner is   *)
(* kept in memory and is built from the planner configuration, or from the *)
(* profile that a plan asks for; editing or deleting profiles leaves it    *)
(* alone.                                                                  *)
(*                                                                         *)
(* An endpoint stands for the url, model and API mode of a profile or of   *)
(* the configuration.                                                      *)
(***************************************************************************)
EXTENDS Naturals

CONSTANTS
  Profiles,    \* ids of profiles
  Endpoints,   \* what a profile may lead to
  Planner,     \* stands for the planner configuration and its credential
  Nothing,     \* no profile, no endpoint
  MaxChanges   \* bound: changes of profiles, configuration and drafts

ASSUME PlannerAssumption == Planner \notin Profiles /\ Nothing \notin Profiles \cup Endpoints
ASSUME ChangesAssumption == MaxChanges \in Nat

VARIABLES
  profiles,   \* the thinking_model_profiles table
  keys,       \* the credentials stored for profiles and configuration
  config,     \* app_config["planner"]
  planner,    \* services.planner: whose endpoint it has, and which
  changes     \* changes so far

modelVars == <<profiles, keys, config, planner, changes>>

Profile  == [endpoint: Endpoints, enabled: BOOLEAN, default: BOOLEAN]
Provider == [of: Profiles \cup {Planner}, endpoint: Endpoints]

NoPlanner == [of |-> Nothing, endpoint |-> Nothing]

Default == {p \in DOMAIN profiles : profiles[p].default}

(* A row that is written as the default takes that from all others.        *)
Written(p, row) ==
  [q \in DOMAIN profiles \cup {p} |->
     IF q = p THEN row
     ELSE IF row.default THEN [profiles[q] EXCEPT !.default = FALSE] ELSE profiles[q]]

Stored(k, given) == keys' = IF given THEN keys \cup {k} ELSE keys

Change == changes < MaxChanges /\ changes' = changes + 1

-----------------------------------------------------------------------------
ModelsInit ==
  /\ profiles = [p \in {} |-> NoPlanner]
  /\ keys = {}
  /\ config = Nothing
  /\ planner = NoPlanner
  /\ changes = 0

(* The first profile, or one created while there is no default, becomes it. *)
CreateProfile(p, endpoint, wanted, given) ==
  /\ Change
  /\ p \notin DOMAIN profiles
  /\ Stored(p, given)
  /\ profiles' = Written(p, [endpoint |-> endpoint, enabled |-> TRUE,
                             default |-> wanted \/ Default = {}])
  /\ UNCHANGED <<config, planner>>

(* An update may also take the default away from the profile that has it.   *)
UpdateProfile(p, endpoint, enabled, default, given) ==
  /\ Change
  /\ p \in DOMAIN profiles
  /\ Stored(p, given)
  /\ profiles' = Written(p, [endpoint |-> endpoint, enabled |-> enabled,
                             default |-> default])
  /\ UNCHANGED <<config, planner>>

(* The default goes last.                                                  *)
MayDelete(p) == p \in Default => DOMAIN profiles = {p}

DeleteProfile(p) ==
  /\ Change
  /\ p \in DOMAIN profiles
  /\ MayDelete(p)
  /\ profiles' = [q \in DOMAIN profiles \ {p} |-> profiles[q]]
  /\ keys' = keys \ {p}
  /\ UNCHANGED <<config, planner>>

SetDefault(p) ==
  /\ Change
  /\ p \in DOMAIN profiles
  /\ profiles' = Written(p, [profiles[p] EXCEPT !.default = TRUE])
  /\ UNCHANGED <<keys, config, planner>>

(* The configuration of the planner is also written to the default profile, *)
(* which is created when there is none.                                    *)
SetConfig(endpoint, p, given) ==
  /\ Change
  /\ config' = endpoint
  /\ planner' = [of |-> Planner, endpoint |-> endpoint]
  /\ keys' = IF given THEN keys \cup {Planner, p} ELSE keys
  /\ \/ /\ p \in Default
        /\ profiles' = Written(p, [profiles[p] EXCEPT !.endpoint = endpoint])
     \/ /\ Default = {} /\ p \notin DOMAIN profiles
        /\ profiles' = Written(p, [endpoint |-> endpoint, enabled |-> TRUE,
                                   default |-> TRUE])

(* After a restart there is only the planner of the configuration.         *)
ConfiguredPlanner ==
  IF config = Nothing THEN NoPlanner ELSE [of |-> Planner, endpoint |-> config]

(* The planner check of readiness.                                         *)
PlannerReady ==
  /\ planner # NoPlanner \/ config # Nothing
  /\ config # Nothing => Planner \in keys

(* A profile is created enabled, and may be disabled later.                *)
ModelsStep ==
  \/ \E p \in Profiles, e \in Endpoints, given \in BOOLEAN :
       \/ \E default \in BOOLEAN :
            \/ CreateProfile(p, e, default, given)
            \/ \E enabled \in BOOLEAN : UpdateProfile(p, e, enabled, default, given)
       \/ SetConfig(e, p, given)
  \/ \E p \in Profiles : DeleteProfile(p) \/ SetDefault(p)

ModelsTypeOK ==
  /\ DOMAIN profiles \subseteq Profiles /\ profiles \in [DOMAIN profiles -> Profile]
  /\ keys \subseteq Profiles \cup {Planner}
  /\ config \in Endpoints \cup {Nothing}
  /\ planner \in Provider \cup {NoPlanner}
  /\ changes \in 0..MaxChanges

=============================================================================
