-------------------------- MODULE ProviderRegistry --------------------------
(***************************************************************************)
(* The registry of LLM providers (core/agents/providers.py) behind         *)
(* ProviderApplicationService (app/services/provider_service.py), without  *)
(* a database: every operation then runs to its end undisturbed, because   *)
(* it waits for nothing but urllib, which blocks the event loop.           *)
(*                                                                         *)
(* A provider is known by its name, so saving under a name that exists is  *)
(* saving that provider.  `server` is the LM Studio behind each local      *)
(* provider: the models it really holds.  Its answers are external; an     *)
(* instance is named after its model.                                      *)
(***************************************************************************)
EXTENDS Naturals, FiniteSets

CONSTANTS
    Providers, Local,   \* the providers, and those that are LM Studios
    Offers,             \* Offers[p]: the models provider p has
    Agents,             \* the agents a model may be assigned to
    Nobody              \* no model

ASSUME ProvidersAssumption == Local \subseteq Providers /\ Nobody \notin UNION {Offers[p] : p \in Providers}

VARIABLES registry, server

regVars == <<registry, server>>

Known == DOMAIN registry
Defaults == {p \in Known : registry[p].default}

Provider(p) ==
    [default : BOOLEAN, model : Offers[p],
     assigned : [Agents -> Offers[p] \cup {Nobody}],   \* agent_models
     profiles : UNION {[S -> {"unknown", "loaded", "unloaded"}] : S \in SUBSET Offers[p]},
     last : Offers[p] \cup {Nobody}]                   \* lmstudio_runtime's loaded_instance_id

(* The providers that the environment names; none of them is the default.  *)
FromEnvironment(p) ==
    {[default |-> FALSE, model |-> m, assigned |-> [a \in Agents |-> Nobody],
      profiles |-> [x \in {} |-> "unknown"], last |-> Nobody] : m \in Offers[p]}

RegInit ==
    /\ server = [p \in Local |-> {}]
    /\ \E named \in SUBSET Providers :
         registry \in {r \in [named -> UNION {FromEnvironment(p) : p \in named}] :
                         \A p \in named : r[p] \in FromEnvironment(p)}

(* Seeded fault: the former default keeps its flag. *)
UpsertOnly(p, new) ==
    [q \in Known \cup {p} |-> IF q = p THEN new ELSE registry[q]]

(* A default takes the flag from every other provider. *)
Upsert(p, new) ==
    [q \in Known \cup {p} |->
        CASE q = p -> new
          [] q # p /\ new.default -> [registry[q] EXCEPT !.default = FALSE]
          [] OTHER -> registry[q]]

(* A new provider is the default when there is none; an existing one stays *)
(* what it is unless the request makes it the default.  Its profiles are   *)
(* kept, its metadata are the request's.                                   *)
Save(p) ==
    /\ UNCHANGED server
    /\ \E new \in [default : BOOLEAN, model : Offers[p],
                   assigned : [Agents -> Offers[p] \cup {Nobody}]] :
         \E last \in (IF p \in Known THEN {Nobody, registry[p].last} ELSE {Nobody}) :
           registry' = Upsert(p,
             [model |-> new.model, assigned |-> new.assigned, last |-> last,
              default |-> new.default \/ (IF p \in Known THEN registry[p].default ELSE Defaults = {}),
              profiles |-> IF p \in Known THEN registry[p].profiles ELSE [x \in {} |-> "unknown"]])

Delete(p) ==
    /\ p \in Known /\ UNCHANGED server
    /\ registry' = [q \in Known \ {p} |-> registry[q]]

Assign(p) ==
    /\ p \in Known /\ UNCHANGED server
    /\ \E a \in Agents, m \in Offers[p] :
         registry' = Upsert(p, [registry[p] EXCEPT !.assigned[a] = m])

Profiled(p, m, status) ==
    [x \in DOMAIN registry[p].profiles \cup {m} |->
        IF x = m THEN status ELSE registry[p].profiles[x]]

(* A profile is overridden by hand; what is not known yet is estimated.    *)
UpdateProfile(p) ==
    /\ p \in Known /\ UNCHANGED server
    /\ \E m \in Offers[p] \ DOMAIN registry[p].profiles :
         registry' = Upsert(p, [registry[p] EXCEPT !.profiles = Profiled(p, m, "unknown")])

(* Refreshing takes the provider's list for all there is to know. *)
Refresh(p) ==
    /\ p \in Known /\ UNCHANGED server
    /\ \E found \in SUBSET Offers[p] :
         /\ p \in Local => server[p] \subseteq found
         /\ registry' = Upsert(p, [registry[p] EXCEPT !.profiles =
              [m \in (IF found = {} THEN {registry[p].model} ELSE found) |->
                 IF p \in Local /\ m \in server[p] THEN "loaded" ELSE "unknown"]])

(* Loading makes the model the provider's default model. *)
Load(p) ==
    /\ p \in Known \cap Local
    /\ \E m \in Offers[p] :
         /\ server' = [server EXCEPT ![p] = @ \cup {m}]
         /\ registry' = Upsert(p, [registry[p] EXCEPT !.model = m, !.last = m,
                                                      !.profiles = Profiled(p, m, "loaded")])

(* The instance that is unloaded is the one loaded last, whatever the      *)
(* model; the profile that is marked is the model's.  LM Studio refuses    *)
(* an instance it does not hold, and nothing changes.                      *)
Unload(p) ==
    /\ p \in Known \cap Local
    /\ \E m \in Offers[p] :
         LET instance == IF registry[p].last # Nobody THEN registry[p].last ELSE m IN
           /\ instance \in server[p]
           /\ server' = [server EXCEPT ![p] = @ \ {instance}]
           /\ registry' = Upsert(p, [registry[p] EXCEPT !.profiles = Profiled(p, m, "unloaded")])

(* The model an agent is given on this provider, and what the check before *)
(* a workflow warns of: a model without a profile, or not loaded.          *)
Routed(p, a) ==
    IF registry[p].assigned[a] # Nobody THEN registry[p].assigned[a] ELSE registry[p].model

PreflightOk(p, a) ==
    /\ Routed(p, a) \in DOMAIN registry[p].profiles
    /\ p \in Local => registry[p].profiles[Routed(p, a)] = "loaded"

RegNext ==
    \E p \in Providers :
        \/ Save(p) \/ Delete(p) \/ Assign(p) \/ UpdateProfile(p)
        \/ Refresh(p) \/ Load(p) \/ Unload(p)

-----------------------------------------------------------------------------
(* Properties.                                                             *)

RegTypeOK == registry \in [Known -> UNION {Provider(p) : p \in Providers}] /\ Known \subseteq Providers

(* Calls that name no provider go to the default one.  There is never more *)
(* than one, whatever is saved, loaded or refreshed, and once there is one *)
(* there is one until it is deleted itself (ProviderRegistry.upsert,       *)
(* ProviderApplicationService.save).                                       *)
TheDefaultStands ==
    [][/\ Cardinality(Defaults') <= 1
       /\ Defaults # {} /\ Defaults' = {} => ~(Defaults \subseteq Known')]_regVars

(* tests/test_provider_management.py, of the check before a workflow: it   *)
(* "warns unloaded local models".  An agent for whom it has no warning is  *)
(* given a model that LM Studio holds.                                     *)
PreflightIsSound ==
    \A p \in Known \cap Local, a \in Agents : PreflightOk(p, a) => Routed(p, a) \in server[p]
=============================================================================
