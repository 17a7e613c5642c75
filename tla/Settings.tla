------------------------------- MODULE Settings -------------------------------
(***************************************************************************)
(* The configuration of an instance of the app: what it makes of the       *)
(* environment when it is loaded (config.ts), the Redis client it creates  *)
(* (redis.ts) and the source of GetMessages it selects for a user          *)
(* (getMessages.selector.ts).                                              *)
(*                                                                         *)
(* An environment gives each variable a text, or `undefined`.  What a text *)
(* means, where it means something, is a parameter.  A user is the hash of *)
(* a fiscal code.                                                          *)
(***************************************************************************)
EXTENDS Integers

CONSTANTS
    undefined,
    User,
    UlidMaps,       \* texts that are JSON objects of Ulids
    integer,        \* the value of each text that is an integer
    Trues,          \* "true" in any case
    testers,        \* the users in each comma separated list
    matches         \* the users each text that is a regular expression matches

RegExps == DOMAIN matches

Required ==
    {"APPINSIGHTS_INSTRUMENTATIONKEY", "COSMOSDB_KEY", "COSMOSDB_NAME", "COSMOSDB_URI",
     "REMOTE_CONTENT_COSMOSDB_KEY", "REMOTE_CONTENT_COSMOSDB_NAME",
     "REMOTE_CONTENT_COSMOSDB_URI", "MESSAGE_CONTAINER_NAME", "PN_SERVICE_ID",
     "QueueStorageConnection", "REDIS_URL"}

Optional == {"REDIS_PASSWORD", "REDIS_PORT"}

Other ==
    {"SERVICE_TO_RC_CONFIGURATION_MAP", "SERVICE_CACHE_TTL_DURATION", "FF_TYPE",
     "USE_FALLBACK", "FF_BETA_TESTER_LIST", "FF_CANARY_USERS_REGEX", "NODE_ENV",
     "REQ_SERVICE_ID", "REDIS_CLUSTER_ENABLED", "REDIS_TLS_ENABLED"}

Variable == Required \cup Optional \cup Other

-----------------------------------------------------------------------------
(* config.ts                                                               *)

withDefault(text, default) == IF text = undefined THEN default ELSE text

FeatureFlagType == {"none", "beta", "canary", "prod"}

FF_TYPE(e) == withDefault(e["FF_TYPE"], "none")
USE_FALLBACK(e) == withDefault(e["USE_FALLBACK"], "false")
FF_CANARY_USERS_REGEX(e) == withDefault(e["FF_CANARY_USERS_REGEX"], "XYZ")
FF_BETA_TESTER_LIST(e) == testers[withDefault(e["FF_BETA_TESTER_LIST"], "")]

\* A text that is no integer counts as eight hours; a negative integer does not.
SERVICE_CACHE_TTL_DURATION(e) ==
    LET t == e["SERVICE_CACHE_TTL_DURATION"]
    IN  IF t \in DOMAIN integer THEN integer[t] ELSE 3600 * 8

isProduction(e) == e["NODE_ENV"] = "production"

\* REQ_SERVICE_ID is for development, and must not be set in production.
ReqServiceIdConfig(e) ==
    \/ isProduction(e) /\ e["REQ_SERVICE_ID"] = undefined
    \/ /\ e["NODE_ENV"] \notin {"production", undefined}
       /\ e["REQ_SERVICE_ID"] \notin {"", undefined}

\* Mutation: a negative TTL is an integer like any other.
InvalidBarTtl(e) ==
    {v \in Required : e[v] \in {"", undefined}}
    \cup {v \in Optional : e[v] = ""}
    \cup {v \in {"SERVICE_TO_RC_CONFIGURATION_MAP"} : e[v] \notin UlidMaps}
    \cup {v \in {"FF_TYPE"} : FF_TYPE(e) \notin FeatureFlagType}
    \cup {v \in {"USE_FALLBACK"} : USE_FALLBACK(e) \notin {"true", "false"}}
    \cup {v \in {"FF_CANARY_USERS_REGEX"} : FF_CANARY_USERS_REGEX(e) = ""}
    \cup {v \in {"REQ_SERVICE_ID"} : ~ReqServiceIdConfig(e)}

\* The variables that IConfig does not decode.  A variable is told of once here, though
\* a union (FeatureFlagType, ReqServiceIdConfig) has a problem per branch, and a
\* NODE_ENV that is missing or does not fit is told of as REQ_SERVICE_ID.
Invalid(e) ==
    {v \in Required : e[v] \in {"", undefined}}
    \cup {v \in Optional : e[v] = ""}
    \cup {v \in {"SERVICE_TO_RC_CONFIGURATION_MAP"} : e[v] \notin UlidMaps}
    \cup {v \in {"SERVICE_CACHE_TTL_DURATION"} : SERVICE_CACHE_TTL_DURATION(e) < 0}
    \cup {v \in {"FF_TYPE"} : FF_TYPE(e) \notin FeatureFlagType}
    \cup {v \in {"USE_FALLBACK"} : USE_FALLBACK(e) \notin {"true", "false"}}
    \cup {v \in {"FF_CANARY_USERS_REGEX"} : FF_CANARY_USERS_REGEX(e) = ""}
    \cup {v \in {"REQ_SERVICE_ID"} : ~ReqServiceIdConfig(e)}

-----------------------------------------------------------------------------
(* redis.ts                                                                *)

Enabled(e, v) == e[v] \in Trues

\* A cluster is always spoken to with TLS, a single server unless told otherwise.
REDIS_CLIENT(e) ==
    IF isProduction(e) /\ Enabled(e, "REDIS_CLUSTER_ENABLED") THEN "cluster"
    ELSE IF e["REDIS_TLS_ENABLED"] = undefined \/ Enabled(e, "REDIS_TLS_ENABLED")
            THEN "TLS" ELSE "plain"

-----------------------------------------------------------------------------
(* getMessages.selector.ts                                                 *)

\* Mutation: a canary release is for those the regular expression matches alone.
inCanaryOnly(e, u) ==
    \/ FF_TYPE(e) = "beta" /\ u \in FF_BETA_TESTER_LIST(e)
    \/ FF_TYPE(e) = "canary" /\ u \in matches[FF_CANARY_USERS_REGEX(e)]
    \/ FF_TYPE(e) = "prod"

\* The feature flag gives user u the view.
inView(e, u) ==
    \/ FF_TYPE(e) \in {"beta", "canary"} /\ u \in FF_BETA_TESTER_LIST(e)
    \/ FF_TYPE(e) = "canary" /\ u \in matches[FF_CANARY_USERS_REGEX(e)]
    \/ FF_TYPE(e) = "prod"

\* Mutation: the feature flag is looked at before the switch.
selectFlagFirst(e, u) ==
    IF FF_CANARY_USERS_REGEX(e) \notin RegExps THEN "throws"
    ELSE IF inView(e, u) THEN "view" ELSE "fallback"

\* The regular expression is made before the feature flag is looked at: one that is
\* none throws, for every user and whatever the flag is.
select(e, u) ==
    IF USE_FALLBACK(e) = "true" THEN "fallback"
    ELSE IF FF_CANARY_USERS_REGEX(e) \notin RegExps THEN "throws"
    ELSE IF inView(e, u) THEN "view" ELSE "fallback"

-----------------------------------------------------------------------------
\* What the defaults mean, in every meaning of texts: no tester, and no hash of a
\* fiscal code has an X.
ASSUME DefaultAssumption ==
    /\ undefined \notin {"none", "false", "XYZ", "", "true", "production"}
    /\ undefined \notin DOMAIN integer /\ undefined \notin Trues
    /\ \A t \in DOMAIN integer : integer[t] \in Int
    /\ "" \in DOMAIN testers /\ testers[""] = {}
    /\ "XYZ" \in RegExps /\ matches["XYZ"] = {}
=============================================================================
