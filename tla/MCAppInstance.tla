---------------------------- MODULE MCAppInstance -----------------------------
(***************************************************************************)
(* An instance of AppInstance for TLC: a few texts and what they mean.     *)
(***************************************************************************)
EXTENDS AppInstance, TLC

Meaning == [integers |-> "0" :> 0 @@ "-1" :> -1 @@ "60" :> 60,
            testers  |-> "" :> {} @@ "alice," :> {"alice"},
            matches  |-> "XYZ" :> {} @@ "^b" :> {"bob"}]

Integer == Meaning.integers
Testers == Meaning.testers
Matches == Meaning.matches

SettingOf == "AzureCosmosDB" :> "COSMOSDB_URI" @@ "blob" :> "QueueStorageConnection"

\* Nothing is set that need not be.
Least ==
    [v \in Variable |->
        IF v \in Required THEN "text"
        ELSE IF v = "SERVICE_TO_RC_CONFIGURATION_MAP" THEN "{}"
        ELSE IF v = "NODE_ENV" THEN "production" ELSE undefined]

Release(flag) ==
    "FF_TYPE" :> flag @@ "FF_BETA_TESTER_LIST" :> "alice,"
    @@ "FF_CANARY_USERS_REGEX" :> "^b" @@ "REDIS_CLUSTER_ENABLED" :> "TRUE" @@ Least

Environments ==
    {Release("beta"), Release("canary"), Release("prod"),
     \* the switch, with a text that is no regular expression, and a wrong address
     "USE_FALLBACK" :> "true" @@ "FF_CANARY_USERS_REGEX" :> "("
        @@ "COSMOSDB_URI" :> "nowhere" @@ "REDIS_CLUSTER_ENABLED" :> "no"
        @@ Release("prod"),
     \* two problems, and one
     "REMOTE_CONTENT_COSMOSDB_URI" :> undefined @@ "FF_TYPE" :> "all" @@ Release("prod"),
     "SERVICE_CACHE_TTL_DURATION" :> "-1" @@ Release("beta"),
     \* a development environment, with the text that is no regular expression
     "NODE_ENV" :> "dev" @@ "REQ_SERVICE_ID" :> "dev" @@ "REDIS_TLS_ENABLED" :> "false"
        @@ "FF_CANARY_USERS_REGEX" :> "(" @@ Least}
=============================================================================
