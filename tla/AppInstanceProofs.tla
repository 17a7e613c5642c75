-------------------------- MODULE AppInstanceProofs ---------------------------
(***************************************************************************)
(* Proofs about AppInstance, for any environments, services and meaning of *)
(* texts.  What an instance serves and tells is a function of the          *)
(* environment it was loaded with, and what a request of Info knows of a   *)
(* service it has seen: the inductive invariant IInv says so, state by     *)
(* state.                                                                  *)
(***************************************************************************)
EXTENDS AppInstance, TLAPS

\* What an instance has, and what it serves, comes of its environment.
FromTheEnvironment ==
    \A i \in Instance :
        /\ client[i] = clientOf(env[i])
        /\ \A u \in User :
              \/ served[i][u] = "nothing"
              \/ ~Loads(env[i]) /\ served[i][u] = "not loaded"
              \/ Loads(env[i]) /\ served[i][u] = select(env[i], u)

\* A check has ended as its service was at some time of the request.
ChecksWereSeen ==
    \A q \in Probe :
        /\ pc[q] = "checking" => Loads(env[at[q]])
        /\ pc[q] = "checking" => \A s \in Checked :
              /\ check[q][s] = "true" => s \in seenUp[q]
              /\ check[q][s] = "problem" => s \in seenDown[q]

\* A request being answered has seen what answers now, and what does not.
SeesNow ==
    \A q \in Probe : pc[q] = "checking" =>
        /\ Reach(env[at[q]], up) \subseteq seenUp[q]
        /\ Checked \ Reach(env[at[q]], up) \subseteq seenDown[q]

\* Nothing is well without a valid configuration.
SuccessIsLoaded ==
    \A q \in Probe :
        pc[q] = "answered" /\ answer[q] = "IResponseSuccessJson" => Loads(env[at[q]])

IInv ==
    /\ TypeOK
    /\ FromTheEnvironment
    /\ ChecksWereSeen
    /\ SeesNow
    /\ InfoTellsTheServices
    /\ SuccessIsLoaded

-----------------------------------------------------------------------------
(* Types.                                                                  *)

\* The client is one of three kinds, or none.
LEMMA ClientType ==
    ASSUME NEW e
    PROVE  clientOf(e) \in {"cluster", "TLS", "plain", "none"}
BY DEF clientOf, REDIS_CLIENT

\* One of the two sources is selected, or the selection throws.
LEMMA SelectType ==
    ASSUME NEW e, NEW u
    PROVE  select(e, u) \in {"view", "fallback", "throws"}
BY DEF select

\* The problems of a configuration are variables.
LEMMA InvalidType ==
    ASSUME NEW e
    PROVE  Invalid(e) \subseteq Variable
BY DEF Invalid, Variable, Required, Optional, Other

\* The initial states satisfy the invariant.
LEMMA InitIInv == Init => IInv
<1> SUFFICES ASSUME Init PROVE IInv
    OBVIOUS
<1>1. TypeOK
    BY ClientType DEF Init, TypeOK, NotSettled
<1>2. FromTheEnvironment
    BY DEF Init, FromTheEnvironment
<1>3. ChecksWereSeen /\ SeesNow /\ InfoTellsTheServices /\ SuccessIsLoaded
    BY DEF Init, ChecksWereSeen, SeesNow, InfoTellsTheServices, SuccessIsLoaded
<1> QED
    BY <1>1, <1>2, <1>3 DEF IInv

-----------------------------------------------------------------------------
(* Every step keeps the invariant.                                         *)

\* A service goes down or comes up: what was seen only grows.
LEMMA ToggleStep ==
    ASSUME IInv, NEW s \in Checked, Toggle(s)
    PROVE  IInv'
<1> USE DEF IInv
<1>1. TypeOK'
    <2>1. up' \subseteq Checked
        BY DEF Toggle, TypeOK
    <2>2. /\ seenUp' \in [Probe -> SUBSET Checked]
          /\ seenDown' \in [Probe -> SUBSET Checked]
        BY <2>1 DEF Toggle, Watch, Reach, TypeOK
    <2> QED
        BY <2>1, <2>2 DEF Toggle, TypeOK, loaded, info
<1>2. FromTheEnvironment'
    BY DEF Toggle, FromTheEnvironment, loaded, info
<1>3. \A q \in Probe :
        /\ seenUp[q] \subseteq seenUp'[q]
        /\ seenDown[q] \subseteq seenDown'[q]
        /\ pc[q] # "checking" => seenUp'[q] = seenUp[q] /\ seenDown'[q] = seenDown[q]
    BY DEF Toggle, Watch, TypeOK
<1>4. ChecksWereSeen'
    BY <1>3 DEF Toggle, ChecksWereSeen, loaded, info
<1>5. InfoTellsTheServices'
    BY <1>3 DEF Toggle, InfoTellsTheServices, loaded, info
<1>6. SuccessIsLoaded'
    BY DEF Toggle, SuccessIsLoaded, loaded, info
<1>7. SeesNow'
    BY DEF Toggle, Watch, SeesNow, TypeOK, loaded, info
<1> QED
    BY <1>1, <1>2, <1>4, <1>5, <1>6, <1>7

\* An instance restarts: it has served nothing, and its requests are gone.
LEMMA RestartStep ==
    ASSUME IInv, NEW i \in Instance, NEW e \in Environment, Restart(i, e)
    PROVE  IInv'
<1> USE DEF IInv
<1>1. TypeOK'
    <2>1. /\ env' \in [Instance -> Environment]
          /\ client' \in [Instance -> {"cluster", "TLS", "plain", "none"}]
          /\ served' \in [Instance -> [User ->
                            {"nothing", "view", "fallback", "throws", "not loaded"}]]
        BY ClientType DEF Restart, TypeOK
    <2>2. /\ pc' \in [Probe -> {"idle", "checking", "answered"}]
          /\ check' \in [Probe -> [Checked -> {"pending", "true", "problem"}]]
          /\ answer' \in [Probe -> {"none", "IResponseSuccessJson", "IResponseErrorInternal"}]
        BY DEF Restart, TypeOK, NotSettled
    <2>3. /\ problems' \in [Probe -> SUBSET (Checked \cup Variable)]
          /\ seenUp' \in [Probe -> SUBSET Checked]
          /\ seenDown' \in [Probe -> SUBSET Checked]
        BY DEF Restart, TypeOK
    <2> QED
        BY <2>1, <2>2, <2>3 DEF Restart, TypeOK
<1>2. FromTheEnvironment'
    BY DEF Restart, FromTheEnvironment, TypeOK
<1>3. \A q \in Probe :
        \/ pc'[q] = "idle"
        \/ /\ env'[at'[q]] = env[at[q]] /\ at'[q] = at[q]
           /\ pc'[q] = pc[q] /\ check'[q] = check[q] /\ answer'[q] = answer[q]
           /\ problems'[q] = problems[q]
           /\ seenUp'[q] = seenUp[q] /\ seenDown'[q] = seenDown[q]
    BY DEF Restart, TypeOK
<1>4. ChecksWereSeen'
    BY <1>3 DEF ChecksWereSeen
<1>5. InfoTellsTheServices'
    BY <1>3 DEF InfoTellsTheServices
<1>6. SuccessIsLoaded'
    BY <1>3 DEF SuccessIsLoaded
<1>7. SeesNow'
    BY <1>3 DEF SeesNow, Restart
<1> QED
    BY <1>1, <1>2, <1>4, <1>5, <1>6, <1>7

\* A request for messages.
LEMMA GetMessagesStep ==
    ASSUME IInv, NEW i \in Instance, NEW u \in User, GetMessages(i, u)
    PROVE  IInv'
<1> USE DEF IInv
<1>1. TypeOK'
    <2>1. served' \in [Instance -> [User ->
                          {"nothing", "view", "fallback", "throws", "not loaded"}]]
        BY SelectType DEF GetMessages, TypeOK
    <2> QED
        BY <2>1 DEF GetMessages, TypeOK, loaded, info, hist
<1>2. FromTheEnvironment'
    <2>1. \A j \in Instance, w \in User :
            served'[j][w] = IF j = i /\ w = u
                               THEN IF Loads(env[i]) THEN select(env[i], u) ELSE "not loaded"
                               ELSE served[j][w]
        BY DEF GetMessages, TypeOK
    <2>2. env' = env /\ client' = client
        BY DEF GetMessages, loaded
    <2> QED
        BY <2>1, <2>2 DEF FromTheEnvironment
<1>3. ChecksWereSeen' /\ SeesNow' /\ InfoTellsTheServices' /\ SuccessIsLoaded'
    BY DEF GetMessages, ChecksWereSeen, SeesNow, InfoTellsTheServices, SuccessIsLoaded,
           loaded, info, hist
<1> QED
    BY <1>1, <1>2, <1>3

\* Info is asked of an instance that is not loaded.
LEMMA MisconfiguredStep ==
    ASSUME IInv, NEW q \in Probe, NEW i \in Instance, InfoMisconfigured(q, i)
    PROVE  IInv'
<1> USE DEF IInv
<1>0. /\ Invalid(env[i]) # {}
      /\ pc' = [pc EXCEPT ![q] = "answered"]
      /\ at' = [at EXCEPT ![q] = i]
      /\ check' = [check EXCEPT ![q] = NotSettled]
      /\ answer' = [answer EXCEPT ![q] = "IResponseErrorInternal"]
      /\ problems' = [problems EXCEPT ![q] = Invalid(env[i])]
      /\ seenUp' = [seenUp EXCEPT ![q] = {}]
      /\ seenDown' = [seenDown EXCEPT ![q] = {}]
      /\ env' = env /\ client' = client /\ served' = served /\ up' = up
    BY DEF InfoMisconfigured, Unchecked, Asked, Answer, loaded
<1>1. TypeOK'
    BY <1>0, InvalidType DEF TypeOK, NotSettled
<1>2. FromTheEnvironment'
    BY <1>0 DEF FromTheEnvironment
<1>3. ChecksWereSeen' /\ SeesNow' /\ InfoTellsTheServices' /\ SuccessIsLoaded'
    <2>1. ~Loads(env[i])
        BY <1>0 DEF Loads
    <2> QED
        BY <1>0, <2>1 DEF ChecksWereSeen, SeesNow, InfoTellsTheServices, SuccessIsLoaded,
                               TypeOK
<1> QED
    BY <1>1, <1>2, <1>3

\* Info is asked of an instance that is loaded.
LEMMA InfoStep ==
    ASSUME IInv, NEW q \in Probe, NEW i \in Instance, Info(q, i)
    PROVE  IInv'
<1> USE DEF IInv
<1>0. /\ Loads(env[i])
      /\ pc' = [pc EXCEPT ![q] = "checking"]
      /\ at' = [at EXCEPT ![q] = i]
      /\ check' = [check EXCEPT ![q] = NotSettled]
      /\ answer' = [answer EXCEPT ![q] = "none"]
      /\ problems' = [problems EXCEPT ![q] = {}]
      /\ seenUp' = [seenUp EXCEPT ![q] = Reach(env[i], up)]
      /\ seenDown' = [seenDown EXCEPT ![q] = Checked \ Reach(env[i], up)]
      /\ env' = env /\ client' = client /\ served' = served /\ up' = up
    BY DEF Info, Start, Asked, Loads, loaded
<1>1. TypeOK'
    <2>1. Reach(env[i], up) \subseteq Checked
        BY DEF Reach, TypeOK
    <2> QED
        BY <1>0, <2>1 DEF TypeOK, NotSettled
<1>2. FromTheEnvironment'
    BY <1>0 DEF FromTheEnvironment
<1>3. ChecksWereSeen' /\ InfoTellsTheServices' /\ SuccessIsLoaded'
    BY <1>0 DEF ChecksWereSeen, InfoTellsTheServices, SuccessIsLoaded, TypeOK, NotSettled
<1>4. SeesNow'
    BY <1>0 DEF SeesNow, TypeOK
<1> QED
    BY <1>1, <1>2, <1>3, <1>4

\* A service calls back: it is seen now, up or down.
LEMMA SettlesStep ==
    ASSUME IInv, NEW q \in Probe, NEW s \in Checked, CheckSettles(q, s)
    PROVE  IInv'
<1> USE DEF IInv
<1> DEFINE now == IF s \in Reach(env[at[q]], up) THEN "true" ELSE "problem"
<1>0. /\ pc[q] = "checking"
      /\ check' = [check EXCEPT ![q][s] = now]
      /\ UNCHANGED <<env, client, served, up, pc, at, answer, problems, seenUp, seenDown>>
    BY DEF CheckSettles, loaded, hist
<1>1. TypeOK'
    BY <1>0 DEF TypeOK
<1>2. FromTheEnvironment'
    BY <1>0 DEF FromTheEnvironment
<1>3. ChecksWereSeen'
    <2>1. \A r \in Probe, z \in Checked :
            check'[r][z] = IF r = q /\ z = s THEN now ELSE check[r][z]
        BY <1>0 DEF TypeOK
    <2>2. /\ now = "true" => s \in seenUp[q]
          /\ now = "problem" => s \in seenDown[q]
        BY <1>0 DEF SeesNow
    <2> QED
        BY <1>0, <2>1, <2>2 DEF ChecksWereSeen
<1>4. SeesNow' /\ InfoTellsTheServices' /\ SuccessIsLoaded'
    BY <1>0 DEF SeesNow, InfoTellsTheServices, SuccessIsLoaded
<1> QED
    BY <1>1, <1>2, <1>3, <1>4

\* All services have called back: a service without a problem was seen up, one with a
\* problem was seen down.
LEMMA AnswersStep ==
    ASSUME IInv, NEW q \in Probe, InfoAnswers(q)
    PROVE  IInv'
<1> USE DEF IInv
<1> DEFINE told == IF Problems(q) = {} THEN "IResponseSuccessJson"
                                       ELSE "IResponseErrorInternal"
<1>0. /\ pc[q] = "checking"
      /\ AllSettled(q)
      /\ pc' = [pc EXCEPT ![q] = "answered"]
      /\ check' = [check EXCEPT ![q] = NotSettled]
      /\ answer' = [answer EXCEPT ![q] = told]
      /\ problems' = [problems EXCEPT ![q] = Problems(q)]
      /\ UNCHANGED <<env, client, served, up, at, seenUp, seenDown>>
    BY DEF InfoAnswers, Answer, loaded, hist
<1>1. TypeOK'
    BY <1>0 DEF TypeOK, NotSettled, Problems
<1>2. FromTheEnvironment'
    BY <1>0 DEF FromTheEnvironment
<1>3. Loads(env[at[q]])
    BY <1>0 DEF ChecksWereSeen
<1>4. /\ Problems(q) \subseteq seenDown[q]
      /\ Checked \ seenUp[q] \subseteq Problems(q)
    <2>1. \A s \in Checked : check[q][s] \in {"pending", "true", "problem"}
        BY DEF TypeOK
    <2>2. \A s \in Checked :
            /\ check[q][s] = "true" => s \in seenUp[q]
            /\ check[q][s] = "problem" => s \in seenDown[q]
        BY <1>0 DEF ChecksWereSeen
    <2> QED
        BY <1>0, <2>1, <2>2 DEF Problems, AllSettled
<1>5. \A r \in Probe \ {q} :
        /\ pc'[r] = pc[r] /\ check'[r] = check[r] /\ answer'[r] = answer[r]
        /\ problems'[r] = problems[r]
    BY <1>0 DEF TypeOK
<1>6. pc'[q] = "answered" /\ answer'[q] = told /\ problems'[q] = Problems(q)
    BY <1>0 DEF TypeOK
<1>7. ChecksWereSeen'
    BY <1>0, <1>5, <1>6 DEF ChecksWereSeen
<1>8. InfoTellsTheServices'
    <2>1. told = "IResponseSuccessJson" => seenUp[q] = Checked
        BY <1>4 DEF TypeOK
    <2> QED
        BY <1>0, <1>4, <1>5, <1>6, <2>1 DEF InfoTellsTheServices
<1>9. SuccessIsLoaded'
    BY <1>0, <1>3, <1>5, <1>6 DEF SuccessIsLoaded
<1>10. SeesNow'
    BY <1>0, <1>5, <1>6 DEF SeesNow
<1> QED
    BY <1>1, <1>2, <1>7, <1>8, <1>9, <1>10

-----------------------------------------------------------------------------
(* The theorems.                                                           *)

\* Every step satisfies the invariant again.
LEMMA StepIInv == IInv /\ [Next]_vars => IInv'
<1> SUFFICES ASSUME IInv, [Next]_vars PROVE IInv'
    OBVIOUS
<1>1. CASE UNCHANGED vars
    <2> USE <1>1 DEF IInv, vars, loaded, info, hist
    <2>1. TypeOK' /\ FromTheEnvironment'
        BY DEF TypeOK, FromTheEnvironment
    <2>2. ChecksWereSeen' /\ SeesNow' /\ InfoTellsTheServices' /\ SuccessIsLoaded'
        BY DEF ChecksWereSeen, SeesNow, InfoTellsTheServices, SuccessIsLoaded
    <2> QED
        BY <2>1, <2>2
<1>2. CASE Next
    BY <1>2, ToggleStep, RestartStep, GetMessagesStep, MisconfiguredStep, InfoStep,
       SettlesStep, AnswersStep DEF Next
<1> QED
    BY <1>1, <1>2

LEMMA Invariant == Spec => []IInv
    BY InitIInv, StepIInv, PTL DEF Spec

\* The variables of AppInstance keep their types (Info/handler.ts, healthcheck.ts).
THEOREM TypeCorrect == Spec => []TypeOK
<1>1. IInv => TypeOK
    BY DEF IInv
<1> QED
    BY <1>1, Invariant, PTL

\* With any services, going up and down at any time, what Info tells of them is true of
\* some time of the request (checkApplicationHealth, healthcheck.ts).
THEOREM Tells == Spec => []InfoTellsTheServices
<1>1. IInv => InfoTellsTheServices
    BY DEF IInv
<1> QED
    BY <1>1, Invariant, PTL

\* A configuration that loads has a TTL of no less than 0 seconds, whatever the text is.
LEMMA LoadedTtl ==
    ASSUME NEW e, Loads(e)
    PROVE  SERVICE_CACHE_TTL_DURATION(e) \in Nat
<1>1. SERVICE_CACHE_TTL_DURATION(e) \in Int
    <2>1. \A t \in DOMAIN integer : integer[t] \in Int
        BY DefaultAssumption DEF DefaultAssumption
    <2>2. 3600 * 8 \in Int
        OBVIOUS
    <2> DEFINE t == e["SERVICE_CACHE_TTL_DURATION"]
    <2>3. SERVICE_CACHE_TTL_DURATION(e) = IF t \in DOMAIN integer THEN integer[t] ELSE 3600 * 8
        BY DEF SERVICE_CACHE_TTL_DURATION
    <2> QED
        BY <2>1, <2>2, <2>3
<1>2. ~(SERVICE_CACHE_TTL_DURATION(e) < 0)
    BY DEF Loads, Invalid
<1> QED
    BY <1>1, <1>2

\* An instance that Info says to be well has loaded GetMessages, has a TTL as
\* ReadThroughCache assumes it, and only a text that is no regular expression stops its
\* users (checkConfigHealth, config.ts and select).
THEOREM WellServes == Spec => []HealthyServes
<1>1. ASSUME IInv, NEW q \in Probe, NEW u \in User,
             pc[q] = "answered", answer[q] = "IResponseSuccessJson"
      PROVE  /\ served[at[q]][u] # "not loaded"
             /\ SERVICE_CACHE_TTL_DURATION(env[at[q]]) \in Nat
             /\ served[at[q]][u] = "throws" =>
                    FF_CANARY_USERS_REGEX(env[at[q]]) \notin RegExps
    <2>1. at[q] \in Instance /\ Loads(env[at[q]])
        BY <1>1 DEF IInv, TypeOK, SuccessIsLoaded
    <2>2. served[at[q]][u] \in {"nothing", select(env[at[q]], u)}
        BY <1>1, <2>1 DEF IInv, FromTheEnvironment
    <2>3. SERVICE_CACHE_TTL_DURATION(env[at[q]]) \in Nat
        BY <2>1, LoadedTtl
    <2>4. served[at[q]][u] # "not loaded"
        BY <2>2 DEF select
    <2> QED
        BY <2>2, <2>3, <2>4 DEF select
<1>2. IInv => HealthyServes
    BY <1>1 DEF HealthyServes
<1> QED
    BY <1>2, Invariant, PTL

\* In every meaning of texts that fits the defaults, the view, the failure of a regular
\* expression and a client without TLS have to be asked for (config.ts, redis.ts, select).
THEOREM NothingUnasked == Spec => []OffUnlessAsked
<1>1. ASSUME IInv, NEW i \in Instance, NEW u \in User,
             served[i][u] \in {"view", "throws"}
      PROVE  /\ env[i]["USE_FALLBACK"] \in {undefined, "false"}
             /\ served[i][u] = "view" => env[i]["FF_TYPE"] \notin {undefined, "none"}
    <2>1. Loads(env[i]) /\ served[i][u] = select(env[i], u)
        BY <1>1 DEF IInv, FromTheEnvironment
    <2>2. USE_FALLBACK(env[i]) \in {"true", "false"}
        BY <2>1 DEF Loads, Invalid
    <2>3. USE_FALLBACK(env[i]) # "true"
        BY <1>1, <2>1 DEF select
    <2>4. served[i][u] = "view" => inView(env[i], u)
        BY <2>1 DEF select
    <2> QED
        BY <2>2, <2>3, <2>4 DEF USE_FALLBACK, FF_TYPE, withDefault, inView
<1>2. ASSUME IInv, NEW i \in Instance, client[i] = "plain"
      PROVE  env[i]["REDIS_TLS_ENABLED"] \notin {undefined} \cup Trues
    BY <1>2 DEF IInv, FromTheEnvironment, clientOf, REDIS_CLIENT, Enabled
<1>3. IInv => OffUnlessAsked
    BY <1>1, <1>2 DEF OffUnlessAsked
<1> QED
    BY <1>3, Invariant, PTL

\* The flags are ordered by the users they give the view.
LEMMA WiderView ==
    ASSUME NEW e, NEW f, NEW u, Wider(e, f), inView(e, u)
    PROVE  inView(f, u)
<1>1. /\ FF_BETA_TESTER_LIST(f) = FF_BETA_TESTER_LIST(e)
      /\ FF_CANARY_USERS_REGEX(f) = FF_CANARY_USERS_REGEX(e)
    BY DEF Wider, FF_BETA_TESTER_LIST, FF_CANARY_USERS_REGEX, Variable, Other
<1>2. /\ FF_TYPE(f) \in {"none", "beta", "canary", "prod"}
      /\ Rank[FF_TYPE(e)] <= Rank[FF_TYPE(f)]
    BY DEF Wider, FeatureFlagType
<1>3. CASE FF_TYPE(e) = "beta"
    BY <1>1, <1>2, <1>3 DEF inView, Rank
<1>4. CASE FF_TYPE(e) = "canary"
    BY <1>1, <1>2, <1>4 DEF inView, Rank
<1>5. CASE FF_TYPE(e) = "prod"
    BY <1>2, <1>5 DEF inView, Rank
<1> QED
    BY <1>3, <1>4, <1>5 DEF inView

\* An environment with a wider flag is as valid as the other.
LEMMA WiderLoads ==
    ASSUME NEW e, NEW f, Wider(e, f), Loads(e)
    PROVE  Loads(f)
<1>1. \A v \in Variable \ {"FF_TYPE"} : f[v] = e[v]
    BY DEF Wider
<1>2. FF_TYPE(f) \in FeatureFlagType
    BY DEF Wider
<1>3. \A v \in Required \cup Optional : f[v] = e[v]
    BY <1>1 DEF Variable, Required, Optional
<1>4. /\ f["SERVICE_TO_RC_CONFIGURATION_MAP"] = e["SERVICE_TO_RC_CONFIGURATION_MAP"]
      /\ f["SERVICE_CACHE_TTL_DURATION"] = e["SERVICE_CACHE_TTL_DURATION"]
      /\ f["USE_FALLBACK"] = e["USE_FALLBACK"]
      /\ f["FF_CANARY_USERS_REGEX"] = e["FF_CANARY_USERS_REGEX"]
      /\ f["NODE_ENV"] = e["NODE_ENV"]
      /\ f["REQ_SERVICE_ID"] = e["REQ_SERVICE_ID"]
    BY <1>1 DEF Variable, Other
<1>5. /\ SERVICE_CACHE_TTL_DURATION(f) = SERVICE_CACHE_TTL_DURATION(e)
      /\ USE_FALLBACK(f) = USE_FALLBACK(e)
      /\ FF_CANARY_USERS_REGEX(f) = FF_CANARY_USERS_REGEX(e)
      /\ ReqServiceIdConfig(f) = ReqServiceIdConfig(e)
    BY <1>4 DEF SERVICE_CACHE_TTL_DURATION, USE_FALLBACK, FF_CANARY_USERS_REGEX,
                ReqServiceIdConfig, isProduction
<1>6. Invalid(f) \subseteq Invalid(e)
    BY <1>2, <1>3, <1>4, <1>5 DEF Invalid
<1> QED
    BY <1>6 DEF Loads

\* While the flag is widened on one instance after the other, no user loses the view
\* on one that is further on (createGetMessagesFunctionSelection).
THEOREM Widening == Spec => []WideningKeepsTheView
<1>1. ASSUME IInv, NEW i \in Instance, NEW j \in Instance, NEW u \in User,
             served[i][u] = "view", Wider(env[i], env[j])
      PROVE  served[j][u] \in {"nothing", "view"}
    <2>1. Loads(env[i]) /\ select(env[i], u) = "view"
        BY <1>1 DEF IInv, FromTheEnvironment
    <2>2. Loads(env[j])
        BY <1>1, <2>1, WiderLoads
    <2>3. served[j][u] \in {"nothing", select(env[j], u)}
        BY <1>1, <2>2 DEF IInv, FromTheEnvironment
    <2>4. inView(env[i], u)
        BY <2>1 DEF select
    <2>5. inView(env[j], u)
        BY <1>1, <2>4, WiderView
    <2>6. /\ USE_FALLBACK(env[j]) = USE_FALLBACK(env[i])
          /\ FF_CANARY_USERS_REGEX(env[j]) = FF_CANARY_USERS_REGEX(env[i])
        BY <1>1 DEF Wider, USE_FALLBACK, FF_CANARY_USERS_REGEX, Variable, Other
    <2> QED
        BY <2>1, <2>3, <2>5, <2>6 DEF select
<1>2. IInv => WideningKeepsTheView
    BY <1>1 DEF WideningKeepsTheView
<1> QED
    BY <1>2, Invariant, PTL
=============================================================================
