----------------------------- MODULE AppInstance ------------------------------
(***************************************************************************)
(* Instances of the app.  Each decodes its environment once, when it is    *)
(* loaded: the modules of the functions throw if it is invalid, and Info   *)
(* alone still answers, with the problems.  Otherwise Info checks the      *)
(* services the app needs, all at once, and answers when all have          *)
(* answered; and GetMessages selects its source by the feature flag.       *)
(* Instances restart, one at a time, with other environments.              *)
(***************************************************************************)
EXTENDS Settings

CONSTANTS
    Instance,
    Environment,    \* the environments given to the instances
    Probe,          \* requests of Info
    Checked,        \* the services Info asks: Cosmos and those of the storage
    settingOf,      \* the variable that says where each is
    nowhere         \* an address where none of them is

ASSUME EnvironmentAssumption ==
    \A e \in Environment :
        /\ DOMAIN e = Variable
        /\ withDefault(e["FF_BETA_TESTER_LIST"], "") \in DOMAIN testers
ASSUME CheckedAssumption ==
    settingOf \in [Checked -> Variable] /\ Checked \cap Variable = {}

VARIABLES
    env,        \* the environment of each instance
    client,     \* its Redis client
    served,     \* what each user last got of GetMessages, from each instance
    up,         \* the services that answer
    pc,         \* what each request of Info is suspended on
    at,         \* the instance it is asked of
    check,      \* the promise of each service
    answer,     \* how it ended
    problems,   \* what it told
    seenUp,     \* (history) services that could be reached at some time of it
    seenDown    \* (history) services that could not

info == <<pc, at, check, answer, problems>>
hist == <<seenUp, seenDown>>
loaded == <<env, client>>
vars == <<loaded, served, up, info, hist>>

\* A service answers an instance that knows where it is.
Reach(e, services) == {s \in services : e[settingOf[s]] # nowhere}

\* getConfigOrThrow, when the modules are loaded.
Loads(e) == Invalid(e) = {}

\* Mutation: the client is created without TLS, unless told otherwise.
clientInTheClear(e) ==
    IF ~Loads(e) THEN "none" ELSE IF Enabled(e, "REDIS_TLS_ENABLED") THEN "TLS" ELSE "plain"

clientOf(e) == IF Loads(e) THEN REDIS_CLIENT(e) ELSE "none"

NotSettled == [s \in Checked |-> "pending"]

Init ==
    /\ env \in [Instance -> Environment]
    /\ client = [i \in Instance |-> clientOf(env[i])]
    /\ served = [i \in Instance |-> [u \in User |-> "nothing"]]
    /\ up = Checked
    /\ pc = [q \in Probe |-> "idle"]
    /\ at \in [Probe -> Instance]
    /\ check = [q \in Probe |-> NotSettled]
    /\ answer = [q \in Probe |-> "none"]
    /\ problems = [q \in Probe |-> {}]
    /\ seenUp = [q \in Probe |-> {}]
    /\ seenDown = [q \in Probe |-> {}]

\* The history of the requests that are being answered, once services `now` answer.
Watch(now) ==
    /\ seenUp' = [q \in Probe |-> IF pc[q] = "checking"
                     THEN seenUp[q] \cup Reach(env[at[q]], now) ELSE seenUp[q]]
    /\ seenDown' = [q \in Probe |-> IF pc[q] = "checking"
                     THEN seenDown[q] \cup (Checked \ Reach(env[at[q]], now)) ELSE seenDown[q]]

\* A service goes down or comes up (external).
Toggle(s) ==
    /\ up' = IF s \in up THEN up \ {s} ELSE up \cup {s}
    /\ Watch(up')
    /\ UNCHANGED <<loaded, served, info>>

\* The settings of an instance change, which restarts it (external): the requests it
\* is answering are lost, and what it answered is of the past.
Restart(i, e) ==
    LET Kept(f, none) == [q \in Probe |-> IF at[q] = i THEN none ELSE f[q]]
    IN  /\ env' = [env EXCEPT ![i] = e]
        /\ client' = [client EXCEPT ![i] = clientOf(e)]
        /\ served' = [served EXCEPT ![i] = [u \in User |-> "nothing"]]
        /\ pc' = Kept(pc, "idle")
        /\ check' = Kept(check, NotSettled)
        /\ answer' = Kept(answer, "none")
        /\ problems' = Kept(problems, {})
        /\ seenUp' = Kept(seenUp, {})
        /\ seenDown' = Kept(seenDown, {})
        /\ UNCHANGED <<up, at>>

-----------------------------------------------------------------------------
(* GetMessages.                                                            *)

\* A user's request for messages, up to the choice of its source.
GetMessages(i, u) ==
    /\ served' = [served EXCEPT ![i][u] =
                     IF Loads(env[i]) THEN select(env[i], u) ELSE "not loaded"]
    /\ UNCHANGED <<loaded, up, info, hist>>

-----------------------------------------------------------------------------
(* Info.                                                                   *)

Asked(q, i) ==
    /\ pc[q] # "checking"
    /\ at' = [at EXCEPT ![q] = i]

Answer(q, a, p) ==
    /\ pc' = [pc EXCEPT ![q] = "answered"]
    /\ check' = [check EXCEPT ![q] = NotSettled]
    /\ answer' = [answer EXCEPT ![q] = a]
    /\ problems' = [problems EXCEPT ![q] = p]

\* The request is answered without a check, with problems p.
Unchecked(q, i, p) ==
    /\ Asked(q, i)
    /\ p # {}
    /\ Answer(q, "IResponseErrorInternal", p)
    /\ seenUp' = [seenUp EXCEPT ![q] = {}]
    /\ seenDown' = [seenDown EXCEPT ![q] = {}]
    /\ UNCHANGED <<loaded, served, up>>

\* Mutation: the problems of the configuration are told as one.
InfoInvalid(q, i) == Unchecked(q, i, IF Loads(env[i]) THEN {} ELSE {"Config"})

\* checkConfigHealth: the problems of an invalid configuration, each on its own.
InfoMisconfigured(q, i) == Unchecked(q, i, Invalid(env[i]))

\* All the checks are started.
Start(q, i) ==
    /\ Asked(q, i)
    /\ pc' = [pc EXCEPT ![q] = "checking"]
    /\ check' = [check EXCEPT ![q] = NotSettled]
    /\ answer' = [answer EXCEPT ![q] = "none"]
    /\ problems' = [problems EXCEPT ![q] = {}]
    /\ seenUp' = [seenUp EXCEPT ![q] = Reach(env[i], up)]
    /\ seenDown' = [seenDown EXCEPT ![q] = Checked \ Reach(env[i], up)]
    /\ UNCHANGED <<loaded, served, up>>

\* Mutation: the configuration is not checked.
InfoUnchecked(q, i) == Start(q, i)

Info(q, i) == Invalid(env[i]) = {} /\ Start(q, i)

\* getDatabaseAccount or getServiceProperties calls back.
CheckSettles(q, s) ==
    /\ pc[q] = "checking"
    /\ check[q][s] = "pending"
    /\ check' = [check EXCEPT ![q][s] = IF s \in Reach(env[at[q]], up) THEN "true" ELSE "problem"]
    /\ UNCHANGED <<loaded, served, up, pc, at, answer, problems, hist>>

Problems(q) == {s \in Checked : check[q][s] = "problem"}

\* Mutation: the first problem ends the checks.
SomeSettled(q) ==
    \/ \A s \in Checked : check[q][s] # "pending"
    \/ \E s \in Checked : check[q][s] = "problem"

\* Mutation: a check that fails leaves its promise pending.
AllTrue(q) == \A s \in Checked : check[q][s] = "true"

AllSettled(q) == \A s \in Checked : check[q][s] # "pending"

\* checkApplicationHealth gathers the problems of all the checks.
InfoAnswers(q) ==
    /\ pc[q] = "checking"
    /\ AllSettled(q)
    /\ Answer(q, IF Problems(q) = {} THEN "IResponseSuccessJson"
                                     ELSE "IResponseErrorInternal", Problems(q))
    /\ UNCHANGED <<loaded, served, up, at, hist>>

-----------------------------------------------------------------------------
Next ==
    \/ \E s \in Checked : Toggle(s)
    \/ \E i \in Instance :
          \/ \E e \in Environment : Restart(i, e)
          \/ \E u \in User : GetMessages(i, u)
          \/ \E q \in Probe : InfoMisconfigured(q, i) \/ Info(q, i)
    \/ \E q \in Probe :
          \/ \E s \in Checked : CheckSettles(q, s)
          \/ InfoAnswers(q)

Spec == Init /\ [][Next]_vars

\* Every service calls back, with an answer or an error.
FairSpec ==
    /\ Spec
    /\ \A q \in Probe :
          /\ WF_vars(InfoAnswers(q))
          /\ \A s \in Checked : WF_vars(CheckSettles(q, s))

-----------------------------------------------------------------------------
(* Correctness.                                                            *)

\* The type of every variable.
TypeOK ==
    /\ env \in [Instance -> Environment]
    /\ client \in [Instance -> {"cluster", "TLS", "plain", "none"}]
    /\ served \in [Instance -> [User ->
                      {"nothing", "view", "fallback", "throws", "not loaded"}]]
    /\ up \subseteq Checked
    /\ pc \in [Probe -> {"idle", "checking", "answered"}]
    /\ at \in [Probe -> Instance]
    /\ check \in [Probe -> [Checked -> {"pending", "true", "problem"}]]
    /\ answer \in [Probe -> {"none", "IResponseSuccessJson", "IResponseErrorInternal"}]
    /\ problems \in [Probe -> SUBSET (Checked \cup Variable)]
    /\ seenUp \in [Probe -> SUBSET Checked]
    /\ seenDown \in [Probe -> SUBSET Checked]

\* Whatever goes up and down while Info is answered: success means that every service
\* could be reached at some time of it, an error names none that could be reached all
\* the time, and all that never could.
InfoTellsTheServices ==
    \A q \in Probe : pc[q] = "answered" /\ Loads(env[at[q]]) =>
        /\ answer[q] = "IResponseSuccessJson" => seenUp[q] = Checked
        /\ problems[q] \subseteq seenDown[q]
        /\ Checked \ seenUp[q] \subseteq problems[q]

\* An instance that Info has said to be well has loaded its functions, has a TTL for its
\* caches as ReadThroughCache assumes it (NonNegativeInteger, whatever the text is), and
\* selects a source for every user, unless the text given for a regular expression is
\* none, which Info does not see.
HealthyServes ==
    \A q \in Probe : \A u \in User :
        pc[q] = "answered" /\ answer[q] = "IResponseSuccessJson" =>
            /\ served[at[q]][u] # "not loaded"
            /\ SERVICE_CACHE_TTL_DURATION(env[at[q]]) \in Nat
            /\ served[at[q]][u] = "throws" =>
                  FF_CANARY_USERS_REGEX(env[at[q]]) \notin RegExps

\* Whatever is not asked for is off, and the switch wins over the feature flag: the
\* view is only served when the flag is set and the switch is not, a regular
\* expression only stops users when the switch is not set, and Redis is only spoken
\* to in the clear when REDIS_TLS_ENABLED is set, to anything but true.
OffUnlessAsked ==
    \A i \in Instance :
        /\ \A u \in User : served[i][u] \in {"view", "throws"} =>
              /\ env[i]["USE_FALLBACK"] \in {undefined, "false"}
              /\ served[i][u] = "view" => env[i]["FF_TYPE"] \notin {undefined, "none"}
        /\ client[i] = "plain" => env[i]["REDIS_TLS_ENABLED"] \notin {undefined} \cup Trues

Rank == [none |-> 0, beta |-> 1, canary |-> 2, prod |-> 3]

\* Environment f is e with a feature flag at least as wide.
Wider(e, f) ==
    /\ \A v \in Variable \ {"FF_TYPE"} : e[v] = f[v]
    /\ {FF_TYPE(e), FF_TYPE(f)} \subseteq FeatureFlagType
    /\ Rank[FF_TYPE(e)] <= Rank[FF_TYPE(f)]

\* While the flag is widened, from none to beta, canary and prod, one instance after
\* the other, no user who gets the view from an instance loses it on one that is
\* further on.
WideningKeepsTheView ==
    \A i, j \in Instance : \A u \in User :
        served[i][u] = "view" /\ Wider(env[i], env[j]) =>
            served[j][u] \in {"nothing", "view"}

\* Every request of Info is answered, or lost with the instance.
InfoEnds == \A q \in Probe : pc[q] = "checking" ~> pc[q] # "checking"
=============================================================================
