------------------------- MODULE StorageSetupProofs -------------------------
(***************************************************************************)
(* For any calls, commands, failures and restarts a set-up that meets no   *)
(* failure is complete (StorageSetup!SetupIsComplete).                     *)
(*                                                                         *)
(* The invariant follows the witness: while a set-up that can succeed is   *)
(* under way, some call is still creating the database, or is setting up   *)
(* the profile of the process and everything it has asked for so far is    *)
(* there.                                                                  *)
(***************************************************************************)
EXTENDS StorageSetup, TLAPS

\* What a request asked for is there.
InForce(r) ==
    CASE r.do = "create" -> policies[r.name] # 0
      [] r.do = "delete" -> policies[r.name] = 0
      [] OTHER -> r.name \in continuous

\* A call that sets the right profile up, and has not missed anything so far.
IsWitness(c) ==
    /\ pc[c] = "setup" /\ plan[c] = profile /\ database
    /\ \A i \in 1 .. step[c] : InForce(Requests(profile)[i])

\* A set-up that can succeed has somebody who carries it on.
Carried ==
    orderly =>
        /\ SettingUp # {} => CanSetUp(profile)
        /\ \/ Complete
           \/ \E c \in Calls : pc[c] = "database" \/ IsWitness(c)

IInv == TypeOK /\ Carried

-----------------------------------------------------------------------------
(* The requests *)

\* What a request of the set-up of profile p may be, and which errors end it.
IsRequest(r, p) ==
    /\ r.do \in {"create", "delete", "cq"}
    /\ r.do = "create" => r.name \in Buckets /\ BucketDuration(p, r.name) # 0
    /\ r.do = "create" /\ r.must => p = "optimized" /\ r.name = "gen_year"
    /\ r.do = "delete" => r.name \in Legacy
    /\ r.do = "cq" => r.name \in ContinuousQueries

LEMMA DurationType ==
    ASSUME NEW p, NEW b
    PROVE  BucketDuration(p, b) \in Nat
BY DEF BucketDuration, Hour, Day, Week

LEMMA SimpleRequests ==
    /\ Len(InitSimpleBuckets) = 2 /\ DOMAIN InitSimpleBuckets = 1 .. 2
    /\ InitSimpleBuckets[1] = Create("gen_raw", FALSE)
    /\ InitSimpleBuckets[2] = Create("gen_default", FALSE)
BY DEF InitSimpleBuckets

LEMMA DefaultRequests ==
    /\ Len(InitDefaultBuckets) = 12 /\ DOMAIN InitDefaultBuckets = 1 .. 12
    /\ InitDefaultBuckets[1] = Create("gen_year", TRUE)
    /\ InitDefaultBuckets[2] = Create("gen_month", FALSE)
    /\ InitDefaultBuckets[3] = Create("gen_week", FALSE)
    /\ InitDefaultBuckets[4] = Create("gen_day", FALSE)
    /\ InitDefaultBuckets[5] = Create("gen_raw", FALSE)
    /\ InitDefaultBuckets[6] = Create("gen_default", FALSE)
    /\ InitDefaultBuckets[7] = Delete("default_20w", TRUE)
    /\ InitDefaultBuckets[8] = Delete("default_8w", FALSE)
    /\ InitDefaultBuckets[9] = AddCQ("raw_to_day", TRUE)
    /\ InitDefaultBuckets[10] = AddCQ("day_to_week", FALSE)
    /\ InitDefaultBuckets[11] = AddCQ("week_to_month", FALSE)
    /\ InitDefaultBuckets[12] = AddCQ("month_to_year", FALSE)
BY DEF InitDefaultBuckets

LEMMA CreateIsRequest ==
    ASSUME NEW p, NEW b \in Buckets, NEW must \in BOOLEAN,
           BucketDuration(p, b) # 0,
           must => p = "optimized" /\ b = "gen_year"
    PROVE  IsRequest(Create(b, must), p)
BY DEF IsRequest, Create

LEMMA DeleteIsRequest ==
    ASSUME NEW p, NEW b \in Legacy, NEW must
    PROVE  IsRequest(Delete(b, must), p)
BY DEF IsRequest, Delete

LEMMA AddCQIsRequest ==
    ASSUME NEW p, NEW q \in ContinuousQueries, NEW must
    PROVE  IsRequest(AddCQ(q, must), p)
BY DEF IsRequest, AddCQ

\* Every request of a set-up is one of the three kinds.
LEMMA RequestFacts ==
    ASSUME NEW p
    PROVE  /\ Len(Requests(p)) \in Nat \ {0}
           /\ DOMAIN Requests(p) = 1 .. Len(Requests(p))
           /\ \A i \in 1 .. Len(Requests(p)) : IsRequest(Requests(p)[i], p)
<1>1. CASE p = "optimized"
  <2>1. Requests(p) = InitDefaultBuckets
    BY <1>1 DEF Requests
  <2>2. /\ Buckets = {"gen_raw", "gen_day", "gen_week", "gen_month", "gen_year", "gen_default"}
        /\ \A b \in Buckets : BucketDuration(p, b) # 0
    BY <1>1 DEF Buckets, BucketDuration, Hour, Day, Week
  <2>3. /\ IsRequest(InitDefaultBuckets[1], p) /\ IsRequest(InitDefaultBuckets[2], p)
        /\ IsRequest(InitDefaultBuckets[3], p) /\ IsRequest(InitDefaultBuckets[4], p)
        /\ IsRequest(InitDefaultBuckets[5], p) /\ IsRequest(InitDefaultBuckets[6], p)
    BY <1>1, <2>2, DefaultRequests, CreateIsRequest
  <2>4. IsRequest(InitDefaultBuckets[7], p) /\ IsRequest(InitDefaultBuckets[8], p)
    BY DefaultRequests, DeleteIsRequest DEF Legacy
  <2>5. /\ IsRequest(InitDefaultBuckets[9], p) /\ IsRequest(InitDefaultBuckets[10], p)
        /\ IsRequest(InitDefaultBuckets[11], p) /\ IsRequest(InitDefaultBuckets[12], p)
    BY DefaultRequests, AddCQIsRequest DEF ContinuousQueries
  <2>6. \A i \in 1 .. 12 : IsRequest(InitDefaultBuckets[i], p)
    <3> SUFFICES ASSUME NEW i \in 1 .. 12 PROVE IsRequest(InitDefaultBuckets[i], p)
      OBVIOUS
    <3>1. i \in {1, 2, 3, 4, 5, 6, 7, 8, 9, 10, 11, 12}
      OBVIOUS
    <3> QED BY <2>3, <2>4, <2>5, <3>1
  <2> QED BY <2>1, <2>6, DefaultRequests
<1>2. CASE p # "optimized"
  <2>1. Requests(p) = InitSimpleBuckets
    BY <1>2 DEF Requests
  <2>2. /\ "gen_raw" \in Buckets /\ "gen_default" \in Buckets
        /\ BucketDuration(p, "gen_raw") # 0 /\ BucketDuration(p, "gen_default") # 0
    BY <1>2 DEF Buckets, BucketDuration, Hour, Day, Week
  <2>3. IsRequest(InitSimpleBuckets[1], p) /\ IsRequest(InitSimpleBuckets[2], p)
    BY <2>2, SimpleRequests, CreateIsRequest
  <2>4. \A i \in 1 .. 2 : IsRequest(InitSimpleBuckets[i], p)
    <3> SUFFICES ASSUME NEW i \in 1 .. 2 PROVE IsRequest(InitSimpleBuckets[i], p)
      OBVIOUS
    <3>1. i \in {1, 2}
      OBVIOUS
    <3> QED BY <2>3, <3>1
  <2> QED BY <2>1, <2>4, SimpleRequests
<1> QED BY <1>1, <1>2

\* When everything that the set-up asks for is there, the database is complete.
LEMMA RequestsCover ==
    ASSUME database, profile \in Profiles, continuous \subseteq ContinuousQueries,
           \A i \in 1 .. Len(Requests(profile)) : InForce(Requests(profile)[i])
    PROVE  Complete
<1>1. CASE profile = "optimized"
  <2>1. Requests(profile) = InitDefaultBuckets
    BY <1>1 DEF Requests
  <2>2. \A i \in 1 .. 12 : InForce(InitDefaultBuckets[i])
    BY <2>1, DefaultRequests
  <2>3. /\ InForce(InitDefaultBuckets[1]) /\ InForce(InitDefaultBuckets[2])
        /\ InForce(InitDefaultBuckets[3]) /\ InForce(InitDefaultBuckets[4])
        /\ InForce(InitDefaultBuckets[5]) /\ InForce(InitDefaultBuckets[6])
    BY <2>2
  <2>4. /\ InForce(InitDefaultBuckets[7]) /\ InForce(InitDefaultBuckets[8])
        /\ InForce(InitDefaultBuckets[9]) /\ InForce(InitDefaultBuckets[10])
        /\ InForce(InitDefaultBuckets[11]) /\ InForce(InitDefaultBuckets[12])
    BY <2>2
  <2>5. \A b \in Buckets : policies[b] # 0
    BY <2>3, DefaultRequests DEF InForce, Create, Buckets
  <2>6. \A b \in Legacy : policies[b] = 0
    BY <2>4, DefaultRequests DEF InForce, Delete, Legacy
  <2>7. continuous = ContinuousQueries
    BY <2>4, DefaultRequests DEF InForce, AddCQ, ContinuousQueries
  <2> QED BY <2>5, <2>6, <2>7 DEF Complete
<1>2. CASE profile # "optimized"
  <2>1. Requests(profile) = InitSimpleBuckets
    BY <1>2 DEF Requests
  <2>2. InForce(InitSimpleBuckets[1]) /\ InForce(InitSimpleBuckets[2])
    <3>1. \A i \in 1 .. 2 : InForce(InitSimpleBuckets[i])
      BY <2>1, SimpleRequests
    <3> QED BY <3>1
  <2>3. policies["gen_raw"] # 0 /\ policies["gen_default"] # 0
    BY <2>2, SimpleRequests DEF InForce, Create
  <2>4. \A b \in Buckets : BucketDuration(profile, b) # 0 => b \in {"gen_raw", "gen_default"}
    BY <1>2 DEF BucketDuration
  <2> QED BY <1>2, <2>3, <2>4 DEF Complete
<1> QED BY <1>1, <1>2

-----------------------------------------------------------------------------
(* Types *)

\* What no step but those of a set-up and of a start touches.
LEMMA InitTypeOK == Init => TypeOK
<1> SUFFICES ASSUME Init PROVE TypeOK
  OBVIOUS
<1>1. profile \in Profiles /\ stored \in Profiles /\ state \in States
  BY NamesAssumption DEF Init, States
<1>2. /\ database \in BOOLEAN /\ batches \in BOOLEAN /\ orderly \in BOOLEAN
      /\ promised \in [Calls -> BOOLEAN]
  BY Zenon DEF Init
<1>3. policies \in [Buckets \cup Legacy -> Nat] /\ (~database => policies = Nothing)
  BY DEF Init, Nothing, Week, Day, Hour
<1>4. continuous = {}
  BY DEF Init
<1>5. pc \in [Calls -> {"idle", "boot"}]
  BY DEF Init, Booting
<1>6. /\ next \in [Calls -> Onward] /\ object \in [Calls -> {None}]
      /\ plan \in [Calls -> {None}] /\ step \in [Calls -> Nat]
  BY DEF Init, Onward
<1>7. commands \in 0 .. MaxCommands /\ failures \in 0 .. MaxFailures
  BY NumbersAssumption DEF Init
<1> QED BY <1>1, <1>2, <1>3, <1>4, <1>5, <1>6, <1>7 DEF TypeOK, Locations

LEMMA EnterInitTypeOK ==
    ASSUME TypeOK, NEW c \in Calls, NEW n \in Onward, EnterInit(c, n)
    PROVE  TypeOK'
<1>1. orderly' \in BOOLEAN
  BY Zenon DEF EnterInit, CanSetUp
<1>2. /\ state' \in States /\ next' \in [Calls -> Onward] /\ pc' \in [Calls -> Locations]
      /\ \A d \in Calls : pc'[d] = "setup" => pc[d] = "setup"
  BY DEF EnterInit, Goto, TypeOK, States, Locations
<1>3. UNCHANGED <<database, policies, continuous, profile, stored, batches, object, plan,
                  step, commands, failures, promised>>
  BY DEF EnterInit, dbVars, boundVars
<1> QED BY <1>1, <1>2, <1>3 DEF TypeOK, Nothing

LEMMA FailsTypes ==
    ASSUME TypeOK, Fails
    PROVE  promised' \in [Calls -> BOOLEAN] /\ failures' \in 0 .. MaxFailures
<1>1. promised' \in [Calls -> BOOLEAN]
  BY Zenon DEF Fails, NoPromise
<1>2. failures' \in 0 .. MaxFailures
  BY NumbersAssumption DEF Fails, TypeOK
<1> QED BY <1>1, <1>2

LEMMA WorksTypes ==
    ASSUME TypeOK, Works
    PROVE  promised' \in [Calls -> BOOLEAN] /\ failures' \in 0 .. MaxFailures
BY DEF Works, TypeOK

LEMMA InitDBTypeOK == ASSUME TypeOK, NEW c \in Calls, InitDB(c) PROVE TypeOK'
<1>1. /\ database' \in BOOLEAN /\ (database => database')
      /\ state' \in States /\ orderly' \in BOOLEAN
      /\ promised' \in [Calls -> BOOLEAN]
      /\ failures' \in 0 .. MaxFailures
  <2>1. CASE Works /\ database' = TRUE /\ UNCHANGED <<state, orderly>>
    BY <2>1 DEF Works, TypeOK
  <2>2. CASE Fails /\ database' \in {database, TRUE} /\ state' = "INITIALIZED_WITH_ERRORS"
             /\ orderly' = FALSE
    <3>1. database' \in BOOLEAN /\ (database => database')
      <4>1. CASE database' = database
        BY <4>1, Zenon DEF TypeOK
      <4>2. CASE database' = TRUE
        BY <4>2, Zenon
      <4> QED BY <2>2, <4>1, <4>2, Zenon
    <3>3. orderly' \in BOOLEAN
      BY <2>2, Zenon
    <3>2. state' \in States
      BY <2>2 DEF States
    <3> QED BY <2>2, <3>1, <3>2, <3>3, FailsTypes
  <2> QED BY <2>1, <2>2 DEF InitDB
<1>2. /\ plan' = [plan EXCEPT ![c] = profile] /\ step' = [step EXCEPT ![c] = 0]
      /\ pc' = [pc EXCEPT ![c] = "setup"]
      /\ UNCHANGED <<policies, continuous, profile, stored, batches, next, object, commands>>
  BY DEF InitDB, Goto
<1>3. 1 \in DOMAIN Requests(profile)
  BY RequestFacts
<1>4. /\ plan' \in [Calls -> Profiles \cup {None}] /\ step' \in [Calls -> Nat]
      /\ pc' \in [Calls -> Locations]
  BY <1>2 DEF TypeOK, Locations
<1>5. ASSUME NEW d \in Calls, pc'[d] = "setup"
      PROVE  step'[d] + 1 \in DOMAIN Requests(plan'[d])
  BY <1>2, <1>3, <1>5 DEF TypeOK
<1> QED BY <1>1, <1>2, <1>4, <1>5 DEF TypeOK, Nothing

LEMMA ApplyTypes ==
    ASSUME TypeOK, NEW r, NEW p, IsRequest(r, p), ~Refused(r, p), Apply(r, p)
    PROVE  /\ policies' \in [Buckets \cup Legacy -> Nat]
           /\ continuous' \subseteq ContinuousQueries
           /\ ~database => policies' = Nothing /\ continuous' = {}
<1>1. BucketDuration(p, r.name) \in Nat
  BY DurationType
<1>2. CASE r.do = "create"
  BY <1>1, <1>2 DEF IsRequest, Refused, Apply, TypeOK
<1>3. CASE r.do = "delete"
  <2>1. policies' = [policies EXCEPT ![r.name] = 0] /\ continuous' = continuous
    BY <1>3 DEF Apply
  <2>2. policies = Nothing => policies' = Nothing
    BY <2>1 DEF Nothing
  <2> QED BY <2>1, <2>2 DEF TypeOK
<1>4. CASE r.do = "cq"
  BY <1>4 DEF IsRequest, Refused, Apply, TypeOK
<1> QED BY <1>2, <1>3, <1>4 DEF IsRequest

\* A call stays in its set-up only while there are requests to make.
LEMMA AnsweredTypes ==
    ASSUME TypeOK, NEW c \in Calls, pc[c] = "setup", NEW error, Answered(c, error),
           UNCHANGED plan
    PROVE  /\ step' = [step EXCEPT ![c] = step[c] + 1]
           /\ pc' \in [Calls -> Locations]
           /\ pc' = [pc EXCEPT ![c] = pc'[c]] /\ pc'[c] \in {"setup", "built"}
           /\ \A d \in Calls : pc'[d] = "setup" => step'[d] + 1 \in DOMAIN Requests(plan'[d])
<1>1. /\ step' = [step EXCEPT ![c] = step[c] + 1]
      /\ \/ pc' = [pc EXCEPT ![c] = "built"]
         \/ pc' = [pc EXCEPT ![c] = "setup"] /\ step[c] + 1 # Len(Requests(plan[c]))
  BY DEF Answered, Goto, TypeOK
<1>2. step[c] \in Nat /\ step[c] + 1 \in 1 .. Len(Requests(plan[c]))
  BY RequestFacts DEF TypeOK
<1>3. ASSUME NEW d \in Calls, pc'[d] = "setup"
      PROVE  step'[d] + 1 \in DOMAIN Requests(plan'[d])
  <2>1. CASE d = c
    <3>1. step'[c] = step[c] + 1 /\ step[c] + 1 # Len(Requests(plan[c]))
      BY <1>1, <1>3, <2>1 DEF TypeOK
    <3> QED BY <1>2, <2>1, <3>1, RequestFacts
  <2>2. CASE d # c
    BY <1>1, <1>3, <2>2 DEF TypeOK
  <2> QED BY <2>1, <2>2
<1> QED BY <1>1, <1>3 DEF TypeOK, Locations

\* What a step of a set-up does: it is carried out, or refused, or fails.
LEMMA SetupStepFacts ==
    ASSUME TypeOK, NEW c \in Calls, SetupStep(c)
    PROVE  LET r == Requests(plan[c])[step[c] + 1]
           IN  /\ pc[c] = "setup"
               /\ step[c] \in Nat /\ step[c] + 1 \in 1 .. Len(Requests(plan[c]))
               /\ IsRequest(r, plan[c])
               /\ \/ ~Refused(r, plan[c]) /\ Apply(r, plan[c])
                  \/ UNCHANGED <<policies, continuous>>
               /\ orderly' =>
                     /\ orderly
                     /\ \/ /\ ~Refused(r, plan[c]) /\ Apply(r, plan[c])
                           /\ Answered(c, FALSE)
                        \/ /\ Refused(r, plan[c]) /\ UNCHANGED <<policies, continuous>>
                           /\ Answered(c, TRUE)
               /\ Answered(c, FALSE) \/ Answered(c, TRUE)
               /\ Works \/ Fails
               /\ orderly' \in BOOLEAN
               /\ UNCHANGED <<database, profile, stored, state, batches, next, object,
                              plan, commands>>
<1> DEFINE r == Requests(plan[c])[step[c] + 1]
<1>1. pc[c] = "setup"
  BY DEF SetupStep
<1>2. step[c] \in Nat /\ step[c] + 1 \in 1 .. Len(Requests(plan[c]))
  BY <1>1, RequestFacts DEF TypeOK
<1>3. IsRequest(r, plan[c])
  BY <1>2, RequestFacts
<1>4. /\ \/ /\ ~Refused(r, plan[c]) /\ Apply(r, plan[c])
            /\ Answered(c, FALSE) /\ Works /\ UNCHANGED orderly
         \/ /\ Refused(r, plan[c]) /\ UNCHANGED <<policies, continuous>>
            /\ Answered(c, TRUE) /\ Works /\ UNCHANGED orderly
         \/ /\ \/ ~Refused(r, plan[c]) /\ Apply(r, plan[c])
               \/ UNCHANGED <<policies, continuous>>
            /\ Answered(c, TRUE) /\ Fails /\ orderly' = FALSE
      /\ UNCHANGED <<database, profile, stored, state, batches, next, object, plan, commands>>
  BY DEF SetupStep, procVars
<1> HIDE DEF r
<1>5. orderly' \in BOOLEAN
  BY <1>4, Zenon DEF TypeOK
<1>6. orderly' => orderly
  BY <1>4, Zenon
<1> QED BY <1>1, <1>2, <1>3, <1>4, <1>5, <1>6, Zenon DEF r

LEMMA SetupStepTypeOK == ASSUME TypeOK, NEW c \in Calls, SetupStep(c) PROVE TypeOK'
<1> DEFINE r == Requests(plan[c])[step[c] + 1]
<1>1. /\ pc[c] = "setup"
      /\ IsRequest(r, plan[c])
      /\ \/ ~Refused(r, plan[c]) /\ Apply(r, plan[c])
         \/ UNCHANGED <<policies, continuous>>
      /\ Answered(c, FALSE) \/ Answered(c, TRUE)
      /\ Works \/ Fails
      /\ orderly' \in BOOLEAN
      /\ UNCHANGED <<database, profile, stored, state, batches, next, object, plan, commands>>
  BY SetupStepFacts
<1> HIDE DEF r
<1>2. /\ policies' \in [Buckets \cup Legacy -> Nat] /\ continuous' \subseteq ContinuousQueries
      /\ ~database => policies' = Nothing /\ continuous' = {}
  BY <1>1, ApplyTypes DEF TypeOK
<1>3. /\ step' = [step EXCEPT ![c] = step[c] + 1]
      /\ pc' \in [Calls -> Locations]
      /\ \A d \in Calls : pc'[d] = "setup" => step'[d] + 1 \in DOMAIN Requests(plan'[d])
  BY <1>1, AnsweredTypes
<1>4. step' \in [Calls -> Nat]
  BY <1>3 DEF TypeOK
<1>5. promised' \in [Calls -> BOOLEAN] /\ failures' \in 0 .. MaxFailures
  BY <1>1, WorksTypes, FailsTypes
<1> QED BY <1>1, <1>2, <1>3, <1>4, <1>5 DEF TypeOK, Nothing

\* A call moves to a location that is not one of a set-up, and the rest keeps its type.
LEMMA MoveTypeOK ==
    ASSUME TypeOK, NEW c \in Calls, NEW l \in Locations \ {"setup"},
           pc' = [pc EXCEPT ![c] = l],
           \A d \in Calls : d # c => step'[d] = step[d] /\ plan'[d] = plan[d],
           step' \in [Calls -> Nat], plan' \in [Calls -> Profiles \cup {None}],
           database' \in BOOLEAN, policies' \in [Buckets \cup Legacy -> Nat],
           continuous' \subseteq ContinuousQueries,
           ~database' => policies' = Nothing /\ continuous' = {},
           profile' \in Profiles, stored' \in Profiles, state' \in States,
           batches' \in BOOLEAN, next' \in [Calls -> Onward],
           object' \in [Calls -> Buckets \cup Profiles \cup {None}],
           commands' \in 0 .. MaxCommands, failures' \in 0 .. MaxFailures,
           orderly' \in BOOLEAN, promised' \in [Calls -> BOOLEAN]
    PROVE  TypeOK'
<1>1. pc' \in [Calls -> Locations]
  BY DEF TypeOK
<1>2. \A d \in Calls : pc'[d] = "setup" => step'[d] + 1 \in DOMAIN Requests(plan'[d])
  BY DEF TypeOK
<1> QED BY <1>1, <1>2 DEF TypeOK, Nothing

LEMMA BuiltTypeOK == ASSUME TypeOK, NEW c \in Calls, Built(c) PROVE TypeOK'
<1>1. /\ pc' = [pc EXCEPT ![c] = next[c]]
      /\ next[c] \in Locations \ {"setup"}
      /\ state' \in States /\ next' \in [Calls -> Onward]
      /\ plan' \in [Calls -> Profiles \cup {None}] /\ step' \in [Calls -> Nat]
      /\ \A d \in Calls : d # c => step'[d] = step[d] /\ plan'[d] = plan[d]
      /\ batches' = TRUE
      /\ UNCHANGED <<database, policies, continuous, profile, stored, object, commands,
                     failures, orderly, promised>>
  BY DEF Built, Goto, TypeOK, States, Locations, Onward, dbVars, boundVars
<1>2. batches' \in BOOLEAN
  BY <1>1, Zenon
<1> QED BY <1>1, <1>2, MoveTypeOK DEF TypeOK

LEMMA ReturnsTypes ==
    ASSUME TypeOK, NEW c \in Calls, Returns(c)
    PROVE  /\ pc' = [pc EXCEPT ![c] = "idle"]
           /\ profile' \in Profiles /\ stored' \in Profiles /\ orderly' \in BOOLEAN
           /\ object' \in [Calls -> Buckets \cup Profiles \cup {None}]
           /\ promised' \in [Calls -> BOOLEAN]
           /\ orderly' => orderly /\ profile' = profile
<1>1. CASE object[c] \in Profiles
  <2>1. profile' \in Profiles /\ stored' \in Profiles
    BY <1>1 DEF Returns
  <2>2. orderly' = (orderly /\ profile' = profile)
    BY <1>1 DEF Returns
  <2>3. orderly' \in BOOLEAN /\ (orderly' => orderly /\ profile' = profile)
    BY <2>2, Zenon
  <2> QED BY <2>1, <2>3 DEF Returns, Goto, TypeOK
<1>2. CASE object[c] \notin Profiles
  BY <1>2 DEF Returns, Goto, TypeOK
<1> QED BY <1>1, <1>2

\* Start without Init.
StartsOn(c) ==
    /\ pc[c] = "start" /\ state \notin NeedsInit
    /\ IF state \in AlreadyUp
       THEN Returns(c)
       ELSE Goto(c, "connect") /\ UNCHANGED <<profile, stored, object, orderly, promised>>
    /\ UNCHANGED <<dbVars, state, batches, next, plan, step, boundVars>>

LEMMA StartsOnTypes ==
    ASSUME TypeOK, NEW c \in Calls, StartsOn(c)
    PROVE  TypeOK' /\ (orderly' => orderly /\ profile' = profile)
<1>1. UNCHANGED <<database, policies, continuous, state, batches, next, plan, step,
                  commands, failures>>
  BY DEF StartsOn, dbVars, boundVars
<1>2. CASE state \in AlreadyUp
  <2>1. Returns(c)
    BY <1>2 DEF StartsOn
  <2> QED BY <1>1, <2>1, ReturnsTypes, MoveTypeOK DEF TypeOK, Locations
<1>3. CASE state \notin AlreadyUp
  <2>1. /\ pc' = [pc EXCEPT ![c] = "connect"]
        /\ UNCHANGED <<profile, stored, object, orderly, promised>>
    BY <1>3 DEF StartsOn, Goto
  <2> QED BY <1>1, <2>1, MoveTypeOK DEF TypeOK, Locations
<1> QED BY <1>2, <1>3

LEMMA ConnectTypes ==
    ASSUME TypeOK, NEW c \in Calls, Connect(c)
    PROVE  /\ TypeOK'
           /\ pc' = [pc EXCEPT ![c] = "idle"]
           /\ orderly' => orderly /\ profile' = profile
<1>1. UNCHANGED <<database, policies, continuous, batches, next, plan, step, commands>>
  BY DEF Connect, dbVars
<1>2. CASE /\ state' = IF state = "INITIALIZED" THEN "RUNNING" ELSE state
           /\ Returns(c) /\ UNCHANGED failures
  <2>1. state' \in States
    BY <1>2 DEF TypeOK, States
  <2> QED BY <1>1, <1>2, <2>1, ReturnsTypes, MoveTypeOK DEF TypeOK, Locations
<1>3. CASE /\ Fails /\ Goto(c, "idle") /\ object' = [object EXCEPT ![c] = None]
           /\ UNCHANGED <<profile, stored, state, orderly>>
  BY <1>1, <1>3, FailsTypes, MoveTypeOK DEF Goto, TypeOK, Locations
<1> QED BY <1>2, <1>3 DEF Connect

LEMMA StopTypes ==
    ASSUME TypeOK, NEW c \in Calls, Stop(c)
    PROVE  /\ TypeOK'
           /\ pc' = [pc EXCEPT ![c] = next[c]] /\ next[c] \in Onward
           /\ UNCHANGED <<dbVars, profile, plan, step, orderly>>
<1>1. /\ pc' = [pc EXCEPT ![c] = next[c]] /\ next[c] \in Onward
      /\ next[c] \in Locations \ {"setup"}
      /\ state' \in States /\ next' \in [Calls -> Onward]
      /\ UNCHANGED <<database, policies, continuous, profile, stored, batches, object, plan,
                     step, commands, failures, orderly, promised>>
  BY DEF Stop, Goto, TypeOK, States, Locations, Onward, dbVars, boundVars
<1> QED BY <1>1, MoveTypeOK DEF TypeOK, dbVars

\* A command begins, of whatever kind.
Begins(c) ==
    \/ CtrlStart(c) \/ CtrlStop(c) \/ DropDB(c)
    \/ \E p \in Configured : UpdateConfig(c, p)
    \/ \E b \in Touched : DeleteRetentionPolicy(c, b)

LEMMA BeginsTypes ==
    ASSUME TypeOK, NEW c \in Calls, Begins(c)
    PROVE  /\ TypeOK'
           /\ \E l \in {"start", "stop"} : pc' = [pc EXCEPT ![c] = l]
           /\ pc[c] = "idle"
           /\ orderly' => orderly /\ profile' = profile
           /\ UNCHANGED <<dbVars, plan, step>>
<1>1. PICK l \in {"start", "stop"}, n \in Onward, o \in Buckets \cup Profiles \cup {None} :
        Begin(c, l, n, o)
  <2>1. CASE CtrlStart(c)
    BY <2>1 DEF CtrlStart, Onward
  <2>2. CASE CtrlStop(c)
    BY <2>2 DEF CtrlStop, Onward
  <2>3. CASE DropDB(c)
    BY <2>3 DEF DropDB, Onward
  <2>4. CASE \E p \in Configured : UpdateConfig(c, p)
    BY <2>4, NamesAssumption DEF UpdateConfig, Onward
  <2>5. CASE \E b \in Touched : DeleteRetentionPolicy(c, b)
    BY <2>5, NamesAssumption DEF DeleteRetentionPolicy, Onward
  <2> QED BY <2>1, <2>2, <2>3, <2>4, <2>5 DEF Begins
<1>2. /\ pc[c] = "idle" /\ pc' = [pc EXCEPT ![c] = l]
      /\ commands' \in 0 .. MaxCommands
      /\ next' \in [Calls -> Onward]
      /\ object' \in [Calls -> Buckets \cup Profiles \cup {None}]
      /\ UNCHANGED <<database, policies, continuous, stored, state, batches, plan, step, failures>>
  BY <1>1, NumbersAssumption DEF Begin, Goto, TypeOK, dbVars
<1>3. promised' \in [Calls -> BOOLEAN]
  <2>1. \A p : Promise(c, p) => promised' \in [Calls -> BOOLEAN]
    BY Zenon DEF Promise
  <2>2. NoPromise => promised' \in [Calls -> BOOLEAN]
    BY Zenon DEF NoPromise
  <2> QED BY <2>1, <2>2 DEF Begins, CtrlStart, CtrlStop, DropDB, UpdateConfig,
          DeleteRetentionPolicy
<1>4. profile' \in Profiles
  BY NamesAssumption DEF Begins, CtrlStart, CtrlStop, DropDB, UpdateConfig,
     DeleteRetentionPolicy, TypeOK
<1>5. orderly' \in BOOLEAN /\ (orderly' => orderly /\ profile' = profile)
  <2>1. CASE UNCHANGED <<profile, orderly>>
    BY <2>1 DEF TypeOK
  <2>2. CASE \E p \in Configured : UpdateConfig(c, p)
    <3>1. PICK p : orderly' = (orderly /\ p = profile) /\ profile' = p
      BY <2>2 DEF UpdateConfig
    <3> QED BY <3>1, Zenon
  <2> QED BY <2>1, <2>2 DEF Begins, CtrlStart, CtrlStop, DropDB, DeleteRetentionPolicy
<1>6. l \in Locations \ {"setup"}
  BY DEF Locations
<1> QED BY <1>2, <1>3, <1>4, <1>5, <1>6, MoveTypeOK DEF TypeOK, dbVars

LEMMA DeletionTypes ==
    ASSUME TypeOK, NEW c \in Calls, DeletePolicyNow(c) \/ DropDBNow(c)
    PROVE  TypeOK' /\ orderly' = FALSE
<1>1. /\ pc' = [pc EXCEPT ![c] = "start"] /\ orderly' = FALSE
      /\ UNCHANGED <<profile, stored, state, batches, next, object, plan, step, commands>>
      /\ Works \/ Fails
  BY DEF DeletePolicyNow, DropDBNow, Goto, procVars
<1>2. /\ database' \in BOOLEAN /\ policies' \in [Buckets \cup Legacy -> Nat]
      /\ continuous' \subseteq ContinuousQueries
      /\ ~database' => policies' = Nothing /\ continuous' = {}
  <2>1. CASE DeletePolicyNow(c)
    <3>1. UNCHANGED <<database, continuous>>
      BY <2>1 DEF DeletePolicyNow
    <3>2. policies' = policies \/ policies' = [policies EXCEPT ![object[c]] = 0]
      BY <2>1 DEF DeletePolicyNow
    <3>3. policies' \in [Buckets \cup Legacy -> Nat]
      BY <3>2 DEF TypeOK
    <3>4. policies = Nothing => policies' = Nothing
      BY <3>2 DEF Nothing
    <3> QED BY <3>1, <3>3, <3>4 DEF TypeOK
  <2>2. CASE DropDBNow(c)
    <3>1. CASE UNCHANGED dbVars
      BY <3>1 DEF dbVars, TypeOK
    <3>2. CASE database' = FALSE /\ policies' = Nothing /\ continuous' = {}
      <4>1. database' \in BOOLEAN
        BY <3>2, Zenon
      <4>2. policies' \in [Buckets \cup Legacy -> Nat]
        BY <3>2 DEF Nothing
      <4> QED BY <3>2, <4>1, <4>2
    <3> QED BY <2>2, <3>1, <3>2 DEF DropDBNow
  <2> QED BY <2>1, <2>2
<1>3. orderly' \in BOOLEAN
  BY <1>1, Zenon
<1> QED BY <1>1, <1>2, <1>3, WorksTypes, FailsTypes, MoveTypeOK DEF TypeOK, Locations

LEMMA RequestTypes ==
    ASSUME TypeOK, Request
    PROVE  /\ promised' \in [Calls -> BOOLEAN] /\ commands' \in 0 .. MaxCommands
           /\ UNCHANGED <<database, profile, stored, state, batches, pc, next, object, plan,
                          step, failures>>
<1>1. promised' \in [Calls -> BOOLEAN]
  BY Zenon DEF Request, NoPromise
<1> QED BY <1>1, NumbersAssumption DEF Request, procVars, callVars, TypeOK

LEMMA DeleteCQTypes ==
    ASSUME TypeOK, NEW q \in ContinuousQueries, DeleteCQ(q)
    PROVE  TypeOK' /\ orderly' = FALSE
<1>1. continuous' = continuous \ {q} /\ UNCHANGED policies
  BY DEF DeleteCQ
<1>2. orderly' = FALSE /\ Request
  BY DEF DeleteCQ
<1>3. orderly' \in BOOLEAN
  BY <1>2, Zenon
<1>4. continuous' \subseteq ContinuousQueries /\ (continuous = {} => continuous' = {})
  BY <1>1 DEF TypeOK
<1> QED BY <1>1, <1>2, <1>3, <1>4, RequestTypes DEF TypeOK, Nothing

LEMMA SetRetentionPolicyTypes ==
    ASSUME TypeOK, NEW b \in Touched, NEW d \in Durations, SetRetentionPolicy(b, d)
    PROVE  /\ TypeOK'
           /\ database /\ policies' = [policies EXCEPT ![b] = d] /\ d \in Nat \ {0}
           /\ b \in Buckets
           /\ UNCHANGED <<database, continuous, profile, pc, plan, step>>
           /\ orderly' => orderly /\ (b # "gen_year" \/ SettingUp = {})
<1>1. /\ database /\ policies' = [policies EXCEPT ![b] = d] /\ UNCHANGED continuous
      /\ Request /\ b \in Buckets /\ d \in Nat \ {0}
  BY NamesAssumption, NumbersAssumption DEF SetRetentionPolicy
<1>2. orderly' = (orderly /\ (b # "gen_year" \/ SettingUp = {}))
  BY DEF SetRetentionPolicy
<1>3. orderly' \in BOOLEAN /\ (orderly' => orderly /\ (b # "gen_year" \/ SettingUp = {}))
  BY <1>2, Zenon
<1>4. policies' \in [Buckets \cup Legacy -> Nat]
  BY <1>1 DEF TypeOK
<1> QED BY <1>1, <1>3, <1>4, RequestTypes DEF TypeOK

LEMMA FlushTypes ==
    ASSUME TypeOK, NEW b, Flush(b)
    PROVE  /\ TypeOK'
           /\ UNCHANGED <<database, policies, continuous, profile, pc, plan, step, orderly>>
<1>1. UNCHANGED <<database, policies, continuous, profile, stored, batches, pc, next, object,
                  plan, step, commands, orderly>>
  BY DEF Flush, dbVars, callVars
<1>2. /\ state' \in States
      /\ (NoPromise /\ UNCHANGED failures) \/ Fails
  BY DEF Flush, StateAfterError, States
<1>3. promised' \in [Calls -> BOOLEAN] /\ failures' \in 0 .. MaxFailures
  <2>1. CASE NoPromise /\ UNCHANGED failures
    <3>1. promised' \in [Calls -> BOOLEAN]
      BY <2>1, Zenon DEF NoPromise
    <3> QED BY <2>1, <3>1 DEF TypeOK
  <2> QED BY <1>2, <2>1, FailsTypes
<1> QED BY <1>1, <1>2, <1>3 DEF TypeOK, Nothing

LEMMA RestartTypes == ASSUME TypeOK, Restart PROVE TypeOK' /\ orderly' = FALSE
<1>1. /\ pc' \in [Calls -> {"idle", "boot"}]
      /\ next' \in [Calls -> Onward] /\ object' \in [Calls -> {None}]
      /\ plan' \in [Calls -> {None}] /\ step' \in [Calls -> Nat]
      /\ profile' \in Profiles /\ state' \in States /\ failures' \in 0 .. MaxFailures
      /\ UNCHANGED <<database, policies, continuous, stored, commands>>
  BY NumbersAssumption DEF Restart, Booting, Onward, States, TypeOK, dbVars
<1>2. batches' \in BOOLEAN /\ orderly' \in BOOLEAN /\ orderly' = FALSE
  BY Zenon DEF Restart
<1>3. promised' \in [Calls -> BOOLEAN]
  BY Zenon DEF Restart
<1> QED BY <1>1, <1>2, <1>3 DEF TypeOK, Locations, Nothing

-----------------------------------------------------------------------------
(* The witness *)

\* Nothing that is there is taken away.
Grows ==
    /\ database => database'
    /\ \A b \in Buckets : policies[b] # 0 => policies'[b] # 0
    /\ \A b \in Legacy : policies[b] = 0 => policies'[b] = 0
    /\ continuous \subseteq continuous' /\ continuous' \subseteq ContinuousQueries

LEMMA InForceGrows ==
    ASSUME Grows, NEW r, NEW p, IsRequest(r, p), InForce(r)
    PROVE  InForce(r)'
BY DEF Grows, IsRequest, InForce

LEMMA CompleteGrows ==
    ASSUME TypeOK, Grows, Complete, profile' = profile
    PROVE  Complete'
<1>1. \A b \in Buckets : BucketDuration(profile, b)' = BucketDuration(profile, b)
  BY DEF BucketDuration
<1> QED BY <1>1 DEF Complete, Grows, TypeOK

LEMMA WitnessGrows ==
    ASSUME TypeOK, Grows, NEW c \in Calls, IsWitness(c), profile' = profile,
           pc'[c] = pc[c], plan'[c] = plan[c], step'[c] = step[c]
    PROVE  IsWitness(c)'
<1>1. PICK p \in Profiles : p = profile
  BY DEF TypeOK
<1>2. step[c] \in Nat /\ step[c] + 1 \in 1 .. Len(Requests(p))
  BY <1>1, RequestFacts DEF TypeOK, IsWitness
<1>3. \A i \in 1 .. step[c] : InForce(Requests(p)[i])'
  <2> SUFFICES ASSUME NEW i \in 1 .. step[c] PROVE InForce(Requests(p)[i])'
    OBVIOUS
  <2>1. IsRequest(Requests(p)[i], p)
    BY <1>2, RequestFacts
  <2>2. InForce(Requests(p)[i])
    BY <1>1 DEF IsWitness
  <2> QED BY <2>1, <2>2, InForceGrows
<1> QED BY <1>1, <1>3 DEF IsWitness, Grows

\* Whatever takes nothing away and leaves the set-ups alone keeps the witness.
LEMMA CarriedOn ==
    ASSUME IInv,
           orderly' => /\ orderly /\ profile' = profile /\ Grows
                       /\ SettingUp' # {} => CanSetUp(profile)'
                       /\ \A c \in Calls : pc[c] \in {"database", "setup"} =>
                              pc'[c] = pc[c] /\ plan'[c] = plan[c] /\ step'[c] = step[c]
    PROVE  Carried'
<1> SUFFICES ASSUME orderly'
             PROVE  \/ Complete'
                    \/ \E c \in Calls : (pc[c] = "database")' \/ IsWitness(c)'
  BY DEF Carried
<1>1. CASE Complete
  BY <1>1, CompleteGrows DEF IInv
<1>2. ASSUME NEW c \in Calls, pc[c] = "database" PROVE pc'[c] = "database"
  BY <1>2
<1>3. ASSUME NEW c \in Calls, IsWitness(c) PROVE IsWitness(c)'
  BY <1>3, WitnessGrows DEF IInv, IsWitness
<1> QED BY <1>1, <1>2, <1>3 DEF IInv, Carried

\* The same of the next state.
LEMMA RequestsCoverNext ==
    (/\ database /\ profile \in Profiles /\ continuous \subseteq ContinuousQueries
     /\ \A i \in 1 .. Len(Requests(profile)) : InForce(Requests(profile)[i])
     => Complete)'
<1>1. /\ database /\ profile \in Profiles /\ continuous \subseteq ContinuousQueries
      /\ \A i \in 1 .. Len(Requests(profile)) : InForce(Requests(profile)[i])
      => Complete
  BY RequestsCover
<1> QED BY <1>1, PTL

LEMMA EnterInitCarries ==
    ASSUME IInv, NEW c \in Calls, NEW n \in Onward, EnterInit(c, n)
    PROVE  Carried'
<1>1. pc'[c] = "database" /\ UNCHANGED <<policies, profile>>
  BY DEF EnterInit, Goto, dbVars, IInv, TypeOK
<1>2. orderly' = CanSetUp(profile)
  BY DEF EnterInit
<1>3. CanSetUp(profile)' <=> CanSetUp(profile)
  BY <1>1 DEF CanSetUp
<1> QED BY <1>1, <1>2, <1>3 DEF Carried

LEMMA InitDBCarries ==
    ASSUME IInv, NEW c \in Calls, InitDB(c)
    PROVE  Carried'
<1> SUFFICES ASSUME orderly' PROVE CanSetUp(profile)' /\ IsWitness(c)'
  BY DEF Carried
<1>1. /\ pc[c] = "database" /\ pc'[c] = "setup" /\ plan'[c] = profile /\ step'[c] = 0
      /\ UNCHANGED <<policies, profile>>
  BY DEF InitDB, Goto, IInv, TypeOK
<1>2. database' = TRUE /\ orderly
  BY Zenon DEF InitDB
<1>3. CanSetUp(profile)
  BY <1>1, <1>2 DEF IInv, Carried, SettingUp
<1>4. CanSetUp(profile)'
  BY <1>1, <1>3 DEF CanSetUp
<1>5. \A i \in 1 .. step'[c] : InForce(Requests(profile)[i])'
  BY <1>1
<1> QED BY <1>1, <1>2, <1>4, <1>5 DEF IsWitness

-----------------------------------------------------------------------------
(* A request of a set-up *)

LEMMA ApplyGrows ==
    ASSUME TypeOK, NEW r, NEW p, IsRequest(r, p), ~Refused(r, p), Apply(r, p),
           UNCHANGED database
    PROVE  Grows /\ InForce(r)'
<1>1. BucketDuration(p, r.name) \in Nat /\ continuous' \subseteq ContinuousQueries
  BY DurationType, ApplyTypes
<1>0. Buckets \cap Legacy = {}
  BY DEF Buckets, Legacy
<1>2. CASE r.do = "create"
  BY <1>0, <1>1, <1>2 DEF IsRequest, Apply, Grows, InForce, TypeOK
<1>3. CASE r.do = "delete"
  BY <1>0, <1>1, <1>3 DEF IsRequest, Apply, Grows, InForce, TypeOK
<1>4. CASE r.do = "cq"
  BY <1>1, <1>4 DEF IsRequest, Apply, Grows, InForce, TypeOK
<1> QED BY <1>2, <1>3, <1>4 DEF IsRequest

LEMMA ApplyKeepsYear ==
    ASSUME TypeOK, NEW r, NEW p, IsRequest(r, p), Apply(r, p), UNCHANGED profile,
           CanSetUp(profile)
    PROVE  CanSetUp(profile)'
<1>1. CASE r.do = "create" /\ r.name = "gen_year"
  <2>1. policies'["gen_year"] = BucketDuration(p, "gen_year") /\ BucketDuration(p, "gen_year") # 0
    BY <1>1 DEF Apply, IsRequest, TypeOK, Buckets
  <2>2. BucketDuration(p, "gen_year") \in {0, 240 * Week}
    BY DEF BucketDuration
  <2> QED BY <2>1, <2>2 DEF CanSetUp
<1>2. CASE ~(r.do = "create" /\ r.name = "gen_year")
  <2>1. "gen_year" \notin Legacy
    BY DEF Legacy
  <2>2. policies'["gen_year"] = policies["gen_year"]
    <3>1. CASE r.do = "create"
      BY <1>2, <3>1 DEF Apply, IsRequest, TypeOK, Buckets
    <3>2. CASE r.do = "delete"
      BY <2>1, <3>2 DEF Apply, IsRequest, TypeOK, Buckets
    <3>3. CASE r.do = "cq"
      BY <3>3 DEF Apply
    <3> QED BY <3>1, <3>2, <3>3 DEF IsRequest
  <2> QED BY <2>2 DEF CanSetUp
<1> QED BY <1>1, <1>2

\* A refusal ends a set-up only when gen_year has been altered.
LEMMA RefusedHasIt ==
    ASSUME TypeOK, NEW r, IsRequest(r, profile), Refused(r, profile), database,
           CanSetUp(profile), UNCHANGED <<policies, continuous>>
    PROVE  InForce(r)' /\ ~r.must
<1>1. r.do = "create" /\ policies[r.name] \notin {0, BucketDuration(profile, r.name)}
  BY DEF Refused
<1>2. InForce(r)'
  BY <1>1 DEF InForce
<1>3. CASE r.must
  <2>1. profile = "optimized" /\ r.name = "gen_year"
    BY <1>1, <1>3 DEF IsRequest
  <2>2. BucketDuration(profile, "gen_year") = 240 * Week
    BY <2>1 DEF BucketDuration
  <2> QED BY <1>1, <2>1, <2>2 DEF CanSetUp
<1> QED BY <1>2, <1>3

\* The witness makes its next request, and goes on or is done.
LEMMA WitnessAdvances ==
    ASSUME IInv, NEW c \in Calls, SetupStep(c), orderly', IsWitness(c), Grows,
           CanSetUp(profile)
    PROVE  Complete' \/ IsWitness(c)'
<1>0. PICK p, r : p \in Profiles /\ p = profile /\ r = Requests(p)[step[c] + 1]
  BY DEF IInv, TypeOK
<1>1. /\ TypeOK /\ TypeOK' /\ pc[c] = "setup" /\ plan[c] = profile /\ database
      /\ \A i \in 1 .. step[c] : InForce(Requests(profile)[i])
  BY SetupStepTypeOK DEF IInv, IsWitness
<1>2. /\ step[c] \in Nat /\ step[c] + 1 \in 1 .. Len(Requests(profile))
      /\ IsRequest(r, profile)
      /\ UNCHANGED <<database, profile, plan>>
      /\ \/ ~Refused(r, profile) /\ Apply(r, profile) /\ Answered(c, FALSE)
         \/ /\ Refused(r, profile) /\ UNCHANGED <<policies, continuous>>
            /\ Answered(c, TRUE)
  <2>1. plan[c] = profile
    BY <1>1
  <2> QED BY <1>0, <1>1, <2>1, SetupStepFacts
<1>4. /\ InForce(r)' /\ step' = [step EXCEPT ![c] = step[c] + 1]
      /\ Goto(c, "setup") \/ step[c] + 1 = Len(Requests(profile))
  <2>1. CASE ~Refused(r, profile) /\ Apply(r, profile) /\ Answered(c, FALSE)
    <3>1. InForce(r)'
      BY <1>1, <1>2, <2>1, ApplyGrows
    <3> QED BY <1>1, <2>1, <3>1 DEF Answered
  <2>2. CASE /\ Refused(r, profile) /\ UNCHANGED <<policies, continuous>>
             /\ Answered(c, TRUE)
    <3>1. InForce(r)' /\ ~r.must
      BY <1>1, <1>2, <2>2, RefusedHasIt
    <3> QED BY <1>0, <1>1, <2>2, <3>1 DEF Answered
  <2> QED BY <1>2, <2>1, <2>2
<1>5. \A i \in 1 .. step[c] + 1 : InForce(Requests(p)[i])'
  <2> SUFFICES ASSUME NEW i \in 1 .. step[c] + 1 PROVE InForce(Requests(p)[i])'
    OBVIOUS
  <2>1. CASE i = step[c] + 1
    BY <1>0, <1>4, <2>1
  <2>2. CASE i \in 1 .. step[c]
    <3>1. i \in 1 .. Len(Requests(p))
      BY <1>2, <1>0, <2>2, RequestFacts
    <3>2. IsRequest(Requests(p)[i], p)
      BY <3>1, RequestFacts
    <3>3. InForce(Requests(p)[i])
      BY <1>1, <1>0, <2>2
    <3> QED BY <3>2, <3>3, InForceGrows
  <2> QED BY <1>2, <2>1, <2>2
<1>6. profile' = p /\ database'
  BY <1>1, <1>2, <1>0
<1>7. CASE Goto(c, "setup")
  <2>1. step'[c] = step[c] + 1 /\ pc'[c] = "setup" /\ plan'[c] = profile'
    BY <1>1, <1>2, <1>4, <1>7 DEF Goto, TypeOK
  <2> QED BY <1>5, <1>6, <2>1 DEF IsWitness
<1>8. CASE step[c] + 1 = Len(Requests(profile))
  <2>1. \A i \in 1 .. Len(Requests(profile')) : InForce(Requests(profile)[i])'
    BY <1>0, <1>5, <1>6, <1>8
  <2> QED BY <1>1, <1>6, <2>1, RequestsCoverNext DEF TypeOK
<1> QED BY <1>4, <1>7, <1>8

LEMMA SetupStepCarries ==
    ASSUME IInv, NEW c \in Calls, SetupStep(c)
    PROVE  Carried'
<1> SUFFICES ASSUME orderly'
             PROVE  /\ CanSetUp(profile)'
                    /\ \/ Complete'
                       \/ \E d \in Calls : (pc[d] = "database")' \/ IsWitness(d)'
  BY DEF Carried
<1>0. PICK p, r : p = plan[c] /\ r = Requests(p)[step[c] + 1]
  OBVIOUS
<1>1. /\ TypeOK /\ pc[c] = "setup" /\ orderly /\ IsRequest(r, p)
      /\ \/ ~Refused(r, p) /\ Apply(r, p)
         \/ UNCHANGED <<policies, continuous>>
      /\ Answered(c, FALSE) \/ Answered(c, TRUE)
      /\ UNCHANGED <<database, profile, plan>>
  BY <1>0, SetupStepFacts DEF IInv
<1>2. CanSetUp(profile)
  BY <1>1 DEF IInv, Carried, SettingUp
<1>3. CanSetUp(profile)'
  <2>1. CASE ~Refused(r, p) /\ Apply(r, p)
    BY <1>1, <1>2, <2>1, ApplyKeepsYear
  <2>2. CASE UNCHANGED <<policies, continuous>>
    BY <1>1, <1>2, <2>2 DEF CanSetUp
  <2> QED BY <1>1, <2>1, <2>2
<1>4. Grows
  <2>1. CASE ~Refused(r, p) /\ Apply(r, p)
    BY <1>1, <2>1, ApplyGrows
  <2>2. CASE UNCHANGED <<policies, continuous>>
    BY <1>1, <2>2 DEF Grows, TypeOK
  <2> QED BY <1>1, <2>1, <2>2
<1>5. \A d \in Calls : d # c => pc'[d] = pc[d] /\ step'[d] = step[d] /\ plan'[d] = plan[d]
  <2>1. /\ pc' = [pc EXCEPT ![c] = pc'[c]]
        /\ step' = [step EXCEPT ![c] = step[c] + 1]
    BY <1>1, AnsweredTypes
  <2> QED BY <1>1, <2>1 DEF TypeOK
<1>6. CASE Complete
  BY <1>1, <1>3, <1>4, <1>6, CompleteGrows
<1>7. ASSUME NEW d \in Calls, pc[d] = "database"
      PROVE  pc'[d] = "database"
  BY <1>1, <1>5, <1>7
<1>8. ASSUME NEW d \in Calls, IsWitness(d)
      PROVE  Complete' \/ IsWitness(d)'
  <2>1. CASE d = c
    BY <1>2, <1>4, <1>8, <2>1, WitnessAdvances
  <2>2. CASE d # c
    BY <1>1, <1>4, <1>5, <1>8, <2>2, WitnessGrows
  <2> QED BY <2>1, <2>2
<1> QED BY <1>1, <1>3, <1>6, <1>7, <1>8 DEF IInv, Carried

-----------------------------------------------------------------------------
(* The other steps *)

\* A call that is not in a set-up goes to a location outside one, in the same database.
LEMMA MoveCarries ==
    ASSUME IInv, NEW c \in Calls, pc[c] \notin {"database", "setup"},
           pc' = [pc EXCEPT ![c] = pc'[c]], pc'[c] \notin {"database", "setup"},
           UNCHANGED dbVars,
           orderly' => orderly /\ profile' = profile,
           \A d \in Calls : d # c => step'[d] = step[d] /\ plan'[d] = plan[d]
    PROVE  Carried'
<1>1. UNCHANGED <<database, policies, continuous>>
  BY DEF dbVars
<1>2. Grows
  BY <1>1 DEF Grows, IInv, TypeOK
<1>3. \A d \in Calls : pc[d] \in {"database", "setup"} =>
          pc'[d] = pc[d] /\ plan'[d] = plan[d] /\ step'[d] = step[d]
  BY DEF IInv, TypeOK
<1>4. SettingUp' = SettingUp
  BY DEF SettingUp, IInv, TypeOK
<1>5. ASSUME orderly', SettingUp' # {} PROVE CanSetUp(profile)'
  <2>1. CanSetUp(profile) /\ profile' = profile
    BY <1>4, <1>5 DEF IInv, Carried
  <2> QED BY <1>1, <2>1 DEF CanSetUp
<1> QED BY <1>2, <1>3, <1>5, CarriedOn

\* The steps of a call that are not part of a set-up.
LEMMA MovesCarry ==
    ASSUME IInv, NEW c \in Calls,
           Built(c) \/ StartsOn(c) \/ Connect(c) \/ Stop(c) \/ Begins(c)
    PROVE  Carried'
<1>1. TypeOK /\ \A l \in Onward : l \notin {"database", "setup"}
  BY DEF IInv, Onward
<1>2. CASE Built(c)
  <2>1. /\ pc[c] = "built" /\ pc' = [pc EXCEPT ![c] = next[c]] /\ next[c] \in Onward
        /\ UNCHANGED <<dbVars, profile, orderly>>
        /\ \A d \in Calls : d # c => step'[d] = step[d] /\ plan'[d] = plan[d]
    BY <1>1, <1>2 DEF Built, Goto, TypeOK
  <2> QED BY <1>1, <2>1, MoveCarries DEF TypeOK
<1>3. CASE StartsOn(c)
  <2>1. /\ pc[c] = "start" /\ UNCHANGED <<dbVars, plan, step>>
        /\ \E l \in {"idle", "connect"} : pc' = [pc EXCEPT ![c] = l]
    BY <1>3 DEF StartsOn, Returns, Goto
  <2> QED BY <1>1, <1>3, <2>1, StartsOnTypes, MoveCarries DEF TypeOK
<1>4. CASE Connect(c)
  <2>1. pc[c] = "connect" /\ UNCHANGED <<dbVars, plan, step>>
    BY <1>4 DEF Connect
  <2> QED BY <1>1, <1>4, <2>1, ConnectTypes, MoveCarries DEF TypeOK
<1>5. CASE Stop(c)
  <2>1. pc[c] = "stop"
    BY <1>5 DEF Stop
  <2> QED BY <1>1, <1>5, <2>1, StopTypes, MoveCarries DEF TypeOK
<1>6. CASE Begins(c)
  BY <1>1, <1>6, BeginsTypes, MoveCarries DEF TypeOK
<1> QED BY <1>2, <1>3, <1>4, <1>5, <1>6

LEMMA SetRetentionPolicyCarries ==
    ASSUME IInv, NEW b \in Touched, NEW d \in Durations, SetRetentionPolicy(b, d)
    PROVE  Carried'
<1>1. /\ TypeOK /\ policies' = [policies EXCEPT ![b] = d] /\ d \in Nat \ {0} /\ b \in Buckets
      /\ UNCHANGED <<database, continuous, profile, pc, plan, step>>
      /\ orderly' => orderly /\ (b # "gen_year" \/ SettingUp = {})
  BY SetRetentionPolicyTypes DEF IInv
<1>2. Grows
  <2>1. Buckets \cap Legacy = {}
    BY DEF Buckets, Legacy
  <2> QED BY <1>1, <2>1 DEF Grows, TypeOK
<1>3. SettingUp' = SettingUp
  BY <1>1 DEF SettingUp
<1>4. ASSUME orderly', SettingUp' # {} PROVE CanSetUp(profile)'
  <2>1. CanSetUp(profile) /\ b # "gen_year"
    BY <1>1, <1>3, <1>4 DEF IInv, Carried
  <2>2. policies'["gen_year"] = policies["gen_year"]
    BY <1>1, <2>1 DEF TypeOK, Buckets
  <2> QED BY <1>1, <2>1, <2>2 DEF CanSetUp
<1> QED BY <1>1, <1>2, <1>4, CarriedOn

\* Nothing that the witness looks at changes.
LEMMA SameCarries ==
    ASSUME IInv,
           UNCHANGED <<database, policies, continuous, profile, pc, plan, step, orderly>>
    PROVE  Carried'
<1>1. Grows
  BY DEF Grows, IInv, TypeOK
<1>2. SettingUp' = SettingUp
  BY DEF SettingUp
<1>3. ASSUME orderly', SettingUp' # {} PROVE CanSetUp(profile)'
  BY <1>2, <1>3 DEF IInv, Carried, CanSetUp
<1> QED BY <1>1, <1>3, CarriedOn

-----------------------------------------------------------------------------
(* The theorems *)

LEMMA InitIInv == Init => IInv
<1> SUFFICES ASSUME Init PROVE IInv
  OBVIOUS
<1>1. orderly = FALSE
  BY DEF Init
<1> QED BY <1>1, InitTypeOK DEF IInv, Carried

LEMMA CallIInv ==
    ASSUME IInv, NEW c \in Calls, Commands(c) \/ Proceeds(c)
    PROVE  IInv'
<1>1. TypeOK
  BY DEF IInv
<1>2. CASE Commands(c)
  <2>1. Begins(c)
    BY <1>2 DEF Commands, Begins
  <2> QED BY <1>1, <2>1, BeginsTypes, MovesCarry DEF IInv
<1>3. CASE Boot(c)
  <2>1. EnterInit(c, "start") /\ "start" \in Onward
    BY <1>3 DEF Boot, Onward
  <2> QED BY <1>1, <2>1, EnterInitTypeOK, EnterInitCarries DEF IInv
<1>4. CASE InitDB(c)
  BY <1>1, <1>4, InitDBTypeOK, InitDBCarries DEF IInv
<1>5. CASE SetupStep(c)
  BY <1>1, <1>5, SetupStepTypeOK, SetupStepCarries DEF IInv
<1>6. CASE Built(c)
  BY <1>1, <1>6, BuiltTypeOK, MovesCarry DEF IInv
<1>7. CASE Start(c)
  <2>1. EnterInit(c, "connect") \/ StartsOn(c)
    BY <1>7 DEF Start, StartsOn
  <2>2. CASE EnterInit(c, "connect")
    BY <1>1, <2>2, EnterInitTypeOK, EnterInitCarries DEF IInv, Onward
  <2>3. CASE StartsOn(c)
    BY <1>1, <2>3, StartsOnTypes, MovesCarry DEF IInv
  <2> QED BY <2>1, <2>2, <2>3
<1>8. CASE Connect(c)
  BY <1>1, <1>8, ConnectTypes, MovesCarry DEF IInv
<1>9. CASE Stop(c)
  BY <1>1, <1>9, StopTypes, MovesCarry DEF IInv
<1>10. CASE DeletePolicyNow(c) \/ DropDBNow(c)
  BY <1>1, <1>10, DeletionTypes DEF IInv, Carried
<1> QED BY <1>2, <1>3, <1>4, <1>5, <1>6, <1>7, <1>8, <1>9, <1>10 DEF Proceeds

LEMMA NextIInv == IInv /\ [Next]_vars => IInv'
<1> SUFFICES ASSUME IInv, [Next]_vars PROVE IInv'
  OBVIOUS
<1>1. TypeOK
  BY DEF IInv
<1>2. ASSUME NEW c \in Calls, Commands(c) \/ Proceeds(c) PROVE IInv'
  BY <1>2, CallIInv
<1>3. ASSUME NEW q \in ContinuousQueries, DeleteCQ(q) PROVE IInv'
  BY <1>1, <1>3, DeleteCQTypes DEF IInv, Carried
<1>4. ASSUME NEW b \in Touched, NEW d \in Durations, SetRetentionPolicy(b, d) PROVE IInv'
  BY <1>1, <1>4, SetRetentionPolicyTypes, SetRetentionPolicyCarries DEF IInv
<1>5. ASSUME NEW b, Flush(b) PROVE IInv'
  BY <1>1, <1>5, FlushTypes, SameCarries DEF IInv
<1>6. CASE Restart
  BY <1>1, <1>6, RestartTypes DEF IInv, Carried
<1>7. CASE UNCHANGED vars
  <2>1. UNCHANGED <<database, policies, continuous, profile, stored, state, batches, pc, next,
                    object, plan, step, commands, failures, orderly, promised>>
    BY <1>7 DEF vars, dbVars, procVars, callVars, boundVars
  <2>2. TypeOK'
    BY <1>1, <2>1 DEF TypeOK, Nothing
  <2> QED BY <2>1, <2>2, SameCarries DEF IInv
<1> QED BY <1>2, <1>3, <1>4, <1>5, <1>6, <1>7 DEF Next

\* While a set-up that can succeed is under way somebody carries it on, for any calls,
\* commands, failures and restarts (process.go:61-119, influxdb_v1.go:45-85).
THEOREM Invariant == Spec => []IInv
BY InitIInv, NextIInv, PTL DEF Spec

\* The types, and that nothing is left of a dropped database (influxdb_v1.go:282-291).
THEOREM Typing == Spec => []TypeOK
<1>1. IInv => TypeOK
  BY DEF IInv
<1> QED BY <1>1, Invariant, PTL

\* Once a set-up that met no failure is over, everything is there that the profile
\* wants (process.go:80-93, influxdb_v1.go:45-85), however many goroutines set the
\* database up at a time.
THEOREM SetupLeavesNothingOut == Spec => []SetupIsComplete
<1>1. IInv => SetupIsComplete
  BY DEF IInv, TypeOK, Carried, SetupIsComplete, SettingUp, IsWitness
<1> QED BY <1>1, Invariant, PTL

-----------------------------------------------------------------------------
(* The promise of a restart *)

\* What a command that was promised its outcome relies on at its location: it
\* is alone, and a set-up it has still to make can succeed or has succeeded.
Kept(c) ==
    /\ pc[c] # "idle"
    /\ \A d \in Calls : d # c => pc[d] = "idle"
    /\ object[c] \in Profiles => object[c] = profile
    /\ pc[c] = "boot" => CanSetUp(profile)
    /\ pc[c] = "stop" =>
          /\ state \in NeedsInit \cup {"RUNNING"}
          /\ \/ next[c] = "start" /\ CanSetUp(profile)
             \/ next[c] = "delete_policy" /\ (CanSetUp(profile) \/ object[c] = "gen_year")
             \/ next[c] = "delete_database"
    /\ pc[c] = "delete_policy" =>
          state \in NeedsInit /\ (CanSetUp(profile) \/ object[c] = "gen_year")
    /\ pc[c] = "delete_database" => state \in NeedsInit
    /\ pc[c] = "start" =>
          \/ state \in NeedsInit /\ CanSetUp(profile)
          \/ state = "INITIALIZED" /\ orderly
    /\ pc[c] \in {"database", "setup", "built"} =>
          state = "STARTING" /\ orderly /\ next[c] \in {"start", "connect"}
    /\ pc[c] = "connect" => state = "INITIALIZED" /\ orderly

PromiseInv == \A c \in Calls : promised[c] => Kept(c)

\* A call at work disturbs no promise but its own.
LEMMA OwnPromise ==
    ASSUME PromiseInv, NEW c \in Calls, pc[c] # "idle",
           \A d \in Calls : promised'[d] => promised[d],
           promised[c] /\ promised'[c] => Kept(c)'
    PROVE  PromiseInv'
BY DEF PromiseInv, Kept

\* With a failure nothing is promised any more.
LEMMA NothingPromised ==
    ASSUME \A d \in Calls : promised'[d] = FALSE
    PROVE  PromiseInv'
BY DEF PromiseInv

LEMMA FailsPromise ==
    ASSUME Fails \/ NoPromise
    PROVE  PromiseInv'
BY NothingPromised DEF Fails, NoPromise

LEMMA EnterInitKeeps ==
    ASSUME TypeOK, PromiseInv, NEW c \in Calls, pc[c] # "idle",
           NEW n \in {"start", "connect"}, EnterInit(c, n),
           promised[c] => CanSetUp(profile)
    PROVE  PromiseInv'
<1>1. /\ pc' = [pc EXCEPT ![c] = "database"] /\ next'[c] = n /\ state' = "STARTING"
      /\ orderly' = CanSetUp(profile)
      /\ UNCHANGED <<profile, object, promised>>
  BY DEF EnterInit, Goto, TypeOK
<1>2. promised[c] => Kept(c)'
  BY <1>1 DEF PromiseInv, Kept, TypeOK
<1> QED BY <1>1, <1>2, OwnPromise

LEMMA InitDBKeeps ==
    ASSUME TypeOK, PromiseInv, NEW c \in Calls, InitDB(c)
    PROVE  PromiseInv'
<1>1. CASE Fails
  BY <1>1, FailsPromise
<1>2. CASE Works /\ UNCHANGED <<state, orderly>>
  <2>1. /\ pc[c] = "database" /\ pc' = [pc EXCEPT ![c] = "setup"]
        /\ UNCHANGED <<profile, next, object, promised>>
    BY <1>2 DEF InitDB, Goto, Works
  <2>2. promised[c] => Kept(c)'
    BY <1>2, <2>1 DEF PromiseInv, Kept, TypeOK
  <2> QED BY <2>1, <2>2, OwnPromise
<1> QED BY <1>1, <1>2 DEF InitDB

LEMMA SetupStepKeeps ==
    ASSUME TypeOK, PromiseInv, NEW c \in Calls, SetupStep(c)
    PROVE  PromiseInv'
<1>1. Fails \/ (Works /\ UNCHANGED orderly)
  BY DEF SetupStep
<1>2. CASE Fails
  BY <1>2, FailsPromise
<1>3. CASE Works /\ UNCHANGED orderly
  <2>1. /\ pc[c] = "setup"
        /\ Answered(c, FALSE) \/ Answered(c, TRUE)
        /\ UNCHANGED <<profile, state, next, object, plan>>
    BY SetupStepFacts
  <2>2. pc' = [pc EXCEPT ![c] = pc'[c]] /\ pc'[c] \in {"setup", "built"}
    BY <2>1, SetupStepFacts, AnsweredTypes
  <2>3. UNCHANGED promised /\ pc[c] = "setup"
    BY <1>3, SetupStepFacts DEF Works
  <2>4. promised[c] => Kept(c)'
    BY <1>3, <2>1, <2>2, <2>3 DEF PromiseInv, Kept, TypeOK
  <2> QED BY <2>3, <2>4, OwnPromise
<1> QED BY <1>1, <1>2, <1>3

LEMMA BuiltKeeps ==
    ASSUME TypeOK, PromiseInv, NEW c \in Calls, Built(c)
    PROVE  PromiseInv'
<1>1. /\ pc[c] = "built" /\ pc' = [pc EXCEPT ![c] = next[c]]
      /\ state' = IF state = "STARTING" THEN "INITIALIZED" ELSE state
      /\ UNCHANGED <<profile, object, orderly, promised>>
  BY DEF Built, Goto
<1>2. promised[c] => Kept(c)'
  BY <1>1 DEF PromiseInv, Kept, TypeOK
<1> QED BY <1>1, <1>2, OwnPromise

LEMMA StartKeeps ==
    ASSUME TypeOK, PromiseInv, NEW c \in Calls, Start(c)
    PROVE  PromiseInv'
<1>1. pc[c] = "start"
  BY DEF Start
<1>2. CASE state \in NeedsInit /\ EnterInit(c, "connect")
  <2>1. promised[c] => CanSetUp(profile)
    BY <1>1, <1>2 DEF PromiseInv, Kept, NeedsInit
  <2> QED BY <1>1, <1>2, <2>1, EnterInitKeeps
<1>3. CASE state \notin NeedsInit /\ state \in AlreadyUp /\ Returns(c)
  <2>1. promised' = [promised EXCEPT ![c] = FALSE]
    BY <1>3 DEF Returns
  <2>2. promised'[c] = FALSE /\ \A d \in Calls : promised'[d] => promised[d]
    BY <2>1, Zenon DEF TypeOK
  <2> QED BY <1>1, <2>2, OwnPromise
<1>4. CASE /\ state \notin NeedsInit /\ Goto(c, "connect")
           /\ UNCHANGED <<profile, state, object, orderly, promised>>
  <2>1. promised[c] => Kept(c)'
    BY <1>1, <1>4 DEF Goto, PromiseInv, Kept, TypeOK
  <2> QED BY <1>1, <1>4, <2>1, OwnPromise
<1> QED BY <1>2, <1>3, <1>4 DEF Start

LEMMA ConnectKeeps ==
    ASSUME TypeOK, PromiseInv, NEW c \in Calls, Connect(c)
    PROVE  PromiseInv'
<1>1. CASE Fails
  BY <1>1, FailsPromise
<1>2. CASE Returns(c)
  <2>1. pc[c] = "connect" /\ promised' = [promised EXCEPT ![c] = FALSE]
    BY <1>2 DEF Connect, Returns
  <2>2. promised'[c] = FALSE /\ \A d \in Calls : promised'[d] => promised[d]
    BY <2>1, Zenon DEF TypeOK
  <2> QED BY <2>1, <2>2, OwnPromise
<1> QED BY <1>1, <1>2 DEF Connect

LEMMA StopKeeps ==
    ASSUME TypeOK, PromiseInv, NEW c \in Calls, Stop(c)
    PROVE  PromiseInv'
<1>1. /\ pc[c] = "stop" /\ pc' = [pc EXCEPT ![c] = next[c]]
      /\ state' = IF state = "RUNNING" THEN "STOPPED" ELSE state
      /\ UNCHANGED <<policies, profile, object, orderly, promised>>
  BY DEF Stop, Goto, dbVars
<1>2. CanSetUp(profile)' = CanSetUp(profile)
  BY <1>1 DEF CanSetUp
<1>3. promised[c] => Kept(c)'
  BY <1>1, <1>2 DEF PromiseInv, Kept, TypeOK, NeedsInit
<1> QED BY <1>1, <1>3, OwnPromise

LEMMA DeletePolicyKeeps ==
    ASSUME TypeOK, PromiseInv, NEW c \in Calls, DeletePolicyNow(c)
    PROVE  PromiseInv'
<1>1. CASE Fails
  BY <1>1, FailsPromise
<1>2. CASE policies' = [policies EXCEPT ![object[c]] = 0] /\ Works
  <2>1. /\ pc[c] = "delete_policy" /\ pc' = [pc EXCEPT ![c] = "start"]
        /\ UNCHANGED <<profile, state, object, promised>>
    BY <1>2 DEF DeletePolicyNow, Goto, Works, procVars
  <2>2. CanSetUp(profile) \/ object[c] = "gen_year" => CanSetUp(profile)'
    BY <1>2, <2>1 DEF CanSetUp, TypeOK, Buckets
  <2>3. promised[c] => Kept(c)'
    BY <2>1, <2>2 DEF PromiseInv, Kept, TypeOK
  <2> QED BY <2>1, <2>3, OwnPromise
<1> QED BY <1>1, <1>2 DEF DeletePolicyNow

LEMMA DropDBKeeps ==
    ASSUME TypeOK, PromiseInv, NEW c \in Calls, DropDBNow(c)
    PROVE  PromiseInv'
<1>1. CASE Fails
  BY <1>1, FailsPromise
<1>2. CASE policies' = Nothing /\ Works
  <2>1. /\ pc[c] = "delete_database" /\ pc' = [pc EXCEPT ![c] = "start"]
        /\ UNCHANGED <<profile, state, object, promised>>
    BY <1>2 DEF DropDBNow, Goto, Works, procVars
  <2>2. CanSetUp(profile)'
    BY <1>2 DEF CanSetUp, Nothing, Buckets
  <2>3. promised[c] => Kept(c)'
    BY <2>1, <2>2 DEF PromiseInv, Kept, TypeOK
  <2> QED BY <2>1, <2>3, OwnPromise
<1> QED BY <1>1, <1>2 DEF DropDBNow

\* A command that begins breaks every other promise, and may be given its own.
LEMMA BeginsKeep ==
    ASSUME TypeOK, PromiseInv, NEW c \in Calls, Begins(c)
    PROVE  PromiseInv'
<1>1. SUFFICES ASSUME promised'[c], \A d \in Calls : d # c => ~promised'[d],
                      Active = {}
               PROVE  Kept(c)'
  <2>1. CASE NoPromise
    BY <2>1, FailsPromise
  <2>2. ASSUME NEW p, Promise(c, p), p => Active = {} PROVE PromiseInv'
    <3>1. \A d \in Calls : promised'[d] = (d = c /\ p)
      BY <2>2 DEF Promise
    <3>2. CASE p
      <4>1. promised'[c] /\ \A d \in Calls : d # c => ~promised'[d]
        BY <3>1, <3>2
      <4> QED BY <1>1, <2>2, <3>2, <4>1 DEF PromiseInv
    <3>3. CASE ~p
      BY <3>1, <3>3 DEF PromiseInv
    <3> QED BY <3>2, <3>3
  <2> QED BY <2>1, <2>2 DEF Begins, CtrlStart, CtrlStop, DropDB, UpdateConfig,
          DeleteRetentionPolicy, Restarts
<1>2. \A d \in Calls : pc[d] = "idle"
  BY <1>1 DEF Active
<1>3. None \notin Profiles /\ Buckets \cap Profiles = {}
  BY NoneAssumption DEF Buckets, Profiles
<1>4. ASSUME NEW l \in {"start", "stop"}, NEW n, NEW o, Begin(c, l, n, o)
      PROVE  /\ pc'[c] = l /\ next'[c] = n /\ object'[c] = o
             /\ \A d \in Calls : d # c => pc'[d] = "idle"
             /\ UNCHANGED <<policies, state>>
  BY <1>2, <1>4 DEF Begin, Goto, dbVars, TypeOK
<1>5. \A p \in Profiles :
          profile' = p /\ UNCHANGED policies => (CanSetUp(p) <=> CanSetUp(profile)')
  BY DEF CanSetUp
<1>6. \A p : Promise(c, p) => (p <=> promised'[c])
  BY DEF Promise
<1>7. CASE CtrlStart(c)
  <2>1. /\ Begin(c, "start", "idle", None) /\ UNCHANGED profile
        /\ CanSetUp(profile) /\ state \in NeedsInit
    BY <1>1, <1>6, <1>7 DEF CtrlStart, Restarts, NeedsInit
  <2> QED BY <1>3, <1>4, <1>5, <2>1 DEF Kept, TypeOK
<1>8. CASE CtrlStop(c)
  BY <1>1, <1>8 DEF CtrlStop, NoPromise
<1>9. CASE DropDB(c)
  <2>1. /\ Begin(c, "stop", "delete_database", None) /\ UNCHANGED profile
        /\ state \in NeedsInit \cup {"RUNNING"}
    BY <1>1, <1>6, <1>9 DEF DropDB, Restarts, NeedsInit
  <2> QED BY <1>3, <1>4, <2>1 DEF Kept
<1>10. ASSUME NEW p \in Configured, UpdateConfig(c, p) PROVE Kept(c)'
  <2>1. /\ Begin(c, "stop", "start", p) /\ profile' = p
        /\ CanSetUp(p) /\ state \in NeedsInit \cup {"RUNNING"}
    BY <1>1, <1>6, <1>10 DEF UpdateConfig, Restarts, NeedsInit
  <2>2. p \in Profiles
    BY NamesAssumption
  <2> QED BY <1>4, <1>5, <2>1, <2>2 DEF Kept
<1>11. ASSUME NEW b \in Touched, DeleteRetentionPolicy(c, b) PROVE Kept(c)'
  <2>1. /\ Begin(c, "stop", "delete_policy", b) /\ UNCHANGED profile
        /\ CanSetUp(profile) \/ b = "gen_year"
        /\ state \in NeedsInit \cup {"RUNNING"}
    BY <1>1, <1>6, <1>11 DEF DeleteRetentionPolicy, Restarts, NeedsInit
  <2>2. b \in Buckets
    BY NamesAssumption
  <2> QED BY <1>3, <1>4, <1>5, <2>1, <2>2 DEF Kept, TypeOK
<1> QED BY <1>7, <1>8, <1>9, <1>10, <1>11 DEF Begins

LEMMA ProceedsKeep ==
    ASSUME TypeOK, PromiseInv, NEW c \in Calls, Proceeds(c)
    PROVE  PromiseInv'
<1>1. CASE Boot(c)
  <2>1. EnterInit(c, "start") /\ pc[c] = "boot"
    BY <1>1 DEF Boot
  <2>2. promised[c] => CanSetUp(profile)
    BY <2>1 DEF PromiseInv, Kept
  <2> QED BY <2>1, <2>2, EnterInitKeeps
<1> QED BY <1>1, InitDBKeeps, SetupStepKeeps, BuiltKeeps, StartKeeps, ConnectKeeps, StopKeeps,
        DeletePolicyKeeps, DropDBKeeps DEF Proceeds

LEMMA InitPromise == Init => PromiseInv
<1> SUFFICES ASSUME Init PROVE PromiseInv
  OBVIOUS
<1>1. CanSetUp(profile)
  BY DEF Init, CanSetUp, Buckets, Legacy
<1>2. /\ \A c \in Calls : object[c] = None /\ promised[c] = (pc[c] = "boot")
      /\ \A c, d \in Calls : pc[c] = "boot" /\ d # c => pc[d] = "idle"
  BY DEF Init, Booting
<1> QED BY <1>1, <1>2, NoneAssumption DEF PromiseInv, Kept

LEMMA NextPromise ==
    ASSUME TypeOK, PromiseInv, [Next]_vars
    PROVE  PromiseInv'
<1>1. ASSUME NEW c \in Calls, Commands(c) PROVE PromiseInv'
  <2>1. Begins(c)
    BY <1>1 DEF Commands, Begins
  <2> QED BY <2>1, BeginsKeep
<1>2. ASSUME NEW c \in Calls, Proceeds(c) PROVE PromiseInv'
  BY <1>2, ProceedsKeep
<1>3. CASE \/ \E q \in ContinuousQueries : DeleteCQ(q)
           \/ \E b \in Touched, d \in Durations : SetRetentionPolicy(b, d)
  BY <1>3, FailsPromise DEF DeleteCQ, SetRetentionPolicy, Request
<1>4. ASSUME NEW b, Flush(b) PROVE PromiseInv'
  BY <1>4, FailsPromise DEF Flush
<1>5. CASE Restart
  <2>1. /\ \A c \in Calls : promised'[c] = (pc'[c] = "boot" /\ CanSetUp(stored))
        /\ \A c, d \in Calls : pc'[c] = "boot" /\ d # c => pc'[d] = "idle"
        /\ \A c \in Calls : object'[c] = None
        /\ profile' = stored /\ UNCHANGED policies
    BY <1>5 DEF Restart, Booting, dbVars
  <2>2. CanSetUp(stored) => CanSetUp(profile)'
    BY <2>1 DEF CanSetUp
  <2> QED BY <2>1, <2>2, NoneAssumption DEF PromiseInv, Kept
<1>6. CASE UNCHANGED vars
  BY <1>6 DEF vars, dbVars, procVars, callVars, PromiseInv, Kept, CanSetUp
<1> QED BY <1>1, <1>2, <1>3, <1>4, <1>5, <1>6 DEF Next

\* A set-up that can succeed and has nobody to carry it on is over, and complete.
LEMMA NobodyLeft ==
    ASSUME Carried, orderly, \A c \in Calls : pc[c] = "idle"
    PROVE  Complete
BY DEF Carried, IsWitness

LEMMA NobodyLeftNext ==
    (Carried /\ orderly /\ (\A c \in Calls : pc[c] = "idle") => Complete)'
<1>1. Carried /\ orderly /\ (\A c \in Calls : pc[c] = "idle") => Complete
  BY NobodyLeft
<1> QED BY <1>1, PTL

\* A promised command returns by connecting, in a database that is complete.
LEMMA ReturnsRestored ==
    ASSUME IInv, PromiseInv, [Next]_vars, NEW c \in Calls,
           promised[c], pc[c] # "idle", pc'[c] = "idle", UNCHANGED failures
    PROVE  state' = "RUNNING" /\ Complete'
<1>1. Kept(c) /\ TypeOK /\ IInv' /\ PromiseInv'
  BY NextIInv, NextPromise DEF PromiseInv, IInv
<1>2. ~Fails
  BY DEF Fails, IInv, TypeOK
<1>3. ~promised'[c]
  BY <1>1 DEF PromiseInv, Kept
<1>4. Proceeds(c)
  <2>1. ASSUME NEW d \in Calls, Commands(d) PROVE FALSE
    <3>1. Begins(d)
      BY <2>1 DEF Commands, Begins
    <3> QED BY <1>1, <3>1, BeginsTypes DEF TypeOK
  <2>2. ASSUME NEW d \in Calls, Proceeds(d), d # c PROVE FALSE
    <3>1. pc[d] # "idle"
      BY <2>2 DEF Proceeds, Boot, InitDB, SetupStep, Built, Start, Connect, Stop,
                  DeletePolicyNow, DropDBNow
    <3> QED BY <1>1, <2>2, <3>1 DEF Kept
  <2>3. ASSUME Restart PROVE FALSE
    BY <2>3 DEF Restart, IInv, TypeOK
  <2>4. pc' # pc
    OBVIOUS
  <2>5. ~UNCHANGED vars
    BY <2>4 DEF vars, callVars
  <2>6. ASSUME NEW b, Flush(b) PROVE FALSE
    BY <2>4, <2>6 DEF Flush, callVars
  <2>7. ~Request
    BY <2>4 DEF Request, callVars
  <2> QED BY <2>1, <2>2, <2>3, <2>5, <2>6, <2>7 DEF Next, DeleteCQ, SetRetentionPolicy
<1>5. Connect(c)
  <2>1. promised' # promised /\ ~Works
    BY <1>3 DEF Works
  <2>2. CASE Start(c)
    <3>1. state \notin AlreadyUp
      BY <1>1, <2>2 DEF Start, Kept, NeedsInit, AlreadyUp
    <3> QED BY <2>1, <2>2, <3>1 DEF Start, EnterInit
  <2> QED BY <1>2, <1>4, <2>1, <2>2 DEF Proceeds, Boot, EnterInit, InitDB, SetupStep, Built, Stop,
          DeletePolicyNow, DropDBNow
<1>6. Returns(c) /\ state' = "RUNNING" /\ orderly
  BY <1>1, <1>2, <1>5 DEF Connect, Kept
<1>7. orderly'
  <2>1. CASE object[c] \in Profiles
    <3>1. orderly' = (orderly /\ profile' = profile) /\ profile' = profile
      BY <1>1, <1>6, <2>1 DEF Returns, Kept
    <3> QED BY <1>6, <3>1, Zenon
  <2>2. CASE object[c] \notin Profiles
    BY <1>6, <2>2 DEF Returns
  <2> QED BY <2>1, <2>2
<1>8. \A d \in Calls : pc'[d] = "idle"
  BY <1>1, <1>6 DEF Returns, Goto, Kept, TypeOK
<1> QED BY <1>1, <1>6, <1>7, <1>8, NobodyLeftNext DEF IInv

\* A command that is alone and meets no failure leaves a process that could be
\* started RUNNING, in a database that has everything its profile wants
\* (admin.go:354-362, process.go:341-349, 432-478).
THEOREM CommandsRestore == Spec => RestartsRestore
<1>1. Spec => [](IInv /\ PromiseInv)
  <2>1. IInv /\ PromiseInv /\ [Next]_vars => IInv' /\ PromiseInv'
    BY NextIInv, NextPromise DEF IInv
  <2> QED BY <2>1, InitIInv, InitPromise, PTL DEF Spec
<1>2. IInv /\ PromiseInv /\ [Next]_vars =>
         \A c \in Calls :
            promised[c] /\ pc[c] # "idle" /\ pc'[c] = "idle" /\ failures' = failures =>
                state' = "RUNNING" /\ Complete'
  BY ReturnsRestored
<1> QED BY <1>1, <1>2, PTL DEF Spec, RestartsRestore
=============================================================================
