----------------------------- MODULE EdgeProofs -----------------------------
(***************************************************************************)
(* Theorems about Edge, for every number of proxies and trusted hops, and  *)
(* whatever clients forge, type and configure.                             *)
(*                                                                         *)
(* What requests leave behind depends on what was stored before them, so   *)
(* the inductive invariant says where everything comes from: the           *)
(* configuration from an environment that boots, the headers of an answer  *)
(* from that configuration, a row from a registration that was let         *)
(* through.                                                                *)
(***************************************************************************)
EXTENDS Edge, TLAPS

Running(env) == [running |-> TRUE, env |-> env, hops |-> Hops(env), cors |-> Cors(env)]

ConfFromEnv ==
    \/ conf = Down
    \/ \E env \in Env : Boots(env) /\ conf = Running(env)

HeadersFromConf ==
    answer.status # 0 =>
        /\ conf.running
        /\ answer.origin \in Origins \cup {None}
        /\ answer.allowed = Allowed(answer.origin)
        /\ answer.credentials = conf.cors.credentials

\* A row that a registration with e, n and p may have stored.
RowOf(e, n, p) == [email |-> Normal[e], name |-> n, hash |-> Hash[p]]

RowsFromRegistrations ==
    /\ \A u \in users :
          \E e \in Spellings \ Malformed, n \in Names, p \in Passwords :
              ValidDisplayName(n) /\ u = RowOf(e, n, p)
    /\ \A u, v \in users : u.email = v.email => u = v

AgentsValid == \A a \in agents : ValidDisplayName(a)

NamesStored == answer.name # None => answer.name \in {u.name : u \in users} \cup agents

IInv ==
    /\ ConfFromEnv
    /\ HeadersFromConf
    /\ RowsFromRegistrations
    /\ AgentsValid
    /\ NamesStored

-----------------------------------------------------------------------------
(* If TRUST_PROXY fits, an environment that boots trusts as many hops as   *)
(* there are proxies.                                                      *)
LEMMA HopsFit ==
    ASSUME NEW env \in Env, TrustFitsProxies(env)
    PROVE  Hops(env) = Len(Proxies)
BY DEF TrustFitsProxies, Hops

(* The address of a request is then its client's, whatever is forged: the  *)
(* proxies' own peers fill the chain up to the trusted hop.                *)
LEMMA IpIsTheClient ==
    ASSUME NEW client \in Clients, NEW forged \in Forged, conf.hops = Len(Proxies)
    PROVE  Ip(client, forged) = client
<1>1. /\ client \in Addresses /\ Proxies \in Seq(Addresses) /\ forged \in Seq(Addresses)
  BY EdgeAssumption
<1> DEFINE chain == Proxies \o <<client>> \o forged
<1>2. Len(chain) = Len(Proxies) + 1 + Len(forged) /\ Len(Proxies) \in Nat /\ Len(forged) \in Nat
  BY <1>1
<1>3. chain[Len(Proxies) + 1] = client
  BY <1>1, <1>2
<1>4. conf.hops < Len(chain)
  BY <1>2
<1> HIDE DEF chain
<1>5. chain[IF conf.hops < Len(chain) THEN conf.hops + 1 ELSE Len(chain)] = client
  BY <1>3, <1>4
<1> QED BY <1>5 DEF Ip, chain

(* The bucket of a request then says who sent it, and to which path.       *)
LEMMA BucketsFollow == IInv => OneBucketPerClient
<1> SUFFICES ASSUME IInv, conf.running, TrustFitsProxies(conf.env),
                    NEW c \in Clients, NEW d \in Clients, NEW f \in Forged, NEW g \in Forged,
                    NEW p \in Paths, NEW q \in Paths
             PROVE  Bucket(c, f, p) = Bucket(d, g, q) <=> c = d /\ p = q
  BY DEF OneBucketPerClient
<1>1. PICK env \in Env : conf = Running(env)
  BY DEF IInv, ConfFromEnv, Down
<1>2. conf.hops = Len(Proxies)
  BY <1>1, HopsFit DEF Running
<1>3. Ip(c, f) = c /\ Ip(d, g) = d
  BY <1>2, IpIsTheClient
<1> QED BY <1>3 DEF Bucket

(* An answer has the headers of the configuration. *)
LEMMA Answered ==
    ASSUME NEW origin \in Origins \cup {None}, NEW status, NEW name,
           conf.running, Answer(origin, status, name), conf' = conf
    PROVE  HeadersFromConf' /\ answer'.name = name
<1>1. /\ answer'.origin = origin /\ answer'.allowed = Allowed(origin)
      /\ answer'.credentials = conf.cors.credentials /\ answer'.name = name
  BY DEF Answer
<1>2. answer'.allowed = Allowed(answer.origin)'
  BY <1>1 DEF Allowed
<1> QED BY <1>1, <1>2 DEF HeadersFromConf

(* What a registration stores for an address passes every later check of  *)
(* it: both the name and the address, in lower case already.               *)
LEMMA RowLoads ==
    ASSUME NEW e \in Spellings \ Malformed, NEW n \in Names, NEW p \in Passwords, ValidDisplayName(n)
    PROVE  Loads(RowOf(e, n, p)) /\ Normal[Normal[e]] = Normal[e]
BY EdgeAssumption DEF Loads, RowOf

(* The name of an agent that passes the checks passes them once trimmed.   *)
LEMMA TrimmedIsValid ==
    ASSUME NEW n \in Names, n \notin Blank \cup Refused
    PROVE  ValidDisplayName(Trimmed[n])
BY EdgeAssumption DEF ValidDisplayName

-----------------------------------------------------------------------------
LEMMA InitInv == Init => IInv
BY DEF Init, IInv, ConfFromEnv, HeadersFromConf, RowsFromRegistrations,
       AgentsValid, NamesStored, NoAnswer, Down

LEMMA BootInv ==
    ASSUME IInv, NEW env \in Env, Boot(env)
    PROVE  IInv'
<1>1. ConfFromEnv'
  BY DEF Boot, ConfFromEnv, Running
<1>2. answer' = NoAnswer /\ users' = users /\ agents' = agents
  BY DEF Boot
<1>3. HeadersFromConf' /\ NamesStored'
  BY <1>2 DEF HeadersFromConf, NamesStored, NoAnswer
<1> QED BY <1>1, <1>2, <1>3 DEF IInv, RowsFromRegistrations, AgentsValid

LEMMA RegisterInv ==
    ASSUME IInv, NEW origin \in Origins \cup {None},
           NEW email \in Spellings, NEW name \in Names, NEW password \in Passwords,
           Register(origin, email, name, password)
    PROVE  IInv'
<1> DEFINE status == RegistrationStatus(email, name, password)
           user == [email |-> CreateEmail(email), name |-> name, hash |-> Hashed(password)]
<1>1. /\ conf.running
      /\ users' = IF status = 201 THEN users \cup {user} ELSE users
      /\ Answer(origin, status, IF status = 201 THEN user.name ELSE None)
      /\ conf' = conf /\ agents' = agents
  BY DEF Register, RegisterUserResponse
<1>2. ConfFromEnv' /\ AgentsValid'
  BY <1>1 DEF IInv, ConfFromEnv, AgentsValid
<1>3. HeadersFromConf' /\ answer'.name = IF status = 201 THEN name ELSE None
  BY <1>1, Answered
<1>4. RowsFromRegistrations'
  <2>1. CASE status # 201
    BY <1>1, <2>1 DEF IInv, RowsFromRegistrations
  <2>2. CASE status = 201
    <3>1. /\ email \notin Malformed /\ ValidDisplayName(name)
          /\ \A u \in users : u.email # Normal[email]
      BY <2>2 DEF RegistrationStatus, ValidRegistration, FindByEmail, CreateEmail
    <3>2. user = RowOf(email, name, password)
      BY DEF RowOf, CreateEmail, Hashed
    <3>3. user.email = Normal[email]
      BY DEF CreateEmail
    <3> HIDE DEF user
    <3> QED BY <1>1, <2>2, <3>1, <3>2, <3>3 DEF IInv, RowsFromRegistrations
  <2> QED BY <2>1, <2>2
<1>5. NamesStored'
  <2>1. CASE status # 201
    BY <1>3, <2>1 DEF NamesStored
  <2>2. CASE status = 201
    <3>1. user \in users' /\ user.name = name
      BY <1>1, <2>2
    <3> QED BY <1>3, <2>2, <3>1 DEF NamesStored
  <2> QED BY <2>1, <2>2
<1> QED BY <1>2, <1>3, <1>4, <1>5 DEF IInv

LEMMA LoginInv ==
    ASSUME IInv, NEW origin \in Origins \cup {None},
           NEW email \in Spellings, NEW password \in Passwords,
           Login(origin, email, password)
    PROVE  IInv'
<1>1. /\ conf.running
      /\ conf' = conf /\ users' = users /\ agents' = agents
  BY DEF Login
<1>2. PICK n \in {u.name : u \in FindByEmail(CreateEmail(email))} \cup {None} :
          Answer(origin, LoginStatus(email, password), n)
  BY DEF Login, LoginResponse
<1>3. HeadersFromConf' /\ answer'.name = n
  BY <1>1, <1>2, Answered
<1>4. NamesStored'
  BY <1>1, <1>2, <1>3 DEF NamesStored, FindByEmail
<1> QED BY <1>1, <1>3, <1>4 DEF IInv, ConfFromEnv, RowsFromRegistrations, AgentsValid

LEMMA RefreshInv ==
    ASSUME IInv, NEW origin \in Origins \cup {None},
           NEW token, Refresh(origin, token)
    PROVE  IInv'
<1>1. /\ conf.running
      /\ conf' = conf /\ users' = users /\ agents' = agents
      /\ \E status : Answer(origin, status, None)
  BY DEF Refresh, RefreshTokenResponse
<1>2. HeadersFromConf' /\ answer'.name = None
  BY <1>1, Answered
<1> QED BY <1>1, <1>2 DEF IInv, ConfFromEnv, RowsFromRegistrations, AgentsValid, NamesStored

LEMMA TooManyInv ==
    ASSUME IInv, NEW origin \in Origins \cup {None}, TooMany(origin)
    PROVE  IInv'
<1>1. /\ conf.running /\ Answer(origin, 429, None)
      /\ conf' = conf /\ users' = users /\ agents' = agents
  BY DEF TooMany
<1>2. HeadersFromConf' /\ answer'.name = None
  BY <1>1, Answered
<1> QED BY <1>1, <1>2 DEF IInv, ConfFromEnv, RowsFromRegistrations, AgentsValid, NamesStored

LEMMA CreateAgentInv ==
    ASSUME IInv, NEW origin \in Origins \cup {None}, NEW name \in Names, CreateAgent(origin, name)
    PROVE  IInv'
<1> DEFINE status == CreateAgentStatus(name)
<1>1. /\ conf.running /\ conf' = conf /\ users' = users
      /\ agents' = IF status = 201 THEN {Trimmed[name]} ELSE agents
      /\ Answer(origin, status, IF status = 201 THEN Trimmed[name] ELSE None)
  BY DEF CreateAgent, CreateAgentResponse
<1>2. HeadersFromConf' /\ answer'.name = IF status = 201 THEN Trimmed[name] ELSE None
  BY <1>1, Answered
<1>3. status = 201 => name \notin Blank \cup Refused
  BY DEF CreateAgentStatus
<1> HIDE DEF status
<1>4. AgentsValid'
  BY <1>1, <1>3, TrimmedIsValid DEF IInv, AgentsValid
<1>5. NamesStored'
  BY <1>1, <1>2 DEF NamesStored
<1> QED BY <1>1, <1>2, <1>4, <1>5
        DEF IInv, ConfFromEnv, RowsFromRegistrations

LEMMA GetAgentInv ==
    ASSUME IInv, NEW origin \in Origins \cup {None}, NEW id, NEW mine, GetAgent(origin, id, mine)
    PROVE  IInv'
<1>1. /\ conf.running /\ conf' = conf /\ users' = users /\ agents' = agents
  BY DEF GetAgent
<1>2. PICK n \in agents \cup {None} : Answer(origin, GetAgentStatus(id, mine), n)
  BY DEF GetAgent, AgentResponse
<1>3. HeadersFromConf' /\ answer'.name = n
  BY <1>1, <1>2, Answered
<1>4. NamesStored'
  BY <1>1, <1>2, <1>3 DEF NamesStored
<1> QED BY <1>1, <1>3, <1>4
        DEF IInv, ConfFromEnv, RowsFromRegistrations, AgentsValid

LEMMA NextInv == IInv /\ [Next]_vars => IInv'
<1> SUFFICES ASSUME IInv, [Next]_vars PROVE IInv'
  OBVIOUS
<1>1. ASSUME NEW env \in Env, Boot(env) PROVE IInv'
  BY <1>1, BootInv
<1>2. ASSUME NEW origin \in Origins \cup {None},
             NEW email \in Spellings, NEW password \in Passwords, NEW name \in Names,
             Register(origin, email, name, password)
      PROVE  IInv'
  BY <1>2, RegisterInv
<1>3. ASSUME NEW origin \in Origins \cup {None},
             NEW email \in Spellings, NEW password \in Passwords,
             Login(origin, email, password)
      PROVE  IInv'
  BY <1>3, LoginInv
<1>4. ASSUME NEW origin \in Origins \cup {None},
             NEW token \in {"malformed", "dead", "live"}, Refresh(origin, token)
      PROVE  IInv'
  BY <1>4, RefreshInv
<1>5. ASSUME NEW origin \in Origins \cup {None}, NEW name \in Names, CreateAgent(origin, name)
      PROVE  IInv'
  BY <1>5, CreateAgentInv
<1>6. ASSUME NEW origin \in Origins \cup {None}, NEW id \in {"malformed", "unknown", "known"},
             NEW mine \in BOOLEAN, GetAgent(origin, id, mine)
      PROVE  IInv'
  BY <1>6, GetAgentInv
<1>7. ASSUME NEW origin \in Origins \cup {None}, TooMany(origin) PROVE IInv'
  BY <1>7, TooManyInv
<1>8. CASE UNCHANGED vars
  BY <1>8 DEF vars, IInv, ConfFromEnv, HeadersFromConf, Allowed, RowsFromRegistrations, AgentsValid, NamesStored
<1> QED BY <1>1, <1>2, <1>3, <1>4, <1>5, <1>6, <1>7, <1>8 DEF Next

-----------------------------------------------------------------------------
(* Credentials and an origin other than "*" go together, and in production *)
(* only with an origin of the list.                                        *)
LEMMA CookiesFollow == IInv => CookiesOnlyForTheListed
<1> SUFFICES ASSUME IInv, answer.status # 0, answer.credentials
             PROVE  /\ answer.allowed # Star
                    /\ (conf.env.production /\ answer.allowed # None) =>
                          answer.allowed = answer.origin /\ answer.origin \in conf.env.origins
  BY DEF CookiesOnlyForTheListed
<1>1. /\ conf.running /\ answer.origin \in Origins \cup {None}
      /\ answer.allowed = Allowed(answer.origin) /\ conf.cors.credentials
  BY DEF IInv, HeadersFromConf
<1>2. PICK env \in Env : Boots(env) /\ conf = Running(env)
  BY <1>1 DEF IInv, ConfFromEnv, Down
<1>3. conf.env = env /\ conf.cors = Cors(env)
  BY <1>2 DEF Running
<1>4. CASE env.cors /\ Star \in env.origins
  BY <1>1, <1>3, <1>4 DEF Cors
<1>5. CASE env.cors /\ Star \notin env.origins
  <2>1. conf.cors.origin = "list" /\ conf.cors.list = env.origins
    BY <1>3, <1>5 DEF Cors
  <2>2. answer.allowed = IF answer.origin \in env.origins THEN answer.origin ELSE None
    BY <1>1, <2>1 DEF Allowed
  <2> QED BY <1>3, <1>5, <2>2, EdgeAssumption
<1>6. CASE ~ env.cors
  <2>1. conf.cors.origin = "any" /\ ~ env.production
    BY <1>2, <1>3, <1>6 DEF Cors, Boots, Env
  <2>2. answer.allowed = answer.origin
    BY <1>1, <2>1 DEF Allowed
  <2> QED BY <1>1, <1>3, <2>1, <2>2, EdgeAssumption
<1> QED BY <1>4, <1>5, <1>6

(* Rows of registrations load, so whoever knows the password logs in.      *)
LEMMA AccountsFollow == IInv => AccountsUsable
<1> SUFFICES ASSUME IInv PROVE AccountsUsable
  OBVIOUS
<1>1. ASSUME NEW u \in users
      PROVE  Loads(u) /\ Normal[u.email] = u.email
  <2>1. PICK e \in Spellings \ Malformed, n \in Names, p \in Passwords :
            ValidDisplayName(n) /\ u = RowOf(e, n, p)
    BY DEF IInv, RowsFromRegistrations
  <2>2. Normal[u.email] = u.email
    BY <2>1, RowLoads DEF RowOf
  <2> QED BY <2>1, <2>2, RowLoads
<1>2. \A u, v \in users : Normal[u.email] = Normal[v.email] => u = v
  BY <1>1 DEF IInv, RowsFromRegistrations
<1>3. ASSUME NEW u \in users, NEW e \in Spellings \ Malformed, NEW p \in Passwords,
             Normal[e] = Normal[u.email]
      PROVE  LoginStatus(e, p) = IF Hash[p] = u.hash THEN 200 ELSE 401
  <2>1. FindByEmail(CreateEmail(e)) = {u}
    BY <1>1, <1>3 DEF FindByEmail, CreateEmail, IInv, RowsFromRegistrations
  <2> QED BY <1>1, <2>1 DEF LoginStatus, Verifies
<1>4. GetAgentStatus("known", TRUE) = 200
  BY DEF GetAgentStatus, IInv, AgentsValid
<1> QED BY <1>2, <1>3, <1>4 DEF IInv, NamesStored, AccountsUsable

(* Whatever is forged, and however many proxies TRUST_PROXY fits, requests *)
(* share a bucket exactly if they come from one client and name one path   *)
(* in one way (http-config.ts:7-10, rate-limit.middleware.ts:170-172).     *)
THEOREM BucketsAreTheClients == Spec => []OneBucketPerClient
BY InitInv, NextInv, BucketsFollow, PTL DEF Spec

(* No environment that boots lets a page outside the list read an answer   *)
(* with cookies in production, or combines credentials with "*"            *)
(* (http-config.ts:11-14).                                                 *)
THEOREM CookiesGoToTheListed == Spec => []CookiesOnlyForTheListed
BY InitInv, NextInv, CookiesFollow, PTL DEF Spec

(* Every account and agent that was ever stored stays usable, by every     *)
(* spelling of its address, and answers name actors that exist             *)
(* (user.entity.ts:26-32, actor.entity.ts:77-78).                          *)
THEOREM AccountsStayUsable == Spec => []AccountsUsable
BY InitInv, NextInv, AccountsFollow, PTL DEF Spec
=============================================================================
