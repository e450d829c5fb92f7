-------------------------------- MODULE Edge --------------------------------
(***************************************************************************)
(* Between the socket and the tables: what the environment makes of the    *)
(* server at boot, which address and which origin it takes a request to    *)
(* come from, and what becomes of the body of a request, from its          *)
(* validation to the stored row and the answer.  A handler is one step     *)
(* here; Sessions, Credentials and Agents interleave the statements, and   *)
(* RateLimiter counts the requests of a bucket and refuses some of them.   *)
(***************************************************************************)
EXTENDS Naturals, Sequences

CONSTANTS
    Addresses,  \* what a request can be taken to come from
    Clients,    \* addresses of clients
    Proxies,    \* addresses of the proxies before the server, nearest first
    Forged,     \* what clients put in X-Forwarded-For, last entry first
    Paths,      \* request paths as written: several may spell one route
    Origins,    \* origins of web pages
    Star,       \* "*"
    MaxHops,    \* bound on the hop counts tried
    Spellings,  \* e-mail addresses as typed
    Normal,     \* toLowerCase and trim on them
    Malformed,  \* those that z.string().email() refuses
    Wide,       \* those over 255 characters
    Names,      \* display names as typed
    Trimmed,    \* trim on them
    Blank,      \* those that only hold white space
    Refused,    \* those that are empty or over 100 characters
    Passwords,  \* nonempty passwords as typed
    Weak,       \* those of less than 8 or over 128 characters
    Hash,       \* what bcrypt makes of them: it reads 72 bytes
    None        \* no origin, no name

ASSUME EdgeAssumption ==
    /\ Clients \subseteq Addresses /\ Proxies \in Seq(Addresses) /\ Forged \subseteq Seq(Addresses)
    /\ Clients \cap {Proxies[i] : i \in DOMAIN Proxies} = {}
    /\ Normal \in [Spellings -> Spellings] /\ Trimmed \in [Names -> Names]
    /\ \A e \in Spellings : Normal[Normal[e]] = Normal[e]
    /\ \A e \in Spellings \ Malformed : Normal[e] \notin Malformed
    /\ \A n \in Names \ Blank : Trimmed[n] \notin Blank
    /\ \A n \in Names \ (Blank \cup Refused) : Trimmed[n] \notin Refused
    /\ Passwords \subseteq DOMAIN Hash
    /\ Star \notin Origins \cup {None} /\ None \notin Origins \cup Names

VARIABLES
    conf,     \* the configuration of the running server
    users,    \* rows of users: address, display name and password hash
    agents,   \* rows of agents: display name
    answer    \* the last answer

vars == <<conf, users, agents, answer>>

-----------------------------------------------------------------------------
(* TRUST_PROXY, CORS_ORIGIN (given, and its nonempty parts) and NODE_ENV.  *)
Env ==
    {env \in [trust : {"unset", "false", "true", "hops", "other"}, hops : 0..MaxHops,
              cors : BOOLEAN, origins : SUBSET (Origins \cup {Star}), production : BOOLEAN] :
        /\ env.trust # "hops" => env.hops = 0
        /\ ~ env.cors => env.origins = {}}

Down == [running |-> FALSE]

\* Mutant: no default for production.
HopsUnset(env) == IF env.trust = "hops" THEN env.hops ELSE 0

(* resolveTrustProxy, where false trusts no hop; it throws for "true" and  *)
(* for what is neither false nor a count.                                  *)
Hops(env) ==
    CASE env.trust = "hops" -> env.hops
      [] env.trust = "unset" /\ env.production -> 1
      [] OTHER -> 0

(* buildCorsOptions; it throws in production if CORS_ORIGIN is not given.  *)
Cors(env) ==
    CASE env.cors /\ Star \in env.origins ->
              [origin |-> "star", list |-> {}, credentials |-> FALSE]
      [] env.cors /\ Star \notin env.origins ->
              [origin |-> "list", list |-> env.origins, credentials |-> TRUE]
      [] OTHER -> [origin |-> "any", list |-> {}, credentials |-> TRUE]

\* Mutant: production starts without origins.
BootsAnyway(env) == env.trust \notin {"true", "other"}

Boots(env) ==
    /\ env.trust \notin {"true", "other"}
    /\ env.cors \/ ~ env.production

NoAnswer == [status |-> 0, origin |-> None, allowed |-> None, credentials |-> FALSE, name |-> None]

Init ==
    /\ conf = Down
    /\ users = {}
    /\ agents = {}
    /\ answer = NoAnswer

(* bootstrap: the process starts, again perhaps, with some environment.    *)
Boot(env) ==
    /\ conf' = IF Boots(env)
                 THEN [running |-> TRUE, env |-> env, hops |-> Hops(env), cors |-> Cors(env)]
                 ELSE Down
    /\ answer' = NoAnswer
    /\ UNCHANGED <<users, agents>>

-----------------------------------------------------------------------------
(* req.ip by Express: of the peer and the entries of X-Forwarded-For from  *)
(* the last to the first, to which each proxy added its own peer, the one  *)
(* that hops trusted ones lead to.                                         *)
Ip(client, forged) ==
    LET chain == Proxies \o <<client>> \o forged
    IN  chain[IF conf.hops < Len(chain) THEN conf.hops + 1 ELSE Len(chain)]

(* Access-Control-Allow-Origin by the cors package. *)
Allowed(origin) ==
    CASE conf.cors.origin = "star" -> Star
      [] conf.cors.origin = "any" -> origin
      [] OTHER -> IF origin \in conf.cors.list THEN origin ELSE None

Answer(origin, status, name) ==
    answer' = [status |-> status, origin |-> origin, allowed |-> Allowed(origin),
               credentials |-> conf.cors.credentials, name |-> name]

(* RateLimitGuard counts a request under its address and its path: a key   *)
(* of RateLimiter.                                                         *)
Bucket(client, forged, path) == <<Ip(client, forged), path>>

(* RateLimitGuard refuses the request, whose body is then never read.      *)
TooMany(origin) ==
    /\ conf.running
    /\ Answer(origin, 429, None)
    /\ UNCHANGED <<conf, users, agents>>

-----------------------------------------------------------------------------
\* Mutant: the address is stored as typed.
CreateEmailRaw(e) == e

(* createEmail *)
CreateEmail(e) == Normal[e]

(* Actor.validateDisplayName, on creation and on every load.               *)
ValidDisplayName(n) == n \notin Blank \cup Refused

(* toDomain, fromPersistence: neither throws.                              *)
Loads(user) == ValidDisplayName(user.name) /\ Normal[user.email] \notin Malformed

FindByEmail(e) == {u \in users : u.email = e}

(* CreateUserRequest; the length of passwords is checked twice, alike. *)
ValidRegistration(email, name, password) ==
    email \notin Malformed /\ name \notin Refused /\ password \notin Weak

(* BcryptPasswordHasher: passwords that agree in what bcrypt reads verify  *)
(* alike.                                                                  *)
Hashed(password) == Hash[password]

Verifies(password, user) == Hash[password] = user.hash

(* The answers name the actor: by the entity that was saved, by the one    *)
(* that was loaded, and by the new agent.                                  *)
RegisterUserResponse(user) == user.name
LoginResponse(user) == user.name
RefreshTokenResponse == None
CreateAgentResponse(agent) == agent
AgentResponse(agent) == agent

(* The status of POST /auth/register: what the body is refused for, the    *)
(* address that is taken, the name that User.create throws on, and the     *)
(* address that does not fit its column.                                   *)
RegistrationStatus(email, name, password) ==
    IF ~ ValidRegistration(email, name, password) THEN 400
    ELSE IF FindByEmail(CreateEmail(email)) # {} THEN 409
    ELSE IF ~ ValidDisplayName(name) \/ email \in Wide THEN 500 ELSE 201

Register(origin, email, name, password) ==
    LET status == RegistrationStatus(email, name, password)
        user == [email |-> CreateEmail(email), name |-> name, hash |-> Hashed(password)]
    IN  /\ conf.running
        /\ users' = IF status = 201 THEN users \cup {user} ELSE users
        /\ Answer(origin, status, IF status = 201 THEN RegisterUserResponse(user) ELSE None)
        /\ UNCHANGED <<conf, agents>>

(* The status of POST /auth/login. *)
LoginStatus(email, password) ==
    LET found == FindByEmail(CreateEmail(email))
    IN  CASE email \in Malformed -> 400
          [] email \notin Malformed /\ found = {} -> 401
          [] OTHER -> IF \E u \in found : ~ Loads(u) THEN 500
                      ELSE IF \A u \in found : Verifies(password, u) THEN 200 ELSE 401

Login(origin, email, password) ==
    LET found == FindByEmail(CreateEmail(email))
        status == LoginStatus(email, password)
    IN  /\ conf.running
        /\ \E n \in IF status = 200 THEN {LoginResponse(u) : u \in found} ELSE {None} :
              Answer(origin, status, n)
        /\ UNCHANGED <<conf, users, agents>>

(* POST /auth/refresh with what cannot be a token, one of no session, or   *)
(* one of a user's; the answer leaves the name of its owner empty.         *)
RefreshStatus(token) ==
    CASE token = "malformed" -> 400
      [] token = "dead" -> 401
      [] token = "live" -> 200

Refresh(origin, token) ==
    /\ conf.running
    /\ token = "live" => users # {}
    /\ Answer(origin, RefreshStatus(token), RefreshTokenResponse)
    /\ UNCHANGED <<conf, users, agents>>

(* POST /agents by an authenticated client: a blank name is refused by the *)
(* use case, which trims others; the unique prefix admits one agent.       *)
CreateAgentStatus(name) ==
    IF name \in Blank \cup Refused THEN 400
    ELSE IF agents # {} THEN 500 ELSE 201

CreateAgent(origin, name) ==
    LET status == CreateAgentStatus(name)
    IN  /\ conf.running
        /\ agents' = IF status = 201 THEN {Trimmed[name]} ELSE agents
        /\ Answer(origin, status,
                  IF status = 201 THEN CreateAgentResponse(Trimmed[name]) ELSE None)
        /\ UNCHANGED <<conf, users>>

(* GET /agents/:id by an authenticated client, who may be the owner or the *)
(* agent itself; the name is checked again when the agent is loaded.       *)
GetAgentStatus(id, mine) ==
    CASE id = "malformed" -> 400
      [] id = "unknown" -> 404
      [] id = "known" -> IF \E a \in agents : ~ ValidDisplayName(a) THEN 500
                         ELSE IF mine THEN 200 ELSE 403

GetAgent(origin, id, mine) ==
    LET status == GetAgentStatus(id, mine)
    IN  /\ conf.running
        /\ id = "known" => agents # {}
        /\ \E n \in IF status = 200 THEN {AgentResponse(a) : a \in agents} ELSE {None} :
              Answer(origin, status, n)
        /\ UNCHANGED <<conf, users, agents>>

Next ==
    \/ \E env \in Env : Boot(env)
    \/ \E origin \in Origins \cup {None} :
          \/ TooMany(origin)
          \/ \E email \in Spellings, password \in Passwords :
                \/ \E name \in Names : Register(origin, email, name, password)
                \/ Login(origin, email, password)
          \/ \E token \in {"malformed", "dead", "live"} : Refresh(origin, token)
          \/ \E name \in Names : CreateAgent(origin, name)
          \/ \E id \in {"malformed", "unknown", "known"}, mine \in BOOLEAN :
                GetAgent(origin, id, mine)

Spec == Init /\ [][Next]_vars

-----------------------------------------------------------------------------
(* TRUST_PROXY is the number of proxies, or is left to its default with    *)
(* one proxy in production or none elsewhere.                              *)
TrustFitsProxies(env) ==
    \/ env.trust = "hops" /\ env.hops = Len(Proxies)
    \/ env.trust = "unset" /\ Len(Proxies) = IF env.production THEN 1 ELSE 0

(* If TRUST_PROXY fits, two requests are counted in one bucket exactly if  *)
(* they come from one client and name one path in one way, whatever their  *)
(* senders put in X-Forwarded-For: nobody leaves a bucket by forging the   *)
(* header, or fills that of another (http-config.ts:7-10,                  *)
(* rate-limit.middleware.ts:170-172).  A client has a bucket for every     *)
(* path, and for every way to write it.                                    *)
OneBucketPerClient ==
    (conf.running /\ TrustFitsProxies(conf.env)) =>
        \A c, d \in Clients, f, g \in Forged, p, q \in Paths :
            Bucket(c, f, p) = Bucket(d, g, q) <=> c = d /\ p = q

(* A browser hands an answer to a page together with its cookies only if   *)
(* the answer names the page's origin and allows credentials; in           *)
(* production it then is on the list, and the two headers are never a      *)
(* combination that browsers reject (http-config.ts:11-14).                *)
CookiesOnlyForTheListed ==
    (answer.status # 0 /\ answer.credentials) =>
        /\ answer.allowed # Star
        /\ (conf.env.production /\ answer.allowed # None) =>
              answer.allowed = answer.origin /\ answer.origin \in conf.env.origins

(* An address has one account, however it is spelled, and who registered   *)
(* it logs in with any spelling that is accepted, and with the password or *)
(* one that bcrypt takes for it: what was stored passes the checks that    *)
(* are made again whenever it is loaded (user.entity.ts:26-32,             *)
(* actor.entity.ts:77-78), and so does an agent.  An answer that names an  *)
(* actor names one that is stored.                                         *)
AccountsUsable ==
    /\ \A u, v \in users : Normal[u.email] = Normal[v.email] => u = v
    /\ \A u \in users, e \in Spellings \ Malformed, p \in Passwords :
          Normal[e] = Normal[u.email] =>
              LoginStatus(e, p) = IF Hash[p] = u.hash THEN 200 ELSE 401
    /\ GetAgentStatus("known", TRUE) = 200
    /\ answer.name # None => answer.name \in {u.name : u \in users} \cup agents
=============================================================================
