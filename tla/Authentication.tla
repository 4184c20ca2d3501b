----------------------------- MODULE Authentication -----------------------------
(***************************************************************************)
(* Login, refresh and logout, from AuthController down to the users table, *)
(* and AuthMiddleware: src/src/api/controllers/auth_controller.cpp,        *)
(* AuthenticateUserUseCase, AuthServiceImpl (src/src/main.cpp) and         *)
(* PostgresUserRepository.                                                 *)
(*                                                                         *)
(* A login reads the user twice, a refresh too, each time in a transaction *)
(* of its own.  The table may change between the two: whoever calls save,  *)
(* update and remove of the repository runs beside the handlers.  Emails   *)
(* and times are left out.                                                 *)
(*                                                                         *)
(* decode_jwt reads a token's claims and verifies nothing: neither who     *)
(* signed it nor whether it has expired matters to what follows.  So there *)
(* is no clock, the access and the refresh token of a user, which carry    *)
(* the same claims, are one, and requests bring tokens that were handed    *)
(* out and others.                                                         *)
(***************************************************************************)
EXTENDS Integers, FiniteSets

CONSTANTS
  Clients,        \* requests in progress at once, one for each client
  Ids,            \* user ids, of rows and of nobody
  Usernames,      \* nonempty names
  Passwords,      \* nonempty passwords
  Empty,          \* ""
  Absent,         \* what a request does not have: a field, a body, a bearer token
  Malformed,      \* a token that does not decode
  Garbled,        \* one that does, and whose subject makes Uuid::from_string throw
  OtherTokens,    \* tokens that decode although this server has not handed them out
  Nothing,        \* no row with that id, no request yet, no user
  Sha256,         \* the digest of each password and of ""
  Rows,           \* the rows that save and update write
  InitTables,     \* contents of the users table at startup
  MaxRequests,    \* bound: requests by one client
  MaxWrites,      \* bound: writes of the users table
  MaxErrors       \* bound: lookups that fail

VARIABLES
  users,      \* the users table, as a function from id
  tokens,     \* tokens handed out
  pc,         \* the lookup a client's request is about to make
  req,        \* the request
  name,       \* the username AuthService::authenticate is called with
  answer,     \* status of the last response, 0 if the request went on to its handler
  grant,      \* the user in the AuthTokens of the response
  attributes, \* user_id and user_role as the middleware has set them
  sent, writes, errors,   \* what the bounds bound
  seen,       \* history: rows that the table had during the client's request
  missed,     \* history: usernames and ids that it did not have at some moment of it
  failed      \* history: a lookup of the request has failed

handlers == <<tokens, pc, req, name, answer, grant, attributes, sent, errors, failed>>
vars == <<users, tokens, pc, req, name, answer, grant, attributes, sent, writes, errors,
          seen, missed, failed>>

--------------------------------------------------------------------------------
(* Data *)

Roles == {"admin", "manager", "operator", "viewer"}
Row == [username : Usernames, password_hash : {Sha256[p] : p \in Passwords \cup {Empty}},
        role : Roles, is_active : BOOLEAN]
Token == [sub : Ids, username : Usernames, role : Roles]
Request == [op : {"login", "refresh", "logout", "protected"},
            username : Usernames \cup {Empty, Absent},
            password : Passwords \cup {Empty, Absent},
            token : Token \cup {Malformed, Garbled, Empty, Absent}]

ASSUME NamesAssumption ==
  /\ Empty # Absent
  /\ {Empty, Absent} \cap (Usernames \cup Passwords) = {}
  /\ {Empty, Absent, Malformed, Garbled} \cap Token = {} /\ OtherTokens \subseteq Token
  /\ Garbled \notin {Malformed, Empty, Absent}
  /\ Usernames \cap Ids = {}
  /\ Nothing \notin Row \cup Request \cup (Ids \X Row) \cup [user_id : Ids, user_role : Roles]
ASSUME RowsAssumption == Rows \subseteq Row
ASSUME InitTablesAssumption ==
  \A table \in InitTables :
    /\ table \in [Ids -> Row \cup {Nothing}]
    /\ \A i, j \in Ids : table[i] # Nothing /\ table[j] # Nothing
                         /\ table[i].username = table[j].username => i = j
ASSUME BoundsAssumption == MaxRequests \in Nat /\ MaxWrites \in Nat /\ MaxErrors \in Nat

Present(id) == users[id] # Nothing
WithName(n) == {id \in Ids : Present(id) /\ users[id].username = n}

\* verify_password
Verify(p, row) == Sha256[p] = row.password_hash

\* What AuthenticateUserUseCase makes of the user it has read.
UseCaseError_AnyAccount(p, row) == IF Verify(p, row) THEN "kOk" ELSE "kUnauthorized"
UseCaseError_Negated(p, row) == IF row.is_active THEN "kForbidden"
                                ELSE IF Verify(p, row) THEN "kOk" ELSE "kUnauthorized"
UseCaseError(p, row) == IF ~row.is_active THEN "kForbidden"
                        ELSE IF Verify(p, row) THEN "kOk" ELSE "kUnauthorized"

\* The status AuthController answers to an error of the service it has called.
Status(op, code) ==
  IF \/ op = "login" /\ code \in {"kAuthenticationFailed", "kNotFound"}
     \/ op = "refresh" /\ code \in {"kTokenExpired", "kInvalidToken"}
  THEN 401 ELSE 500

\* generate_jwt
Claims_NoRole(id, row) == [sub |-> id, username |-> row.username]
Claims(id, row) == [sub |-> id, username |-> row.username, role |-> row.role]

--------------------------------------------------------------------------------
(* Steps of a handler *)

Init ==
  /\ users \in InitTables
  /\ tokens = {}
  /\ pc = [c \in Clients |-> "idle"]
  /\ req = [c \in Clients |-> Nothing]
  /\ name = [c \in Clients |-> Empty]
  /\ answer = [c \in Clients |-> 0]
  /\ grant = [c \in Clients |-> Nothing]
  /\ attributes = [c \in Clients |-> Nothing]
  /\ sent = [c \in Clients |-> 0]
  /\ writes = 0
  /\ errors = 0
  /\ seen = [c \in Clients |-> {}]
  /\ missed = [c \in Clients |-> {}]
  /\ failed = [c \in Clients |-> FALSE]

At(c, place) == pc[c] = place

Call(c, place) == pc' = [pc EXCEPT ![c] = place] /\ answer' = answer
Reply(c, status) == /\ pc' = [pc EXCEPT ![c] = "idle"]
                    /\ answer' = [answer EXCEPT ![c] = status]

LookupSucceeds == errors' = errors /\ failed' = failed
LookupFails(c) == /\ errors < MaxErrors
                  /\ errors' = errors + 1
                  /\ failed' = [failed EXCEPT ![c] = TRUE]

RowsOf(table) == {<<id, table[id]>> : id \in {i \in Ids : table[i] # Nothing}}
NotIn(table) == (Usernames \cup Ids)
                \ UNION {{id, table[id].username} : id \in {i \in Ids : table[i] # Nothing}}

\* A request arrives while the client waits for no other.
Receive(c, op, n, p, token) ==
  /\ At(c, "idle")
  /\ sent[c] < MaxRequests
  /\ sent' = [sent EXCEPT ![c] = @ + 1]
  /\ req' = [req EXCEPT ![c] = [op |-> op, username |-> n, password |-> p, token |-> token]]
  /\ grant' = [grant EXCEPT ![c] = Nothing]
  /\ attributes' = [attributes EXCEPT ![c] = Nothing]
  /\ seen' = [seen EXCEPT ![c] = RowsOf(users)]
  /\ missed' = [missed EXCEPT ![c] = NotIn(users)]
  /\ failed' = [failed EXCEPT ![c] = FALSE]
  /\ UNCHANGED <<users, tokens, name, writes, errors>>

\* What a lookup leaves alone.
Lookup == UNCHANGED <<users, req, sent, writes, seen, missed>>

(* POST /login *)
Login(c) ==
  \E n \in Usernames \cup {Empty, Absent}, p \in Passwords \cup {Empty, Absent} :
    /\ Receive(c, "login", n, p, Absent)
    /\ IF Absent \in {n, p} THEN Reply(c, 400)
       ELSE IF Empty \in {n, p} THEN Reply(c, 422)
       ELSE Call(c, "check")

\* The use case's find_by_username; an account that is not found, for whatever
\* reason, and a wrong password are one error.
CheckUser(c) ==
  LET n == req[c].username
      refuse(code) == Reply(c, Status("login", code)) /\ name' = name
  IN
  /\ At(c, "check")
  /\ \/ \E id \in WithName(n) :
          LET code == UseCaseError(req[c].password, users[id]) IN
          /\ LookupSucceeds
          /\ IF code = "kOk" THEN Call(c, "authenticate") /\ name' = [name EXCEPT ![c] = n]
             ELSE refuse(code)
     \/ WithName(n) = {} /\ LookupSucceeds /\ refuse("kUnauthorized")
     \/ LookupFails(c) /\ refuse("kUnauthorized")
  /\ Lookup /\ UNCHANGED <<tokens, grant, attributes>>

\* AuthServiceImpl::authenticate, called by the use case and by refresh_tokens,
\* which has no password to give.
Authenticate(c) ==
  LET op == req[c].op
      p == IF op = "login" THEN req[c].password ELSE Empty
      refuse(code) == Reply(c, Status(op, code)) /\ UNCHANGED <<tokens, grant>>
  IN
  /\ At(c, "authenticate")
  /\ \/ \E id \in WithName(name[c]) :
          /\ LookupSucceeds
          /\ IF Verify(p, users[id])
             THEN /\ Reply(c, 200)
                  /\ tokens' = tokens \cup {Claims(id, users[id])}
                  /\ grant' = [grant EXCEPT ![c] = <<id, users[id]>>]
             ELSE refuse("kUnauthorized")
     \/ WithName(name[c]) = {} /\ LookupSucceeds /\ refuse("kNotFound")
     \/ LookupFails(c) /\ refuse("kDatabaseError")
  /\ Lookup /\ UNCHANGED <<name, attributes>>

\* Tokens that decode to the claims of a user.  A subject that is no id is nobody's.
Decodable == tokens \cup OtherTokens

\* What drogon makes of an exception that leaves a handler or a middleware.
Thrown == 500

(* POST /refresh *)
Refresh(c) ==
  \E token \in Decodable \cup {Malformed, Garbled, Empty, Absent} :
    /\ Receive(c, "refresh", Absent, Absent, token)
    /\ \/ token = Absent /\ Reply(c, 400)
       \/ token = Empty /\ Reply(c, 422)
       \/ token = Malformed /\ Reply(c, Status("refresh", "kUnauthorized"))
       \/ token = Garbled /\ Reply(c, Thrown)
       \/ token \in Decodable /\ Call(c, "find_by_id")

FindById(c) ==
  LET token == req[c].token
      refuse == Reply(c, Status("refresh", "kUnauthorized")) /\ name' = name
  IN
  /\ At(c, "find_by_id")
  /\ \/ /\ Present(token.sub)
        /\ LookupSucceeds
        /\ Call(c, "authenticate")
        /\ name' = [name EXCEPT ![c] = users[token.sub].username]
     \/ ~Present(token.sub) /\ LookupSucceeds /\ refuse
     \/ LookupFails(c) /\ refuse
  /\ Lookup /\ UNCHANGED <<tokens, grant, attributes>>

(* POST /logout: validate_token decodes the token, and nothing is recorded. *)
Logout(c) ==
  \E token \in Decodable \cup {Malformed, Garbled, Absent} :
    /\ Receive(c, "logout", Absent, Absent, token)
    /\ Reply(c, IF token \in {Malformed, Absent} THEN 401 ELSE 204)

(* AuthMiddleware::invoke *)
Invoke(c) ==
  \E token \in Decodable \cup {Malformed, Garbled, Absent} :
    /\ Receive(c, "protected", Absent, Absent, token)
    /\ \/ token \in {Malformed, Absent} /\ Reply(c, 401)
       \/ token = Garbled /\ Reply(c, Thrown)
       \/ token \in Decodable /\ Call(c, "current_user")

\* user_role, from the row and not from the token
RoleFor_Claimed(token) == token.role
RoleFor(token) == users[token.sub].role

CurrentUser(c) ==
  LET token == req[c].token IN
  /\ At(c, "current_user")
  /\ \/ /\ Present(token.sub)
        /\ LookupSucceeds
        /\ attributes' = [attributes EXCEPT ![c] =
                            [user_id |-> token.sub, user_role |-> RoleFor(token)]]
     \/ ~Present(token.sub) /\ LookupSucceeds /\ attributes' = attributes
     \/ LookupFails(c) /\ attributes' = attributes
  /\ Reply(c, 0)
  /\ Lookup /\ UNCHANGED <<tokens, name, grant>>

--------------------------------------------------------------------------------
(* Writers of the table *)

Busy(c) == ~At(c, "idle")

WriteUsers(table) ==
  /\ writes < MaxWrites
  /\ writes' = writes + 1
  /\ users' = table
  /\ seen' = [c \in Clients |-> IF Busy(c) THEN seen[c] \cup RowsOf(table) ELSE seen[c]]
  /\ missed' = [c \in Clients |-> IF Busy(c) THEN missed[c] \cup NotIn(table) ELSE missed[c]]
  /\ UNCHANGED handlers

\* username is UNIQUE.
Storable(id, row) == WithName(row.username) \subseteq {id}

SaveUser == \E id \in Ids, row \in Rows :
  ~Present(id) /\ Storable(id, row) /\ WriteUsers([users EXCEPT ![id] = row])
UpdateUser == \E id \in Ids, row \in Rows :
  Present(id) /\ Storable(id, row) /\ WriteUsers([users EXCEPT ![id] = row])
RemoveUser == \E id \in Ids :
  Present(id) /\ WriteUsers([users EXCEPT ![id] = Nothing])

Terminated == (\A c \in Clients : At(c, "idle")) /\ UNCHANGED vars

Next ==
  \/ \E c \in Clients :
       \/ Login(c) \/ CheckUser(c) \/ Authenticate(c)
       \/ Refresh(c) \/ FindById(c)
       \/ Logout(c)
       \/ Invoke(c) \/ CurrentUser(c)
  \/ SaveUser \/ UpdateUser \/ RemoveUser
  \/ Terminated

Spec == Init /\ [][Next]_vars

--------------------------------------------------------------------------------
(* Properties *)

\* Every variable keeps to its type.
TypeOK ==
  /\ users \in [Ids -> Row \cup {Nothing}]
  /\ tokens \in SUBSET Token
  /\ pc \in [Clients -> {"idle", "check", "authenticate", "find_by_id", "current_user"}]
  /\ req \in [Clients -> Request \cup {Nothing}]
  /\ name \in [Clients -> Usernames \cup {Empty}]
  /\ answer \in [Clients -> {0, 200, 204, 400, 401, 422, 500}]
  /\ grant \in [Clients -> (Ids \X Row) \cup {Nothing}]
  /\ attributes \in [Clients -> [user_id : Ids, user_role : Roles] \cup {Nothing}]
  /\ sent \in [Clients -> 0..MaxRequests]
  /\ writes \in 0..MaxWrites
  /\ errors \in 0..MaxErrors
  /\ seen \in [Clients -> SUBSET (Ids \X Row)]
  /\ missed \in [Clients -> SUBSET (Usernames \cup Ids)]
  /\ failed \in [Clients -> BOOLEAN]

Answered(c, op) == At(c, "idle") /\ req[c] # Nothing /\ req[c].op = op

\* A login that is answered with tokens had, at some moment of the call, an
\* active account of that name and password; the tokens are those of a user
\* with that name and password in the table at some moment, too.  The two
\* reads may see different rows: an account deactivated in between still gets
\* its tokens, one deactivated before does not.
GrantedWhileActive ==
  \A c \in Clients : Answered(c, "login") /\ answer[c] = 200 =>
    /\ \E s \in seen[c] : /\ s[2].username = req[c].username
                          /\ s[2].is_active
                          /\ s[2].password_hash = Sha256[req[c].password]
    /\ grant[c] \in seen[c]
    /\ grant[c][2].username = req[c].username
    /\ grant[c][2].password_hash = Sha256[req[c].password]

\* An active account that nobody touches during the call, and whose lookups
\* do not fail, is always let in with its password.
StableAccountLogsIn ==
  \A c \in Clients, id \in Ids :
    /\ Answered(c, "login")
    /\ ~failed[c]
    /\ id \notin missed[c]
    /\ \A s \in seen[c] : s[1] = id => /\ s[2].is_active
                                       /\ s[2].username = req[c].username
                                       /\ req[c].password \in Passwords
                                       /\ s[2].password_hash = Sha256[req[c].password]
    => answer[c] = 200

\* The role a handler is given is one the user had during the request, whatever
\* role the token claims.  It is given none only if the user was missing from the table
\* or could not be looked up.
AttributesAreCurrent ==
  \A c \in Clients :
    LET token == req[c].token IN
    Answered(c, "protected") /\ answer[c] = 0 =>
      IF attributes[c] = Nothing THEN failed[c] \/ token.sub \in missed[c]
      ELSE \E s \in seen[c] : s[1] = token.sub /\ s[1] = attributes[c].user_id
                              /\ s[2].role = attributes[c].user_role

================================================================================
