-------------------------- MODULE AuthenticationProofs --------------------------
(***************************************************************************)
(* Theorems about Authentication, for every set of clients, accounts and   *)
(* rows.  The inductive invariant says, beside the types, what a handler   *)
(* between two lookups knows of its request (CallInv), that the history of *)
(* a request in progress contains the present table (HistoryInv), what the *)
(* first lookup has found out for the second (FoundInv), and that names    *)
(* are unique (NamesInv).                                                  *)
(***************************************************************************)
EXTENDS Authentication, TLAPS

\* What a handler about to make a lookup knows.
CallInv ==
  \A c \in Clients :
    /\ At(c, "check") => /\ req[c] \in Request /\ req[c].op = "login"
                         /\ req[c].username \in Usernames /\ req[c].password \in Passwords
    /\ At(c, "find_by_id") => /\ req[c] \in Request /\ req[c].op = "refresh"
                              /\ req[c].token \in Token
    /\ At(c, "current_user") => /\ req[c] \in Request /\ req[c].op = "protected"
                                /\ req[c].token \in Token
    /\ At(c, "authenticate") =>
         /\ req[c] \in Request
         /\ name[c] \in Usernames
         /\ \/ /\ req[c].op = "login"
               /\ req[c].password \in Passwords
               /\ name[c] = req[c].username
            \/ req[c].op = "refresh" /\ req[c].token \in Token

TypeInv == TypeOK /\ CallInv

--------------------------------------------------------------------------------
(* Types *)

LEMMA RequestType ==
  ASSUME NEW op \in {"login", "refresh", "logout", "protected"},
         NEW n \in Usernames \cup {Empty, Absent}, NEW p \in Passwords \cup {Empty, Absent},
         NEW token \in Token \cup {Malformed, Garbled, Empty, Absent}
  PROVE  [op |-> op, username |-> n, password |-> p, token |-> token] \in Request
BY DEF Request

LEMMA HistoryType ==
  ASSUME NEW table \in [Ids -> Row \cup {Nothing}]
  PROVE  RowsOf(table) \in SUBSET (Ids \X Row) /\ NotIn(table) \in SUBSET (Usernames \cup Ids)
BY DEF RowsOf, NotIn

\* A request that arrives is the one sent and does not disturb the others.
LEMMA ReceiveRequest ==
  ASSUME TypeInv, NEW c \in Clients,
         NEW op \in {"login", "refresh", "logout", "protected"},
         NEW n \in Usernames \cup {Empty, Absent}, NEW p \in Passwords \cup {Empty, Absent},
         NEW token \in Token \cup {Malformed, Garbled, Empty, Absent},
         Receive(c, op, n, p, token)
  PROVE  /\ req'[c] \in Request
         /\ req'[c].op = op /\ req'[c].username = n /\ req'[c].password = p
         /\ req'[c].token = token
         /\ \A d \in Clients \ {c} : req'[d] = req[d] /\ name'[d] = name[d]
<1> DEFINE r == [op |-> op, username |-> n, password |-> p, token |-> token]
<1>1. r \in Request
  BY RequestType
<1>2. req' = [req EXCEPT ![c] = r] /\ name' = name
  BY DEF Receive
<1>3. req'[c] = r /\ \A d \in Clients \ {c} : req'[d] = req[d]
  BY <1>2 DEF TypeInv, TypeOK
<1>4. r.op = op /\ r.username = n /\ r.password = p /\ r.token = token
  OBVIOUS
<1> QED
  BY <1>1, <1>2, <1>3, <1>4

\* A request that arrives is well typed, and so is all that it leaves.
LEMMA ReceiveType ==
  ASSUME TypeInv, NEW c \in Clients,
         NEW op \in {"login", "refresh", "logout", "protected"},
         NEW n \in Usernames \cup {Empty, Absent}, NEW p \in Passwords \cup {Empty, Absent},
         NEW token \in Token \cup {Malformed, Garbled, Empty, Absent},
         Receive(c, op, n, p, token)
  PROVE  /\ users' \in [Ids -> Row \cup {Nothing}]
         /\ tokens' \in SUBSET Token
         /\ req' \in [Clients -> Request \cup {Nothing}]
         /\ name' \in [Clients -> Usernames \cup {Empty}]
         /\ grant' \in [Clients -> (Ids \X Row) \cup {Nothing}]
         /\ attributes' \in [Clients -> [user_id : Ids, user_role : Roles] \cup {Nothing}]
         /\ sent' \in [Clients -> 0..MaxRequests]
         /\ writes' \in 0..MaxWrites
         /\ errors' \in 0..MaxErrors
         /\ seen' \in [Clients -> SUBSET (Ids \X Row)]
         /\ missed' \in [Clients -> SUBSET (Usernames \cup Ids)]
         /\ failed' \in [Clients -> BOOLEAN]
<1> DEFINE r == [op |-> op, username |-> n, password |-> p, token |-> token]
<1>1. r \in Request
  BY RequestType
<1>2. RowsOf(users) \in SUBSET (Ids \X Row) /\ NotIn(users) \in SUBSET (Usernames \cup Ids)
  BY HistoryType DEF TypeInv, TypeOK
<1>3. req' = [req EXCEPT ![c] = r]
  BY DEF Receive
<1>4. /\ users' = users /\ tokens' = tokens /\ name' = name /\ writes' = writes /\ errors' = errors
      /\ sent' = [sent EXCEPT ![c] = @ + 1] /\ sent[c] < MaxRequests
      /\ grant' = [grant EXCEPT ![c] = Nothing]
      /\ attributes' = [attributes EXCEPT ![c] = Nothing]
      /\ seen' = [seen EXCEPT ![c] = RowsOf(users)]
      /\ missed' = [missed EXCEPT ![c] = NotIn(users)]
      /\ failed' = [failed EXCEPT ![c] = FALSE]
  BY DEF Receive
<1>6. sent' \in [Clients -> 0..MaxRequests]
  BY <1>4, BoundsAssumption DEF TypeInv, TypeOK
<1>7. /\ seen' \in [Clients -> SUBSET (Ids \X Row)]
      /\ missed' \in [Clients -> SUBSET (Usernames \cup Ids)]
  BY <1>2, <1>4 DEF TypeInv, TypeOK
<1> HIDE DEF r
<1>8. req' \in [Clients -> Request \cup {Nothing}]
  BY <1>1, <1>3 DEF TypeInv, TypeOK
<1>9. failed' \in [Clients -> BOOLEAN]
  BY <1>4 DEF TypeInv, TypeOK
<1>10. /\ grant' \in [Clients -> (Ids \X Row) \cup {Nothing}]
       /\ attributes' \in [Clients -> [user_id : Ids, user_role : Roles] \cup {Nothing}]
  BY <1>4 DEF TypeInv, TypeOK
<1> QED
  BY <1>4, <1>6, <1>7, <1>8, <1>9, <1>10 DEF TypeInv, TypeOK

\* The next lookup of a request, or the response to it, keeps pc and answer typed.
LEMMA CallType ==
  ASSUME TypeInv, NEW c \in Clients,
         NEW place \in {"check", "authenticate", "find_by_id", "current_user"}, Call(c, place)
  PROVE  /\ pc' \in [Clients -> {"idle", "check", "authenticate", "find_by_id", "current_user"}]
         /\ answer' \in [Clients -> {0, 200, 204, 400, 401, 422, 500}]
         /\ pc'[c] = place
         /\ \A d \in Clients \ {c} : pc'[d] = pc[d]
BY DEF TypeInv, TypeOK, Call

LEMMA ReplyType ==
  ASSUME TypeInv, NEW c \in Clients, NEW status \in {0, 200, 204, 400, 401, 422, 500},
         Reply(c, status)
  PROVE  /\ pc' \in [Clients -> {"idle", "check", "authenticate", "find_by_id", "current_user"}]
         /\ answer' \in [Clients -> {0, 200, 204, 400, 401, 422, 500}]
         /\ pc'[c] = "idle" /\ answer'[c] = status
         /\ \A d \in Clients \ {c} : pc'[d] = pc[d] /\ answer'[d] = answer[d]
BY DEF TypeInv, TypeOK, Reply

LEMMA StatusType ==
  \A op, code : Status(op, code) \in {401, 500}
BY DEF Status

\* CallInv carries over to clients that a step leaves alone.
LEMMA OthersKept ==
  ASSUME TypeInv, NEW c \in Clients,
         \A d \in Clients \ {c} : pc'[d] = pc[d] /\ req'[d] = req[d] /\ name'[d] = name[d],
         At(c, "check")' => /\ req'[c] \in Request /\ req'[c].op = "login"
                            /\ req'[c].username \in Usernames /\ req'[c].password \in Passwords,
         At(c, "find_by_id")' => /\ req'[c] \in Request /\ req'[c].op = "refresh"
                                 /\ req'[c].token \in Token,
         At(c, "current_user")' => /\ req'[c] \in Request /\ req'[c].op = "protected"
                                   /\ req'[c].token \in Token,
         At(c, "authenticate")' =>
           /\ req'[c] \in Request
           /\ name'[c] \in Usernames
           /\ \/ /\ req'[c].op = "login"
                 /\ req'[c].password \in Passwords
                 /\ name'[c] = req'[c].username
              \/ req'[c].op = "refresh" /\ req'[c].token \in Token
  PROVE  CallInv'
BY DEF TypeInv, CallInv, At

\* The first step of a request: it is answered, or the handler knows what its
\* first lookup needs.
LEMMA ArrivalType ==
  ASSUME TypeInv, NEW c \in Clients,
         NEW op \in {"login", "refresh", "logout", "protected"},
         NEW n \in Usernames \cup {Empty, Absent}, NEW p \in Passwords \cup {Empty, Absent},
         NEW token \in Token \cup {Malformed, Garbled, Empty, Absent},
         Receive(c, op, n, p, token),
         \/ \E status \in {204, 400, 401, 422, 500} : Reply(c, status)
         \/ op = "login" /\ n \in Usernames /\ p \in Passwords /\ Call(c, "check")
         \/ op = "refresh" /\ token \in Token /\ Call(c, "find_by_id")
         \/ op = "protected" /\ token \in Token /\ Call(c, "current_user")
  PROVE  TypeInv'
<1>1. /\ pc' \in [Clients -> {"idle", "check", "authenticate", "find_by_id", "current_user"}]
      /\ answer' \in [Clients -> {0, 200, 204, 400, 401, 422, 500}]
      /\ \A d \in Clients \ {c} : pc'[d] = pc[d]
      /\ pc'[c] # "authenticate"
      /\ pc'[c] = "check" => op = "login" /\ n \in Usernames /\ p \in Passwords
      /\ pc'[c] = "find_by_id" => op = "refresh" /\ token \in Token
      /\ pc'[c] = "current_user" => op = "protected" /\ token \in Token
  BY CallType, ReplyType
<1>2. TypeOK'
  <2>1. /\ users' \in [Ids -> Row \cup {Nothing}]
        /\ tokens' \in SUBSET Token
        /\ req' \in [Clients -> Request \cup {Nothing}]
        /\ name' \in [Clients -> Usernames \cup {Empty}]
        /\ grant' \in [Clients -> (Ids \X Row) \cup {Nothing}]
        /\ attributes' \in [Clients -> [user_id : Ids, user_role : Roles] \cup {Nothing}]
        /\ sent' \in [Clients -> 0..MaxRequests]
        /\ writes' \in 0..MaxWrites
        /\ errors' \in 0..MaxErrors
        /\ seen' \in [Clients -> SUBSET (Ids \X Row)]
        /\ missed' \in [Clients -> SUBSET (Usernames \cup Ids)]
        /\ failed' \in [Clients -> BOOLEAN]
    BY ReceiveType
  <2>2. /\ pc' \in [Clients -> {"idle", "check", "authenticate", "find_by_id", "current_user"}]
        /\ answer' \in [Clients -> {0, 200, 204, 400, 401, 422, 500}]
    BY <1>1
  <2> QED
    BY ONLY <2>1, <2>2 DEF TypeOK
<1>3. CallInv'
  <2>1. /\ req'[c] \in Request
        /\ req'[c].op = op /\ req'[c].username = n /\ req'[c].password = p
        /\ req'[c].token = token
        /\ \A d \in Clients \ {c} : req'[d] = req[d] /\ name'[d] = name[d]
    BY ReceiveRequest
  <2>2. \A d \in Clients \ {c} : pc'[d] = pc[d] /\ req'[d] = req[d] /\ name'[d] = name[d]
    BY <1>1, <2>1
  <2>3. At(c, "check")' => /\ req'[c] \in Request /\ req'[c].op = "login"
                           /\ req'[c].username \in Usernames /\ req'[c].password \in Passwords
    BY <1>1, <2>1 DEF At
  <2>4. At(c, "find_by_id")' => /\ req'[c] \in Request /\ req'[c].op = "refresh"
                                /\ req'[c].token \in Token
    BY <1>1, <2>1 DEF At
  <2>5. At(c, "current_user")' => /\ req'[c] \in Request /\ req'[c].op = "protected"
                                  /\ req'[c].token \in Token
    BY <1>1, <2>1 DEF At
  <2>6. ~At(c, "authenticate")'
    BY <1>1 DEF At
  <2> QED
    BY <2>2, <2>3, <2>4, <2>5, <2>6, OthersKept
<1> QED
  BY <1>2, <1>3 DEF TypeInv

LEMMA LoginType == ASSUME TypeInv, NEW c \in Clients, Login(c) PROVE TypeInv'
<1>1. PICK n \in Usernames \cup {Empty, Absent}, p \in Passwords \cup {Empty, Absent} :
        /\ Receive(c, "login", n, p, Absent)
        /\ IF Absent \in {n, p} THEN Reply(c, 400)
           ELSE IF Empty \in {n, p} THEN Reply(c, 422)
           ELSE Call(c, "check")
  BY DEF Login
<1>2. \/ Reply(c, 400) \/ Reply(c, 422)
      \/ n \in Usernames /\ p \in Passwords /\ Call(c, "check")
  BY <1>1
<1> QED
  BY <1>1, <1>2, ArrivalType

LEMMA DecodableType == ASSUME TypeInv PROVE Decodable \subseteq Token
BY NamesAssumption DEF Decodable, TypeInv, TypeOK

LEMMA RefreshType == ASSUME TypeInv, NEW c \in Clients, Refresh(c) PROVE TypeInv'
<1>1. PICK token \in Decodable \cup {Malformed, Garbled, Empty, Absent} :
        /\ Receive(c, "refresh", Absent, Absent, token)
        /\ \/ \E status \in {400, 422, 500} : Reply(c, status)
           \/ Reply(c, Status("refresh", "kUnauthorized"))
           \/ token \in Decodable /\ Call(c, "find_by_id")
  BY DEF Refresh, Thrown
<1>2. \/ \E status \in {204, 400, 401, 422, 500} : Reply(c, status)
      \/ token \in Token /\ Call(c, "find_by_id")
  BY <1>1, DecodableType, StatusType
<1>3. token \in Token \cup {Malformed, Garbled, Empty, Absent}
  BY DecodableType
<1> QED
  BY <1>1, <1>2, <1>3, ArrivalType

LEMMA LogoutType == ASSUME TypeInv, NEW c \in Clients, Logout(c) PROVE TypeInv'
<1>1. PICK token \in Decodable \cup {Malformed, Garbled, Absent} :
        /\ Receive(c, "logout", Absent, Absent, token)
        /\ Reply(c, IF token \in {Malformed, Absent} THEN 401 ELSE 204)
  BY DEF Logout
<1>2. token \in Token \cup {Malformed, Garbled, Empty, Absent}
  BY DecodableType
<1>3. \E status \in {204, 400, 401, 422, 500} : Reply(c, status)
  BY <1>1
<1> QED
  BY <1>1, <1>2, <1>3, ArrivalType

LEMMA InvokeType == ASSUME TypeInv, NEW c \in Clients, Invoke(c) PROVE TypeInv'
<1>1. PICK token \in Decodable \cup {Malformed, Garbled, Absent} :
        /\ Receive(c, "protected", Absent, Absent, token)
        /\ \/ \E status \in {401, 500} : Reply(c, status)
           \/ token \in Decodable /\ Call(c, "current_user")
  BY DEF Invoke, Thrown
<1>2. \/ \E status \in {204, 400, 401, 422, 500} : Reply(c, status)
      \/ token \in Token /\ Call(c, "current_user")
  BY <1>1, DecodableType
<1>3. token \in Token \cup {Malformed, Garbled, Empty, Absent}
  BY DecodableType
<1> QED
  BY <1>1, <1>2, <1>3, ArrivalType

\* A lookup's end: the part of the types that only pc and answer and what the
\* lookup has found decide.
LEMMA LookupType ==
  ASSUME TypeInv, NEW c \in Clients, Lookup, LookupSucceeds \/ LookupFails(c)
  PROVE  /\ users' = users /\ users' \in [Ids -> Row \cup {Nothing}]
         /\ req' = req /\ req' \in [Clients -> Request \cup {Nothing}]
         /\ sent' \in [Clients -> 0..MaxRequests]
         /\ writes' \in 0..MaxWrites
         /\ errors' \in 0..MaxErrors
         /\ seen' = seen /\ seen' \in [Clients -> SUBSET (Ids \X Row)]
         /\ missed' = missed /\ missed' \in [Clients -> SUBSET (Usernames \cup Ids)]
         /\ failed' \in [Clients -> BOOLEAN]
<1>1. /\ errors \in 0..MaxErrors /\ failed \in [Clients -> BOOLEAN]
      /\ users' = users /\ req' = req /\ sent' = sent /\ writes' = writes
      /\ seen' = seen /\ missed' = missed
  BY DEF TypeInv, TypeOK, Lookup
<1>2. errors' \in 0..MaxErrors
  BY <1>1, BoundsAssumption DEF LookupSucceeds, LookupFails
<1>3. failed' \in [Clients -> BOOLEAN]
  BY <1>1 DEF LookupSucceeds, LookupFails
<1>4. /\ users \in [Ids -> Row \cup {Nothing}]
      /\ req \in [Clients -> Request \cup {Nothing}]
      /\ sent \in [Clients -> 0..MaxRequests]
      /\ writes \in 0..MaxWrites
      /\ seen \in [Clients -> SUBSET (Ids \X Row)]
      /\ missed \in [Clients -> SUBSET (Usernames \cup Ids)]
  BY DEF TypeInv, TypeOK
<1> QED
  BY <1>1, <1>2, <1>3, <1>4

\* A lookup that ends the request: whatever it has found, the handler knows all
\* it needs to, for it makes no other.
LEMMA RepliedType ==
  ASSUME TypeInv, NEW c \in Clients, Lookup, LookupSucceeds \/ LookupFails(c),
         NEW status \in {0, 200, 401, 500}, Reply(c, status),
         tokens' \in SUBSET Token,
         name' = name,
         grant' \in [Clients -> (Ids \X Row) \cup {Nothing}],
         attributes' \in [Clients -> [user_id : Ids, user_role : Roles] \cup {Nothing}]
  PROVE  TypeInv'
<1>1. /\ pc' \in [Clients -> {"idle", "check", "authenticate", "find_by_id", "current_user"}]
      /\ answer' \in [Clients -> {0, 200, 204, 400, 401, 422, 500}]
      /\ pc'[c] = "idle"
      /\ \A d \in Clients \ {c} : pc'[d] = pc[d]
  BY ReplyType
<1>2. TypeOK'
  <2>1. /\ users' \in [Ids -> Row \cup {Nothing}]
        /\ req' \in [Clients -> Request \cup {Nothing}]
        /\ sent' \in [Clients -> 0..MaxRequests]
        /\ writes' \in 0..MaxWrites
        /\ errors' \in 0..MaxErrors
        /\ seen' \in [Clients -> SUBSET (Ids \X Row)]
        /\ missed' \in [Clients -> SUBSET (Usernames \cup Ids)]
        /\ failed' \in [Clients -> BOOLEAN]
    BY LookupType
  <2>2. name' \in [Clients -> Usernames \cup {Empty}]
    BY DEF TypeInv, TypeOK
  <2> QED
    BY <1>1, <2>1, <2>2 DEF TypeOK
<1>3. CallInv'
  <2>1. \A d \in Clients \ {c} : pc'[d] = pc[d] /\ req'[d] = req[d] /\ name'[d] = name[d]
    BY <1>1 DEF Lookup
  <2>2. /\ ~At(c, "check")' /\ ~At(c, "find_by_id")'
        /\ ~At(c, "current_user")' /\ ~At(c, "authenticate")'
    BY <1>1 DEF At
  <2> QED
    BY <2>1, <2>2, OthersKept
<1> QED
  BY <1>2, <1>3 DEF TypeInv

\* A first lookup that leads to the second.
LEMMA AuthenticateNextType ==
  ASSUME TypeInv, NEW c \in Clients, Lookup, LookupSucceeds,
         NEW n \in Usernames, name' = [name EXCEPT ![c] = n],
         Call(c, "authenticate"), UNCHANGED <<tokens, grant, attributes>>,
         req[c] \in Request,
         \/ req[c].op = "login" /\ req[c].password \in Passwords /\ n = req[c].username
         \/ req[c].op = "refresh" /\ req[c].token \in Token
  PROVE  TypeInv'
<1>1. /\ pc' \in [Clients -> {"idle", "check", "authenticate", "find_by_id", "current_user"}]
      /\ answer' \in [Clients -> {0, 200, 204, 400, 401, 422, 500}]
      /\ pc'[c] = "authenticate"
      /\ \A d \in Clients \ {c} : pc'[d] = pc[d]
  BY CallType
<1>2. /\ name' \in [Clients -> Usernames \cup {Empty}]
      /\ name'[c] = n
      /\ \A d \in Clients \ {c} : name'[d] = name[d]
  BY DEF TypeInv, TypeOK
<1>3. TypeOK'
  <2>1. /\ users' \in [Ids -> Row \cup {Nothing}]
        /\ req' \in [Clients -> Request \cup {Nothing}]
        /\ sent' \in [Clients -> 0..MaxRequests]
        /\ writes' \in 0..MaxWrites
        /\ errors' \in 0..MaxErrors
        /\ seen' \in [Clients -> SUBSET (Ids \X Row)]
        /\ missed' \in [Clients -> SUBSET (Usernames \cup Ids)]
        /\ failed' \in [Clients -> BOOLEAN]
    BY LookupType
  <2>2. /\ tokens' \in SUBSET Token
        /\ grant' \in [Clients -> (Ids \X Row) \cup {Nothing}]
        /\ attributes' \in [Clients -> [user_id : Ids, user_role : Roles] \cup {Nothing}]
    BY DEF TypeInv, TypeOK
  <2> QED
    BY <1>1, <1>2, <2>1, <2>2 DEF TypeOK
<1>4. CallInv'
  <2>1. req' = req
    BY DEF Lookup
  <2>2. \A d \in Clients \ {c} : pc'[d] = pc[d] /\ req'[d] = req[d] /\ name'[d] = name[d]
    BY <1>1, <1>2, <2>1
  <2>3. ~At(c, "check")' /\ ~At(c, "find_by_id")' /\ ~At(c, "current_user")'
    BY <1>1 DEF At
  <2>4. /\ req'[c] \in Request
        /\ name'[c] \in Usernames
        /\ \/ /\ req'[c].op = "login"
              /\ req'[c].password \in Passwords
              /\ name'[c] = req'[c].username
           \/ req'[c].op = "refresh" /\ req'[c].token \in Token
    BY <1>2, <2>1
  <2> QED
    BY <2>2, <2>3, <2>4, OthersKept
<1> QED
  BY <1>3, <1>4 DEF TypeInv

LEMMA CheckUserType == ASSUME TypeInv, NEW c \in Clients, CheckUser(c) PROVE TypeInv'
<1> DEFINE n == req[c].username
           code(id) == UseCaseError(req[c].password, users[id])
<1>1. At(c, "check") /\ Lookup /\ UNCHANGED <<tokens, grant, attributes>>
  BY DEF CheckUser
<1>2. /\ req[c] \in Request /\ req[c].op = "login"
      /\ n \in Usernames /\ req[c].password \in Passwords
  BY <1>1 DEF TypeInv, CallInv
<1>3. /\ tokens' \in SUBSET Token
      /\ grant' \in [Clients -> (Ids \X Row) \cup {Nothing}]
      /\ attributes' \in [Clients -> [user_id : Ids, user_role : Roles] \cup {Nothing}]
  BY <1>1 DEF TypeInv, TypeOK
<1>4. \/ /\ LookupSucceeds /\ Call(c, "authenticate") /\ name' = [name EXCEPT ![c] = n]
      \/ /\ LookupSucceeds \/ LookupFails(c)
         /\ \E status \in {401, 500} : Reply(c, status)
         /\ name' = name
  <2>1. \/ \E id \in WithName(n) :
             /\ LookupSucceeds
             /\ IF code(id) = "kOk"
                THEN Call(c, "authenticate") /\ name' = [name EXCEPT ![c] = n]
                ELSE Reply(c, Status("login", code(id))) /\ name' = name
        \/ /\ LookupSucceeds \/ LookupFails(c)
           /\ Reply(c, Status("login", "kUnauthorized"))
           /\ name' = name
    BY DEF CheckUser
  <2> HIDE DEF code
  <2> QED
    BY <2>1, StatusType
<1>5. CASE LookupSucceeds /\ Call(c, "authenticate") /\ name' = [name EXCEPT ![c] = n]
  BY <1>1, <1>2, <1>5, AuthenticateNextType
<1>6. CASE /\ LookupSucceeds \/ LookupFails(c)
           /\ \E status \in {401, 500} : Reply(c, status)
           /\ name' = name
  BY <1>1, <1>3, <1>6, RepliedType
<1> QED
  BY <1>4, <1>5, <1>6

LEMMA ClaimsType == ASSUME NEW id \in Ids, NEW row \in Row PROVE Claims(id, row) \in Token
BY DEF Claims, Token, Row

LEMMA AuthenticateType == ASSUME TypeInv, NEW c \in Clients, Authenticate(c) PROVE TypeInv'
<1>1. /\ Lookup /\ name' = name /\ attributes' = attributes
      /\ LookupSucceeds \/ LookupFails(c)
  BY DEF Authenticate
<1>2. \/ \E id \in WithName(name[c]) : /\ Reply(c, 200)
                                      /\ tokens' = tokens \cup {Claims(id, users[id])}
                                      /\ grant' = [grant EXCEPT ![c] = <<id, users[id]>>]
      \/ /\ \E code \in {"kUnauthorized", "kNotFound", "kDatabaseError"} :
              Reply(c, Status(req[c].op, code))
         /\ tokens' = tokens /\ grant' = grant
  BY DEF Authenticate
<1>3. attributes' \in [Clients -> [user_id : Ids, user_role : Roles] \cup {Nothing}]
  BY <1>1 DEF TypeInv, TypeOK
<1>4. /\ tokens \in SUBSET Token
      /\ grant \in [Clients -> (Ids \X Row) \cup {Nothing}]
      /\ users \in [Ids -> Row \cup {Nothing}]
  BY DEF TypeInv, TypeOK
<1>5. CASE \E id \in WithName(name[c]) : /\ Reply(c, 200)
                                       /\ tokens' = tokens \cup {Claims(id, users[id])}
                                       /\ grant' = [grant EXCEPT ![c] = <<id, users[id]>>]
  <2>1. PICK id \in WithName(name[c]) : /\ Reply(c, 200)
                                       /\ tokens' = tokens \cup {Claims(id, users[id])}
                                       /\ grant' = [grant EXCEPT ![c] = <<id, users[id]>>]
    BY <1>5
  <2>2. id \in Ids /\ users[id] \in Row
    BY <1>4 DEF WithName, Present
  <2>3. tokens' \in SUBSET Token /\ grant' \in [Clients -> (Ids \X Row) \cup {Nothing}]
    BY <1>4, <2>1, <2>2, ClaimsType
  <2> QED
    BY <1>1, <1>3, <2>1, <2>3, RepliedType
<1>6. CASE /\ \E code \in {"kUnauthorized", "kNotFound", "kDatabaseError"} :
                Reply(c, Status(req[c].op, code))
           /\ tokens' = tokens /\ grant' = grant
  <2>1. PICK status \in {401, 500} : Reply(c, status)
    BY <1>6, StatusType
  <2> QED
    BY <1>1, <1>3, <1>4, <1>6, <2>1, RepliedType
<1> QED
  BY <1>2, <1>5, <1>6

LEMMA FindByIdType == ASSUME TypeInv, NEW c \in Clients, FindById(c) PROVE TypeInv'
<1> DEFINE token == req[c].token
<1>1. At(c, "find_by_id") /\ Lookup /\ UNCHANGED <<tokens, grant, attributes>>
  BY DEF FindById
<1>2. req[c] \in Request /\ req[c].op = "refresh" /\ token \in Token
  BY <1>1 DEF TypeInv, CallInv
<1>3. /\ tokens' \in SUBSET Token
      /\ grant' \in [Clients -> (Ids \X Row) \cup {Nothing}]
      /\ attributes' \in [Clients -> [user_id : Ids, user_role : Roles] \cup {Nothing}]
  BY <1>1 DEF TypeInv, TypeOK
<1>4. \/ /\ Present(token.sub) /\ LookupSucceeds /\ Call(c, "authenticate")
         /\ name' = [name EXCEPT ![c] = users[token.sub].username]
      \/ /\ LookupSucceeds \/ LookupFails(c)
         /\ Reply(c, Status("refresh", "kUnauthorized"))
         /\ name' = name
  BY DEF FindById
<1>5. CASE /\ Present(token.sub) /\ LookupSucceeds /\ Call(c, "authenticate")
           /\ name' = [name EXCEPT ![c] = users[token.sub].username]
  <2>1. users[token.sub].username \in Usernames
    BY <1>2, <1>5 DEF Present, TypeInv, TypeOK, Token, Row
  <2> QED
    BY <1>1, <1>2, <1>5, <2>1, AuthenticateNextType
<1>6. CASE /\ LookupSucceeds \/ LookupFails(c)
           /\ Reply(c, Status("refresh", "kUnauthorized"))
           /\ name' = name
  <2>1. Status("refresh", "kUnauthorized") \in {401, 500}
    BY StatusType
  <2> QED
    BY <1>1, <1>3, <1>6, <2>1, RepliedType
<1> QED
  BY <1>4, <1>5, <1>6

LEMMA CurrentUserType == ASSUME TypeInv, NEW c \in Clients, CurrentUser(c) PROVE TypeInv'
<1> DEFINE token == req[c].token
<1>1. /\ At(c, "current_user")
      /\ Lookup
      /\ LookupSucceeds \/ LookupFails(c)
      /\ Reply(c, 0)
      /\ tokens' = tokens /\ name' = name /\ grant' = grant
  BY DEF CurrentUser
<1>2. token \in Token
  BY <1>1 DEF TypeInv, CallInv
<1>3. /\ tokens' \in SUBSET Token
      /\ grant' \in [Clients -> (Ids \X Row) \cup {Nothing}]
  BY <1>1 DEF TypeInv, TypeOK
<1>4. attributes' \in [Clients -> [user_id : Ids, user_role : Roles] \cup {Nothing}]
  <2>1. Present(token.sub) => [user_id |-> token.sub, user_role |-> RoleFor(token)]
                              \in [user_id : Ids, user_role : Roles]
    BY <1>2 DEF RoleFor, Present, TypeInv, TypeOK, Token, Row
  <2>2. attributes \in [Clients -> [user_id : Ids, user_role : Roles] \cup {Nothing}]
    BY DEF TypeInv, TypeOK
  <2>3. \/ attributes' = attributes
        \/ /\ Present(token.sub)
           /\ attributes' = [attributes EXCEPT ![c] =
                               [user_id |-> token.sub, user_role |-> RoleFor(token)]]
    BY DEF CurrentUser
  <2> QED
    BY <2>1, <2>2, <2>3
<1> QED
  BY <1>1, <1>3, <1>4, RepliedType

\* A write of the table touches no handler.
LEMMA WriteType ==
  ASSUME TypeInv, NEW table \in [Ids -> Row \cup {Nothing}], WriteUsers(table)
  PROVE  TypeInv'
<1>1. RowsOf(table) \in SUBSET (Ids \X Row) /\ NotIn(table) \in SUBSET (Usernames \cup Ids)
  BY HistoryType
<1>2. /\ seen' \in [Clients -> SUBSET (Ids \X Row)]
      /\ missed' \in [Clients -> SUBSET (Usernames \cup Ids)]
  BY <1>1 DEF WriteUsers, TypeInv, TypeOK
<1>3. writes' \in 0..MaxWrites
  BY BoundsAssumption DEF WriteUsers, TypeInv, TypeOK
<1>4. UNCHANGED handlers /\ users' = table
  BY DEF WriteUsers
<1>5. TypeOK'
  BY <1>2, <1>3, <1>4 DEF handlers, TypeInv, TypeOK
<1>6. CallInv'
  BY <1>4 DEF handlers, TypeInv, CallInv, At
<1> QED
  BY <1>5, <1>6 DEF TypeInv

LEMMA WritersType ==
  ASSUME TypeInv, SaveUser \/ UpdateUser \/ RemoveUser
  PROVE  \E table \in [Ids -> Row \cup {Nothing}] : WriteUsers(table)
BY RowsAssumption DEF SaveUser, UpdateUser, RemoveUser, TypeInv, TypeOK

\* The steps of one client's request.
Handler(c) ==
  \/ Login(c) \/ CheckUser(c) \/ Authenticate(c)
  \/ Refresh(c) \/ FindById(c)
  \/ Logout(c)
  \/ Invoke(c) \/ CurrentUser(c)

LEMMA NextCases ==
  ASSUME TypeInv, [Next]_vars
  PROVE  \/ \E c \in Clients : Handler(c)
         \/ \E table \in [Ids -> Row \cup {Nothing}] : WriteUsers(table)
         \/ UNCHANGED vars
BY WritersType DEF Next, Handler, Terminated

LEMMA TypeInitially == Init => TypeInv
<1> SUFFICES ASSUME Init PROVE TypeInv
  OBVIOUS
<1>1. users \in [Ids -> Row \cup {Nothing}]
  BY InitTablesAssumption DEF Init
<1>2. TypeOK
  BY <1>1, BoundsAssumption DEF Init, TypeOK
<1>3. CallInv
  BY DEF Init, CallInv, At
<1> QED
  BY <1>2, <1>3 DEF TypeInv

LEMMA TypeStep == ASSUME TypeInv, [Next]_vars PROVE TypeInv'
<1>1. ASSUME NEW c \in Clients, Handler(c) PROVE TypeInv'
  BY <1>1, LoginType, CheckUserType, AuthenticateType, RefreshType, FindByIdType, LogoutType,
     InvokeType, CurrentUserType DEF Handler
<1>2. ASSUME NEW table \in [Ids -> Row \cup {Nothing}], WriteUsers(table) PROVE TypeInv'
  BY <1>2, WriteType
<1>3. CASE UNCHANGED vars
  BY <1>3 DEF vars, TypeInv, TypeOK, CallInv, At
<1> QED
  BY <1>1, <1>2, <1>3, NextCases

\* Every variable keeps to its type: no request is answered with a status the
\* controller does not have, and no token, grant or attribute is made of
\* anything but ids and rows.
THEOREM TypeCorrect == Spec => []TypeOK
<1>1. Init => TypeInv
  BY TypeInitially
<1>2. TypeInv /\ [Next]_vars => TypeInv'
  BY TypeStep
<1>3. TypeInv => TypeOK
  BY DEF TypeInv
<1> QED
  BY <1>1, <1>2, <1>3, PTL DEF Spec

--------------------------------------------------------------------------------
(* The history of a request *)

\* The history of a request in progress contains the present table.
HistoryInv ==
  \A c \in Clients : Busy(c) => /\ RowsOf(users) \subseteq seen[c]
                               /\ NotIn(users) \subseteq missed[c]

\* What the first lookup of a request has found is in its history.
FoundInv ==
  \A c \in Clients :
    /\ At(c, "authenticate") /\ req[c].op = "login" =>
         \E s \in seen[c] : /\ s[2].username = req[c].username
                           /\ s[2].is_active
                           /\ s[2].password_hash = Sha256[req[c].password]
    /\ At(c, "current_user") => attributes[c] = Nothing

\* username is UNIQUE.
NamesInv ==
  \A i, j \in Ids : Present(i) /\ Present(j) /\ users[i].username = users[j].username => i = j

LEMMA PresentIsSeen ==
  ASSUME TypeInv, HistoryInv, NEW c \in Clients, Busy(c), NEW id \in Ids, Present(id)
  PROVE  <<id, users[id]>> \in seen[c] /\ users[id] \in Row
<1>1. <<id, users[id]>> \in RowsOf(users)
  BY DEF RowsOf, Present
<1>2. users[id] \in Row
  BY DEF TypeInv, TypeOK, Present
<1> QED
  BY <1>1, <1>2 DEF HistoryInv

LEMMA AbsentIsNotIn ==
  ASSUME TypeInv, NEW id \in Ids, ~Present(id)
  PROVE  id \in NotIn(users)
<1>1. ASSUME NEW i \in {j \in Ids : users[j] # Nothing} PROVE id \notin {i, users[i].username}
  <2>1. users[i] \in Row
    BY <1>1 DEF TypeInv, TypeOK
  <2>2. users[i].username \in Usernames
    BY <2>1 DEF Row
  <2> QED
    BY <2>2, <1>1, NamesAssumption DEF Present
<1> QED
  BY <1>1 DEF NotIn

LEMMA AbsentIsMissed ==
  ASSUME TypeInv, HistoryInv, NEW c \in Clients, Busy(c), NEW id \in Ids, ~Present(id)
  PROVE  id \in missed[c]
BY AbsentIsNotIn DEF HistoryInv

\* A handler's step is the first of a request or a lookup; it concerns its own
\* client, and the table stays as it is.
Same(d) ==
  /\ pc'[d] = pc[d] /\ req'[d] = req[d] /\ name'[d] = name[d] /\ answer'[d] = answer[d]
  /\ grant'[d] = grant[d] /\ attributes'[d] = attributes[d]
  /\ seen'[d] = seen[d] /\ missed'[d] = missed[d] /\ failed'[d] = failed[d]

LEMMA HandlerReplies ==
  ASSUME NEW c \in Clients, Handler(c)
  PROVE  (\E place : Call(c, place)) \/ (\E status : Reply(c, status))
<1>1. CASE Login(c) BY <1>1 DEF Login
<1>2. CASE Refresh(c) BY <1>2 DEF Refresh
<1>3. CASE Logout(c) BY <1>3 DEF Logout
<1>4. CASE Invoke(c) BY <1>4 DEF Invoke
<1>5. CASE CheckUser(c) BY <1>5 DEF CheckUser
<1>6. CASE Authenticate(c) BY <1>6 DEF Authenticate
<1>7. CASE FindById(c) BY <1>7 DEF FindById
<1>8. CASE CurrentUser(c) BY <1>8 DEF CurrentUser
<1> QED
  BY <1>1, <1>2, <1>3, <1>4, <1>5, <1>6, <1>7, <1>8 DEF Handler

LookupOf(c) == CheckUser(c) \/ Authenticate(c) \/ FindById(c) \/ CurrentUser(c)

LEMMA HandlerCases ==
  ASSUME NEW c \in Clients, Handler(c)
  PROVE  (\E op, n, p, token : Receive(c, op, n, p, token)) \/ LookupOf(c)
BY DEF Handler, LookupOf, Login, Refresh, Logout, Invoke

LEMMA LookupCases ==
  ASSUME NEW c \in Clients, LookupOf(c)
  PROVE  Busy(c) /\ Lookup
BY DEF LookupOf, CheckUser, Authenticate, FindById, CurrentUser, Busy, At

LEMMA LookupOthers ==
  ASSUME TypeInv, NEW c \in Clients, NEW d \in Clients \ {c}, LookupOf(c)
  PROVE  /\ name'[d] = name[d] /\ grant'[d] = grant[d] /\ attributes'[d] = attributes[d]
         /\ failed'[d] = failed[d]
<1>1. /\ name \in [Clients -> Usernames \cup {Empty}]
      /\ grant \in [Clients -> (Ids \X Row) \cup {Nothing}]
      /\ attributes \in [Clients -> [user_id : Ids, user_role : Roles] \cup {Nothing}]
      /\ failed \in [Clients -> BOOLEAN]
  BY DEF TypeInv, TypeOK
<1>2. failed'[d] = failed[d]
  <2>1. LookupSucceeds \/ LookupFails(c)
    BY DEF LookupOf, CheckUser, Authenticate, FindById, CurrentUser
  <2> QED
    BY <1>1, <2>1 DEF LookupSucceeds, LookupFails
<1>3. CASE CheckUser(c)
  <2>1. grant' = grant /\ attributes' = attributes
    BY <1>3 DEF CheckUser
  <2>2. name' = name \/ name' = [name EXCEPT ![c] = req[c].username]
    BY <1>3 DEF CheckUser
  <2> QED
    BY <1>1, <1>2, <2>1, <2>2
<1>4. CASE Authenticate(c)
  <2>1. name' = name /\ attributes' = attributes
    BY <1>4 DEF Authenticate
  <2>2. grant' = grant \/ \E id \in WithName(name[c]) :
                            grant' = [grant EXCEPT ![c] = <<id, users[id]>>]
    BY <1>4 DEF Authenticate
  <2> QED
    BY <1>1, <1>2, <2>1, <2>2
<1>5. CASE FindById(c)
  <2>1. grant' = grant /\ attributes' = attributes
    BY <1>5 DEF FindById
  <2>2. name' = name \/ name' = [name EXCEPT ![c] = users[req[c].token.sub].username]
    BY <1>5 DEF FindById
  <2> QED
    BY <1>1, <1>2, <2>1, <2>2
<1>6. CASE CurrentUser(c)
  <2>1. name' = name /\ grant' = grant
    BY <1>6 DEF CurrentUser
  <2>2. \/ attributes' = attributes
        \/ attributes' = [attributes EXCEPT ![c] =
             [user_id |-> req[c].token.sub, user_role |-> RoleFor(req[c].token)]]
    BY <1>6 DEF CurrentUser
  <2> QED
    BY <1>1, <1>2, <2>1, <2>2
<1> QED
  BY <1>3, <1>4, <1>5, <1>6 DEF LookupOf

LEMMA HandlerOthers ==
  ASSUME TypeInv, NEW c \in Clients, NEW d \in Clients \ {c}, Handler(c)
  PROVE  Same(d) /\ users' = users
<1>1. pc'[d] = pc[d] /\ answer'[d] = answer[d]
  BY HandlerReplies DEF Call, Reply, TypeInv, TypeOK
<1>2. CASE \E op, n, p, token : Receive(c, op, n, p, token)
  BY <1>1, <1>2 DEF Receive, Same, TypeInv, TypeOK
<1>3. CASE LookupOf(c)
  <2>1. users' = users /\ req' = req /\ seen' = seen /\ missed' = missed
    BY <1>3, LookupCases DEF Lookup
  <2> QED
    BY <1>1, <1>3, <2>1, LookupOthers DEF Same
<1> QED
  BY <1>2, <1>3, HandlerCases

\* What a write adds to the history of a request in progress, and to no other.
LEMMA WriteHistory ==
  ASSUME TypeInv, NEW table \in [Ids -> Row \cup {Nothing}], WriteUsers(table), NEW d \in Clients
  PROVE  /\ pc'[d] = pc[d] /\ req'[d] = req[d] /\ name'[d] = name[d] /\ answer'[d] = answer[d]
         /\ grant'[d] = grant[d] /\ attributes'[d] = attributes[d] /\ failed'[d] = failed[d]
         /\ seen[d] \subseteq seen'[d] /\ missed[d] \subseteq missed'[d]
         /\ ~Busy(d) => Same(d)
         /\ Busy(d) => RowsOf(users') \subseteq seen'[d] /\ NotIn(users') \subseteq missed'[d]
BY DEF WriteUsers, handlers, Same

LEMMA HistoryStep == ASSUME TypeInv, HistoryInv, [Next]_vars PROVE HistoryInv'
<1>1. ASSUME NEW c \in Clients, Handler(c) PROVE HistoryInv'
  <2> SUFFICES ASSUME NEW d \in Clients, Busy(d)'
               PROVE  RowsOf(users') \subseteq seen'[d] /\ NotIn(users') \subseteq missed'[d]
    BY DEF HistoryInv
  <2>1. CASE d # c
    <3>1. Same(d) /\ users' = users
      BY <1>1, <2>1, HandlerOthers
    <3>2. Busy(d)
      BY <3>1 DEF Busy, At, Same
    <3> QED
      BY <3>1, <3>2 DEF Same, HistoryInv
  <2>2. CASE d = c /\ \E op, n, p, token : Receive(c, op, n, p, token)
    BY <2>2 DEF Receive, TypeInv, TypeOK
  <2>3. CASE d = c /\ LookupOf(c)
    BY <2>3, LookupCases DEF Lookup, HistoryInv
  <2> QED
    BY <1>1, <2>1, <2>2, <2>3, HandlerCases
<1>2. ASSUME NEW table \in [Ids -> Row \cup {Nothing}], WriteUsers(table) PROVE HistoryInv'
  <2> SUFFICES ASSUME NEW d \in Clients, Busy(d)'
               PROVE  RowsOf(users') \subseteq seen'[d] /\ NotIn(users') \subseteq missed'[d]
    BY DEF HistoryInv
  <2>1. Busy(d)
    BY <1>2, WriteHistory DEF Busy, At
  <2> QED
    BY <1>2, <2>1, WriteHistory
<1>3. CASE UNCHANGED vars
  BY <1>3 DEF vars, HistoryInv, Busy, At
<1> QED
  BY <1>1, <1>2, <1>3, NextCases

--------------------------------------------------------------------------------
(* Names *)

LEMMA HandlerTable == ASSUME NEW c \in Clients, Handler(c) PROVE users' = users
BY HandlerCases, LookupCases DEF Receive, Lookup

LEMMA NamesStep == ASSUME TypeInv, NamesInv, [Next]_vars PROVE NamesInv'
<1>1. ASSUME NEW id \in Ids, NEW row \in Row, Storable(id, row),
             users' = [users EXCEPT ![id] = row]
      PROVE  NamesInv'
  <2> SUFFICES ASSUME NEW i \in Ids, NEW j \in Ids, Present(i)', Present(j)',
                      users'[i].username = users'[j].username
               PROVE  i = j
    BY DEF NamesInv
  <2>1. users \in [Ids -> Row \cup {Nothing}]
    BY DEF TypeInv, TypeOK
  <2>2. CASE i # id /\ j # id
    BY <1>1, <2>1, <2>2 DEF NamesInv, Present
  <2>3. CASE i = id \/ j = id
    BY <1>1, <2>1, <2>3 DEF Storable, WithName, Present
  <2> QED
    BY <2>2, <2>3
<1>2. CASE SaveUser \/ UpdateUser
  BY <1>1, <1>2, RowsAssumption DEF SaveUser, UpdateUser, WriteUsers
<1>3. CASE RemoveUser
  <2>1. PICK id \in Ids : users' = [users EXCEPT ![id] = Nothing]
    BY <1>3 DEF RemoveUser, WriteUsers
  <2> QED
    BY <2>1 DEF NamesInv, Present, TypeInv, TypeOK
<1>4. CASE users' = users
  BY <1>4 DEF NamesInv, Present
<1>5. (\E c \in Clients : Handler(c)) => users' = users
  BY HandlerTable
<1>6. UNCHANGED vars => users' = users
  BY DEF vars
<1> QED
  BY <1>2, <1>3, <1>4, <1>5, <1>6 DEF Next, Handler, Terminated

--------------------------------------------------------------------------------
(* What the lookups find *)

ArrivalOf(c) == Login(c) \/ Refresh(c) \/ Logout(c) \/ Invoke(c)

LEMMA ArrivalCases ==
  ASSUME TypeInv, NEW c \in Clients, ArrivalOf(c)
  PROVE  \/ \E place \in {"check", "find_by_id", "current_user"} : Call(c, place)
         \/ \E status \in {204, 400, 401, 422, 500} : Reply(c, status)
<1>1. CASE Login(c) BY <1>1 DEF Login
<1>2. CASE Refresh(c) BY <1>2, StatusType DEF Refresh, Thrown
<1>3. CASE Logout(c) BY <1>3 DEF Logout
<1>4. CASE Invoke(c) BY <1>4 DEF Invoke, Thrown
<1> QED
  BY <1>1, <1>2, <1>3, <1>4 DEF ArrivalOf

LEMMA ArrivalOpens ==
  ASSUME TypeInv, NEW c \in Clients, ArrivalOf(c)
  PROVE  pc'[c] # "idle" \/ answer'[c] \notin {0, 200}
BY ArrivalCases DEF Call, Reply, TypeInv, TypeOK

\* A request that arrives is before its first lookup, or it is refused.
LEMMA ArrivalSettles ==
  ASSUME TypeInv, NEW c \in Clients, ArrivalOf(c)
  PROVE  /\ pc'[c] \in {"idle", "check", "find_by_id", "current_user"}
         /\ attributes'[c] = Nothing /\ failed'[c] = FALSE
         /\ seen'[c] = RowsOf(users) /\ missed'[c] = NotIn(users)
<1>1. /\ attributes'[c] = Nothing /\ failed'[c] = FALSE
      /\ seen'[c] = RowsOf(users) /\ missed'[c] = NotIn(users)
  BY DEF ArrivalOf, Login, Refresh, Logout, Invoke, Receive, TypeInv, TypeOK
<1>2. pc'[c] \in {"idle", "check", "find_by_id", "current_user"}
  BY ArrivalCases DEF Call, Reply, TypeInv, TypeOK
<1> QED
  BY <1>1, <1>2

\* The use case goes on only with an active account of the name and password
\* that it has read.
LEMMA CheckUserFinds ==
  ASSUME TypeInv, NEW c \in Clients, CheckUser(c)
  PROVE  /\ pc'[c] \in {"idle", "authenticate"}
         /\ pc'[c] = "idle" => answer'[c] \in {401, 500}
         /\ pc'[c] = "authenticate" =>
              \E id \in WithName(req[c].username) :
                users[id].is_active /\ users[id].password_hash = Sha256[req[c].password]
<1> DEFINE n == req[c].username
           code(id) == UseCaseError(req[c].password, users[id])
<1>1. \/ \E id \in WithName(n) : /\ IF code(id) = "kOk" THEN Call(c, "authenticate")
                                   ELSE Reply(c, Status("login", code(id)))
      \/ Reply(c, Status("login", "kUnauthorized"))
  BY DEF CheckUser
<1>2. CASE Call(c, "authenticate") /\ \E id \in WithName(n) : code(id) = "kOk"
  <2>1. \E id \in WithName(n) :
          users[id].is_active /\ users[id].password_hash = Sha256[req[c].password]
    BY <1>2 DEF UseCaseError, Verify
  <2>2. pc'[c] = "authenticate"
    BY <1>2 DEF Call, TypeInv, TypeOK
  <2> QED
    BY <2>1, <2>2
<1>3. CASE \E status \in {401, 500} : Reply(c, status)
  BY <1>3 DEF Reply, TypeInv, TypeOK
<1> HIDE DEF code
<1> QED
  BY <1>1, <1>2, <1>3, StatusType

\* A refresh goes on to authenticate, or it is refused.
LEMMA FindByIdFinds ==
  ASSUME TypeInv, NEW c \in Clients, FindById(c)
  PROVE  /\ pc'[c] \in {"idle", "authenticate"}
         /\ pc'[c] = "idle" => answer'[c] \in {401, 500}
<1>1. \/ Call(c, "authenticate")
      \/ \E status \in {401, 500} : Reply(c, status)
  BY StatusType DEF FindById
<1> QED
  BY <1>1 DEF Call, Reply, TypeInv, TypeOK

\* The second lookup and the middleware's only one answer the request.
LEMMA LastLookup ==
  ASSUME TypeInv, NEW c \in Clients, Authenticate(c) \/ CurrentUser(c)
  PROVE  pc'[c] = "idle"
<1>1. \E status : Reply(c, status)
  BY DEF Authenticate, CurrentUser
<1> QED
  BY <1>1 DEF Reply, TypeInv, TypeOK

LEMMA FoundStep ==
  ASSUME TypeInv, HistoryInv, FoundInv, [Next]_vars
  PROVE  FoundInv'
<1> DEFINE Found(d) ==
      /\ At(d, "authenticate") /\ req[d].op = "login" =>
           \E s \in seen[d] : /\ s[2].username = req[d].username
                             /\ s[2].is_active
                             /\ s[2].password_hash = Sha256[req[d].password]
      /\ At(d, "current_user") => attributes[d] = Nothing
<1> SUFFICES ASSUME NEW d \in Clients PROVE Found(d)'
  BY DEF FoundInv
<1>1. Found(d)
  BY DEF FoundInv
<1>2. ASSUME Same(d) PROVE Found(d)'
  BY <1>1, <1>2 DEF Same, At
<1>3. ASSUME NEW c \in Clients, Handler(c), d # c PROVE Found(d)'
  BY <1>2, <1>3, HandlerOthers
<1>4. CASE ArrivalOf(d)
  BY <1>4, ArrivalSettles DEF At
<1>5. CASE CheckUser(d)
  <2>1. req' = req /\ seen' = seen /\ Busy(d) /\ req[d].op = "login"
    BY <1>5 DEF CheckUser, Lookup, Busy, At, TypeInv, CallInv
  <2>2. CASE pc'[d] = "idle"
    BY <2>2 DEF At
  <2>3. CASE pc'[d] = "authenticate"
    <3>1. PICK id \in WithName(req[d].username) :
            users[id].is_active /\ users[id].password_hash = Sha256[req[d].password]
      BY <1>5, <2>3, CheckUserFinds
    <3>2. <<id, users[id]>> \in seen[d] /\ users[id].username = req[d].username
      BY <2>1, PresentIsSeen DEF WithName
    <3> QED
      BY <2>1, <2>3, <3>1, <3>2 DEF At
  <2> QED
    BY <1>5, <2>2, <2>3, CheckUserFinds
<1>6. CASE FindById(d)
  <2>1. req' = req /\ req[d].op = "refresh"
    BY <1>6 DEF FindById, Lookup, At, TypeInv, CallInv
  <2> QED
    BY <1>6, <2>1, FindByIdFinds DEF At
<1>7. CASE Authenticate(d) \/ CurrentUser(d)
  BY <1>7, LastLookup DEF At
<1>8. ASSUME NEW table \in [Ids -> Row \cup {Nothing}], WriteUsers(table) PROVE Found(d)'
  BY <1>1, <1>8, WriteHistory DEF At
<1>9. CASE UNCHANGED vars
  BY <1>2, <1>9 DEF vars, Same
<1> HIDE DEF Found
<1> QED
  BY <1>3, <1>4, <1>5, <1>6, <1>7, <1>8, <1>9, NextCases DEF Handler, ArrivalOf

--------------------------------------------------------------------------------
(* What a response says *)

LEMMA AuthenticateGrants ==
  ASSUME TypeInv, HistoryInv, NEW c \in Clients, Authenticate(c), answer'[c] = 200
  PROVE  \E id \in WithName(name[c]) :
           /\ grant'[c] = <<id, users[id]>>
           /\ <<id, users[id]>> \in seen[c]
           /\ users[id].password_hash =
                Sha256[IF req[c].op = "login" THEN req[c].password ELSE Empty]
<1>1. PICK id \in WithName(name[c]) :
        /\ Verify(IF req[c].op = "login" THEN req[c].password ELSE Empty, users[id])
        /\ grant' = [grant EXCEPT ![c] = <<id, users[id]>>]
  <2>1. ASSUME NEW code, Reply(c, Status(req[c].op, code)) PROVE FALSE
    BY <2>1, StatusType DEF Reply, TypeInv, TypeOK
  <2> QED
    BY <2>1 DEF Authenticate
<1>2. id \in Ids /\ Present(id) /\ Busy(c)
  BY DEF WithName, Authenticate, Busy, At
<1>3. <<id, users[id]>> \in seen[c]
  BY <1>2, PresentIsSeen
<1>4. grant'[c] = <<id, users[id]>>
  BY <1>1 DEF TypeInv, TypeOK
<1> QED
  BY <1>1, <1>3, <1>4 DEF Verify

LEMMA GrantedStep ==
  ASSUME TypeInv, HistoryInv, FoundInv, GrantedWhileActive, [Next]_vars
  PROVE  GrantedWhileActive'
<1> DEFINE Granted(d) ==
      Answered(d, "login") /\ answer[d] = 200 =>
        /\ \E s \in seen[d] : /\ s[2].username = req[d].username
                              /\ s[2].is_active
                              /\ s[2].password_hash = Sha256[req[d].password]
        /\ grant[d] \in seen[d]
        /\ grant[d][2].username = req[d].username
        /\ grant[d][2].password_hash = Sha256[req[d].password]
<1> SUFFICES ASSUME NEW d \in Clients PROVE Granted(d)'
  BY DEF GrantedWhileActive
<1>1. Granted(d)
  BY DEF GrantedWhileActive
<1>2. ASSUME Same(d) PROVE Granted(d)'
  BY <1>1, <1>2 DEF Same, Answered, At
<1>3. ASSUME pc'[d] # "idle" \/ answer'[d] # 200 PROVE Granted(d)'
  BY <1>3 DEF Answered, At
<1> HIDE DEF Granted
<1>4. ASSUME NEW c \in Clients, Handler(c), d # c PROVE Granted(d)'
  BY <1>2, <1>4, HandlerOthers
<1>5. ASSUME NEW table \in [Ids -> Row \cup {Nothing}], WriteUsers(table) PROVE Granted(d)'
  <2>1. CASE Busy(d)
    <3>1. pc'[d] # "idle"
      BY <1>5, <2>1, WriteHistory DEF Busy, At
    <3> QED
      BY <1>3, <3>1
  <2>2. CASE ~Busy(d)
    <3>1. Same(d)
      BY <1>5, <2>2, WriteHistory
    <3> QED
      BY <1>2, <3>1
  <2> QED
    BY <2>1, <2>2
<1>6. CASE UNCHANGED vars
  BY <1>2, <1>6 DEF vars, Same
<1>7. ASSUME ArrivalOf(d) PROVE pc'[d] # "idle" \/ answer'[d] # 200
  <2>1. pc'[d] # "idle" \/ answer'[d] \notin {0, 200}
    BY <1>7, ArrivalOpens
  <2> QED
    BY <2>1
<1>8. ASSUME CheckUser(d) \/ FindById(d) PROVE pc'[d] # "idle" \/ answer'[d] # 200
  BY <1>8, CheckUserFinds, FindByIdFinds
<1> USE DEF Granted
<1>9. CASE CurrentUser(d)
  BY <1>9 DEF CurrentUser, Reply, TypeInv, TypeOK
<1>10. CASE Authenticate(d)
  <2> SUFFICES ASSUME req[d].op = "login", answer'[d] = 200 PROVE Granted(d)'
    BY <1>10 DEF Authenticate, Lookup, Answered
  <2>1. req' = req /\ seen' = seen /\ At(d, "authenticate")
    BY <1>10 DEF Authenticate, Lookup
  <2>2. PICK id \in WithName(name[d]) :
          /\ grant'[d] = <<id, users[id]>>
          /\ <<id, users[id]>> \in seen[d]
          /\ users[id].password_hash = Sha256[req[d].password]
    BY <1>10, AuthenticateGrants
  <2>3. users[id].username = req[d].username
    BY <2>1 DEF WithName, TypeInv, CallInv
  <2>4. \E s \in seen[d] : /\ s[2].username = req[d].username
                          /\ s[2].is_active
                          /\ s[2].password_hash = Sha256[req[d].password]
    BY <2>1 DEF FoundInv
  <2> QED
    BY <2>1, <2>2, <2>3, <2>4
<1> HIDE DEF Granted
<1>11. Handler(d) => Granted(d)'
  BY <1>3, <1>7, <1>8, <1>9, <1>10 DEF Handler, ArrivalOf
<1> QED
  BY <1>4, <1>5, <1>6, <1>11, NextCases

LEMMA AttributesStep ==
  ASSUME TypeInv, HistoryInv, FoundInv, AttributesAreCurrent, [Next]_vars
  PROVE  AttributesAreCurrent'
<1> DEFINE Current(d) ==
      Answered(d, "protected") /\ answer[d] = 0 =>
        IF attributes[d] = Nothing THEN failed[d] \/ req[d].token.sub \in missed[d]
        ELSE \E s \in seen[d] : s[1] = req[d].token.sub /\ s[1] = attributes[d].user_id
                               /\ s[2].role = attributes[d].user_role
<1> SUFFICES ASSUME NEW d \in Clients PROVE Current(d)'
  BY DEF AttributesAreCurrent
<1>1. Current(d)
  BY DEF AttributesAreCurrent
<1>2. ASSUME Same(d) PROVE Current(d)'
  BY <1>1, <1>2 DEF Same, Answered, At
<1>3. ASSUME pc'[d] # "idle" \/ answer'[d] # 0 PROVE Current(d)'
  BY <1>3 DEF Answered, At
<1> HIDE DEF Current
<1>4. ASSUME NEW c \in Clients, Handler(c), d # c PROVE Current(d)'
  BY <1>2, <1>4, HandlerOthers
<1>5. ASSUME NEW table \in [Ids -> Row \cup {Nothing}], WriteUsers(table) PROVE Current(d)'
  <2>1. CASE Busy(d)
    <3>1. pc'[d] # "idle"
      BY <1>5, <2>1, WriteHistory DEF Busy, At
    <3> QED
      BY <1>3, <3>1
  <2>2. CASE ~Busy(d)
    <3>1. Same(d)
      BY <1>5, <2>2, WriteHistory
    <3> QED
      BY <1>2, <3>1
  <2> QED
    BY <2>1, <2>2
<1>6. CASE UNCHANGED vars
  BY <1>2, <1>6 DEF vars, Same
<1>7. ASSUME ArrivalOf(d) PROVE pc'[d] # "idle" \/ answer'[d] # 0
  <2>1. pc'[d] # "idle" \/ answer'[d] \notin {0, 200}
    BY <1>7, ArrivalOpens
  <2> QED
    BY <2>1
<1>8. ASSUME CheckUser(d) \/ FindById(d) PROVE pc'[d] # "idle" \/ answer'[d] # 0
  BY <1>8, CheckUserFinds, FindByIdFinds
<1> USE DEF Current
<1>9. CASE Authenticate(d)
  <2>1. req[d].op # "protected"
    BY <1>9 DEF Authenticate, TypeInv, CallInv
  <2>2. ~Answered(d, "protected")'
    BY <1>9, <2>1 DEF Authenticate, Lookup, Answered
  <2> QED
    BY <2>2
<1>10. CASE CurrentUser(d)
  <2> DEFINE id == req[d].token.sub
  <2>1. /\ req' = req /\ seen' = seen /\ missed' = missed
        /\ At(d, "current_user") /\ Busy(d) /\ id \in Ids
    BY <1>10 DEF CurrentUser, Lookup, Busy, At, TypeInv, CallInv, Token
  <2>2. attributes[d] = Nothing
    BY <2>1 DEF FoundInv
  <2>3. CASE Present(id) /\ attributes' = [attributes EXCEPT ![d] =
                              [user_id |-> id, user_role |-> RoleFor(req[d].token)]]
    <3>1. attributes'[d] = [user_id |-> id, user_role |-> users[id].role]
      BY <2>3 DEF RoleFor, TypeInv, TypeOK
    <3>2. <<id, users[id]>> \in seen[d] /\ users[id] \in Row
      BY <2>1, <2>3, PresentIsSeen
    <3>3. attributes'[d] \in [user_id : Ids, user_role : Roles]
      BY <2>1, <3>1, <3>2 DEF Row
    <3>4. attributes'[d] # Nothing
      BY <3>3, NamesAssumption
    <3> QED
      BY <2>1, <3>1, <3>2, <3>4
  <2>4. CASE ~Present(id) /\ attributes' = attributes
    BY <2>1, <2>2, <2>4, AbsentIsMissed
  <2>5. CASE LookupFails(d) /\ attributes' = attributes
    BY <2>2, <2>5 DEF LookupFails, TypeInv, TypeOK
  <2> QED
    BY <1>10, <2>3, <2>4, <2>5 DEF CurrentUser
<1> HIDE DEF Current
<1>11. Handler(d) => Current(d)'
  BY <1>3, <1>7, <1>8, <1>9, <1>10 DEF Handler, ArrivalOf
<1> QED
  BY <1>4, <1>5, <1>6, <1>11, NextCases

\* The account the property speaks of, at any moment of the call.
Stable(id, d) ==
  /\ id \notin missed[d]
  /\ \A s \in seen[d] : s[1] = id => /\ s[2].is_active
                                     /\ s[2].username = req[d].username
                                     /\ req[d].password \in Passwords
                                     /\ s[2].password_hash = Sha256[req[d].password]

LEMMA StableIsPresent ==
  ASSUME TypeInv, HistoryInv, NEW d \in Clients, Busy(d), NEW id \in Ids, Stable(id, d)
  PROVE  /\ id \in WithName(req[d].username)
         /\ users[id].is_active
         /\ users[id].password_hash = Sha256[req[d].password]
<1>1. Present(id)
  BY AbsentIsMissed DEF Stable
<1>2. <<id, users[id]>> \in seen[d]
  BY <1>1, PresentIsSeen
<1>3. /\ users[id].is_active /\ users[id].username = req[d].username
      /\ users[id].password_hash = Sha256[req[d].password]
  BY <1>2 DEF Stable
<1> QED
  BY <1>1, <1>3 DEF WithName

LEMMA OneOfAName ==
  ASSUME NamesInv, NEW n, NEW i \in WithName(n), NEW j \in WithName(n) PROVE i = j
BY DEF NamesInv, WithName

\* A stable account's login is not refused before its first lookup ...
LEMMA StableArrives ==
  ASSUME TypeInv, NEW d \in Clients, Login(d), NEW id \in Ids, Stable(id, d)', pc'[d] = "idle"
  PROVE  FALSE
<1>1. PICK n \in Usernames \cup {Empty, Absent}, p \in Passwords \cup {Empty, Absent} :
        /\ Receive(d, "login", n, p, Absent)
        /\ IF Absent \in {n, p} THEN Reply(d, 400)
           ELSE IF Empty \in {n, p} THEN Reply(d, 422)
           ELSE Call(d, "check")
  BY DEF Login
<1>2. req'[d].username = n /\ req'[d].password = p
  BY <1>1, ReceiveRequest
<1>3. seen'[d] = RowsOf(users) /\ missed'[d] = NotIn(users)
  BY ArrivalSettles DEF ArrivalOf
<1>4. Present(id)
  BY <1>3, AbsentIsNotIn DEF Stable
<1>5. <<id, users[id]>> \in seen'[d] /\ users[id] \in Row
  BY <1>3, <1>4 DEF RowsOf, Present, TypeInv, TypeOK
<1>6. users[id].username = n /\ p \in Passwords
  BY <1>2, <1>5 DEF Stable
<1>7. n \in Usernames
  BY <1>5, <1>6 DEF Row
<1>8. Call(d, "check")
  BY <1>1, <1>6, <1>7, NamesAssumption
<1> QED
  BY <1>8 DEF Call, TypeInv, TypeOK

\* ... nor by what the first finds ...
LEMMA StableIsChecked ==
  ASSUME TypeInv, HistoryInv, NamesInv, NEW d \in Clients, CheckUser(d),
         NEW id \in Ids, Stable(id, d), ~failed'[d]
  PROVE  pc'[d] # "idle"
<1> DEFINE n == req[d].username
<1>1. Busy(d)
  BY DEF CheckUser, Busy, At
<1>2. /\ id \in WithName(n)
      /\ users[id].is_active
      /\ users[id].password_hash = Sha256[req[d].password]
  BY <1>1, StableIsPresent
<1>3. ~LookupFails(d)
  BY DEF LookupFails, TypeInv, TypeOK
<1>4. PICK i \in WithName(n) : UseCaseError(req[d].password, users[i]) = "kOk" => Call(d, "authenticate")
  BY <1>2, <1>3 DEF CheckUser
<1>5. i = id
  BY <1>2, OneOfAName
<1>6. UseCaseError(req[d].password, users[i]) = "kOk"
  BY <1>2, <1>5 DEF UseCaseError, Verify
<1> QED
  BY <1>4, <1>6 DEF Call, TypeInv, TypeOK

\* ... nor by what the second finds.
LEMMA StableIsGranted ==
  ASSUME TypeInv, HistoryInv, NamesInv, NEW d \in Clients, Authenticate(d),
         req[d].op = "login", NEW id \in Ids, Stable(id, d), ~failed'[d]
  PROVE  answer'[d] = 200
<1>1. Busy(d) /\ name[d] = req[d].username
  BY DEF Authenticate, Busy, At, TypeInv, CallInv
<1>2. /\ id \in WithName(name[d])
      /\ users[id].password_hash = Sha256[req[d].password]
  BY <1>1, StableIsPresent
<1>3. ~LookupFails(d)
  BY DEF LookupFails, TypeInv, TypeOK
<1>4. PICK i \in WithName(name[d]) : Verify(req[d].password, users[i]) => Reply(d, 200)
  BY <1>2, <1>3 DEF Authenticate
<1>5. i = id
  BY <1>2, OneOfAName
<1>6. Reply(d, 200)
  BY <1>2, <1>4, <1>5 DEF Verify
<1> QED
  BY <1>6 DEF Reply, TypeInv, TypeOK

LEMMA StableStep ==
  ASSUME TypeInv, HistoryInv, NamesInv, StableAccountLogsIn, [Next]_vars
  PROVE  StableAccountLogsIn'
<1> DEFINE LogsIn(d) == \A id \in Ids :
             Answered(d, "login") /\ ~failed[d] /\ Stable(id, d) => answer[d] = 200
<1> SUFFICES ASSUME NEW d \in Clients PROVE LogsIn(d)'
  BY DEF StableAccountLogsIn, Stable
<1>1. LogsIn(d)
  BY DEF StableAccountLogsIn, Stable
<1>2. ASSUME Same(d) PROVE LogsIn(d)'
  BY <1>1, <1>2 DEF Same, Answered, At, Stable
<1>3. ASSUME ~Answered(d, "login")' PROVE LogsIn(d)'
  BY <1>3
<1>4. ASSUME NEW c \in Clients, Handler(c), d # c PROVE LogsIn(d)'
  BY <1>2, <1>4, HandlerOthers
<1>5. ASSUME NEW table \in [Ids -> Row \cup {Nothing}], WriteUsers(table) PROVE LogsIn(d)'
  BY <1>2, <1>3, <1>5, WriteHistory DEF Busy, At, Answered
<1>6. CASE UNCHANGED vars
  BY <1>2, <1>6 DEF vars, Same
<1>7. CASE Login(d)
  BY <1>7, StableArrives DEF Answered, At
<1>8. CASE Refresh(d) \/ Logout(d) \/ Invoke(d)
  <2>1. PICK op \in {"refresh", "logout", "protected"},
             token \in Token \cup {Malformed, Garbled, Empty, Absent} :
               Receive(d, op, Absent, Absent, token)
    BY <1>8, DecodableType DEF Refresh, Logout, Invoke
  <2>2. req'[d].op = op
    BY <2>1, ReceiveRequest
  <2> QED
    BY <1>3, <2>2 DEF Answered
<1>9. CASE CheckUser(d)
  <2>1. req' = req /\ seen' = seen /\ missed' = missed
    BY <1>9 DEF CheckUser, Lookup
  <2>2. ASSUME NEW id \in Ids, Stable(id, d)', ~failed'[d] PROVE pc'[d] # "idle"
    <3>1. Stable(id, d)
      BY <2>1, <2>2 DEF Stable
    <3> QED
      BY <1>9, <2>2, <3>1, StableIsChecked
  <2> QED
    BY <2>2 DEF Answered, At
<1>10. CASE Authenticate(d)
  <2>1. req' = req /\ seen' = seen /\ missed' = missed
    BY <1>10 DEF Authenticate, Lookup
  <2>2. ASSUME NEW id \in Ids, Stable(id, d)', ~failed'[d], req[d].op = "login"
        PROVE  answer'[d] = 200
    <3>1. Stable(id, d)
      BY <2>1, <2>2 DEF Stable
    <3> QED
      BY <1>10, <2>2, <3>1, StableIsGranted
  <2> QED
    BY <2>1, <2>2 DEF Answered
<1>11. CASE FindById(d) \/ CurrentUser(d)
  <2>1. req' = req /\ req[d].op # "login"
    BY <1>11 DEF FindById, CurrentUser, Lookup, TypeInv, CallInv
  <2> QED
    BY <1>3, <2>1 DEF Answered
<1> HIDE DEF LogsIn
<1>12. Handler(d) => LogsIn(d)'
  BY <1>7, <1>8, <1>9, <1>10, <1>11 DEF Handler
<1> QED
  BY <1>4, <1>5, <1>6, <1>12, NextCases

--------------------------------------------------------------------------------
(* Theorems *)

IInv == TypeInv /\ HistoryInv /\ FoundInv /\ NamesInv

LEMMA Inductive == Spec => []IInv
<1>1. Init => IInv
  <2> SUFFICES ASSUME Init PROVE IInv
    OBVIOUS
  <2>1. HistoryInv /\ FoundInv
    BY DEF Init, HistoryInv, FoundInv, Busy, At
  <2>2. NamesInv
    BY InitTablesAssumption DEF Init, NamesInv, Present
  <2> QED
    BY <2>1, <2>2, TypeInitially DEF IInv
<1>2. IInv /\ [Next]_vars => IInv'
  BY TypeStep, HistoryStep, FoundStep, NamesStep DEF IInv
<1> QED
  BY <1>1, <1>2, PTL DEF Spec

\* Whatever is written to the table between the two lookups of a login, tokens
\* are handed out only for the password of an account that was active during
\* the call, and they are those of an account of that name and password.
THEOREM LoginIsGrantedToAnActiveAccount == Spec => []GrantedWhileActive
<1>1. Init => GrantedWhileActive
  BY DEF Init, GrantedWhileActive, Answered
<1>2. IInv /\ GrantedWhileActive /\ [Next]_vars => GrantedWhileActive'
  BY GrantedStep DEF IInv
<1> QED
  BY <1>1, <1>2, Inductive, PTL DEF Spec

\* A login is never refused to an active account that keeps its name and
\* password for the time of the call, as long as the database answers.
THEOREM StableAccountIsLetIn == Spec => []StableAccountLogsIn
<1>1. Init => StableAccountLogsIn
  BY DEF Init, StableAccountLogsIn, Answered
<1>2. IInv /\ StableAccountLogsIn /\ [Next]_vars => StableAccountLogsIn'
  BY StableStep DEF IInv
<1> QED
  BY <1>1, <1>2, Inductive, PTL DEF Spec

\* The role the middleware gives a handler is one the user had during the
\* request, and a user who was there throughout and could be looked up has one.
THEOREM RoleIsCurrent == Spec => []AttributesAreCurrent
<1>1. Init => AttributesAreCurrent
  BY DEF Init, AttributesAreCurrent, Answered
<1>2. IInv /\ AttributesAreCurrent /\ [Next]_vars => AttributesAreCurrent'
  BY AttributesStep DEF IInv
<1> QED
  BY <1>1, <1>2, Inductive, PTL DEF Spec

--------------------------------------------------------------------------------
(* Why a refresh fails: AuthServiceImpl::refresh_tokens authenticates without *)
(* a password, so it can only succeed for an account that has none.           *)

HasPassword(row) == row.password_hash # Sha256[Empty]
AccountsHavePasswords ==
  /\ \A table \in InitTables : \A id \in Ids : table[id] # Nothing => HasPassword(table[id])
  /\ \A row \in Rows : HasPassword(row)
PasswordsInv ==
  AccountsHavePasswords => \A id \in Ids : Present(id) => HasPassword(users[id])
NoneRefreshed ==
  AccountsHavePasswords => \A c \in Clients : Answered(c, "refresh") => answer[c] # 200

LEMMA PasswordsStep == ASSUME TypeInv, PasswordsInv, [Next]_vars PROVE PasswordsInv'
<1> SUFFICES ASSUME AccountsHavePasswords, NEW id \in Ids, users'[id] # Nothing
             PROVE  HasPassword(users'[id])
  BY DEF PasswordsInv, Present
<1>1. users \in [Ids -> Row \cup {Nothing}]
  BY DEF TypeInv, TypeOK
<1>2. users[id] # Nothing => HasPassword(users[id])
  BY DEF PasswordsInv, Present
<1>3. CASE SaveUser \/ UpdateUser
  <2>1. PICK i \in Ids, row \in Rows : users' = [users EXCEPT ![i] = row]
    BY <1>3 DEF SaveUser, UpdateUser, WriteUsers
  <2> QED
    BY <1>1, <1>2, <2>1 DEF AccountsHavePasswords
<1>4. CASE RemoveUser
  <2>1. PICK i \in Ids : users' = [users EXCEPT ![i] = Nothing]
    BY <1>4 DEF RemoveUser, WriteUsers
  <2> QED
    BY <1>1, <1>2, <2>1
<1>5. CASE users' = users
  BY <1>2, <1>5
<1>6. (\E c \in Clients : Handler(c)) => users' = users
  BY HandlerTable
<1> QED
  BY <1>3, <1>4, <1>5, <1>6 DEF Next, Handler, Terminated, vars

LEMMA NoneRefreshedStep ==
  ASSUME TypeInv, HistoryInv, PasswordsInv, NoneRefreshed, [Next]_vars
  PROVE  NoneRefreshed'
<1> DEFINE Refused(d) == Answered(d, "refresh") => answer[d] # 200
<1> SUFFICES ASSUME AccountsHavePasswords, NEW d \in Clients PROVE Refused(d)'
  BY DEF NoneRefreshed
<1>1. Refused(d)
  BY DEF NoneRefreshed
<1>2. ASSUME Same(d) PROVE Refused(d)'
  BY <1>1, <1>2 DEF Same, Answered, At
<1>3. ASSUME pc'[d] # "idle" \/ answer'[d] # 200 PROVE Refused(d)'
  BY <1>3 DEF Answered, At
<1> HIDE DEF Refused
<1>4. ASSUME NEW c \in Clients, Handler(c), d # c PROVE Refused(d)'
  BY <1>2, <1>4, HandlerOthers
<1>5. ASSUME NEW table \in [Ids -> Row \cup {Nothing}], WriteUsers(table) PROVE Refused(d)'
  <2>1. CASE Busy(d)
    <3>1. pc'[d] # "idle"
      BY <1>5, <2>1, WriteHistory DEF Busy, At
    <3> QED
      BY <1>3, <3>1
  <2>2. CASE ~Busy(d)
    <3>1. Same(d)
      BY <1>5, <2>2, WriteHistory
    <3> QED
      BY <1>2, <3>1
  <2> QED
    BY <2>1, <2>2
<1>6. CASE UNCHANGED vars
  BY <1>2, <1>6 DEF vars, Same
<1>7. ASSUME ArrivalOf(d) PROVE pc'[d] # "idle" \/ answer'[d] # 200
  <2>1. pc'[d] # "idle" \/ answer'[d] \notin {0, 200}
    BY <1>7, ArrivalOpens
  <2> QED
    BY <2>1
<1>8. ASSUME CheckUser(d) \/ FindById(d) PROVE pc'[d] # "idle" \/ answer'[d] # 200
  BY <1>8, CheckUserFinds, FindByIdFinds
<1>9. CASE CurrentUser(d)
  BY <1>3, <1>9 DEF CurrentUser, Reply, TypeInv, TypeOK
<1>10. CASE Authenticate(d)
  <2>1. CASE req[d].op # "refresh"
    BY <1>10, <2>1 DEF Authenticate, Lookup, Answered, Refused
  <2>2. CASE req[d].op = "refresh" /\ answer'[d] = 200
    <3>1. PICK id \in WithName(name[d]) : users[id].password_hash = Sha256[Empty]
      <4>1. \E id \in WithName(name[d]) :
              users[id].password_hash = Sha256[IF req[d].op = "login" THEN req[d].password ELSE Empty]
        BY <1>10, <2>2, AuthenticateGrants
      <4> QED
        BY <2>2, <4>1
    <3>2. id \in Ids /\ Present(id)
      BY DEF WithName
    <3> QED
      BY <3>1, <3>2 DEF PasswordsInv, HasPassword
  <2> QED
    BY <1>3, <2>1, <2>2
<1>11. Handler(d) => Refused(d)'
  BY <1>3, <1>7, <1>8, <1>9, <1>10 DEF Handler, ArrivalOf
<1> QED
  BY <1>4, <1>5, <1>6, <1>11, NextCases

\* No refresh is ever answered with tokens, of whatever account, as long as all
\* accounts have passwords whose digest is not that of the empty password.
THEOREM RefreshNeverSucceeds == Spec => []NoneRefreshed
<1>1. Init => PasswordsInv /\ NoneRefreshed
  BY DEF Init, PasswordsInv, AccountsHavePasswords, NoneRefreshed, Answered, Present
<1>2. IInv /\ PasswordsInv /\ NoneRefreshed /\ [Next]_vars => PasswordsInv' /\ NoneRefreshed'
  BY PasswordsStep, NoneRefreshedStep DEF IInv
<1> QED
  BY <1>1, <1>2, Inductive, PTL DEF Spec
================================================================================
