------------------------------- MODULE SignIn -------------------------------
(***************************************************************************)
(* How accounts come to be and how a session begins: public registration,   *)
(* users created by an administrator, the password login and the login      *)
(* through an identity provider.  A request runs once, from await to await; *)
(* Postgres, Redis and the provider may fail it at each.  What becomes of   *)
(* the session is RefreshTokens, of the second factor TwoFactor.            *)
(***************************************************************************)
EXTENDS Naturals, FiniteSets

CONSTANTS
  Login,        \* a request names the state and the workspace that it creates
  Email,        \* addresses as they are written
  Lower,        \* trim().to_ascii_lowercase() of each
  Home,         \* the workspace that is there from the start
  MaxSeats,     \* of a valid licence
  Unknown

ASSUME AccountsAssumption ==
  /\ Lower \in [Email -> Email]
  /\ Home \notin Login
  /\ Unknown \notin Login \cup Email
  /\ Unknown \notin [ws : Login \cup {Home}, role : {"owner", "admin", "developer", "viewer"},
                    confirmed : BOOLEAN]

VARIABLES
  user,         \* users: the row of each address
  workspaces,   \* committed rows of workspaces
  rules,        \* the workspaces with their seeded rule
  states,       \* oidc_state:* in Redis, by the authorize that stored it
  loginTrail,   \* admin_audit rows
  session,      \* sessions that were opened
  purpose,      \* purpose tokens that were handed out
  login         \* the requests

accountVars == <<user, workspaces, rules, states, loginTrail, session, purpose, login>>

Privileged == {"owner", "admin"}
ValidRoles == {"owner", "admin", "developer", "viewer"}

NoLogin == [pc |-> "idle", op |-> "none", email |-> Unknown, state |-> Unknown,
            decision |-> Unknown, ws |-> Unknown, role |-> Unknown]

Account(ws, role) == [ws |-> ws, role |-> role, confirmed |-> FALSE]

AccountsInit ==
  /\ user \in [Email -> {Unknown} \cup {Account(Home, role) : role \in {"owner", "developer"}}]
  /\ Cardinality({e \in Email : user[e] # Unknown}) <= 1
  /\ workspaces = {Home} /\ rules = {Home}
  /\ states = {} /\ loginTrail = {} /\ session = {} /\ purpose = {}
  /\ login = [r \in Login |-> NoLogin]

LoginAt(r, pc) == login[r].pc = pc
Done(r) == login' = [login EXCEPT ![r].pc = "done"]

(* The handler is dropped or one of its awaits fails; an open transaction is rolled back. *)
LoginFails(r) ==
  /\ ~LoginAt(r, "idle") /\ ~LoginAt(r, "done")
  /\ Done(r)
  /\ UNCHANGED <<user, workspaces, rules, states, loginTrail, session, purpose>>

-----------------------------------------------------------------------------
(* Once enrolled always challenged; owners and administrators must enroll. *)
decide_2fa(role, confirmed) ==
  IF confirmed THEN "challenge" ELSE IF role \in Privileged THEN "enroll" ELSE "access"

login_outcome(decision) ==
  [access |-> "session_issued", challenge |-> "second_factor_required",
   enroll |-> "enrolment_required"][decision]

(* find_by_email_with_role: the row decides, whatever happens to it afterwards. *)
Found(r, op, e) ==
  login' = [login EXCEPT ![r].pc = "record", ![r].op = op, ![r].email = e,
                     ![r].decision = decide_2fa(user[e].role, user[e].confirmed)]

(* A rate limit, an unknown address and a wrong password are the same 401. *)
Token(r, e) ==
  /\ LoginAt(r, "idle")
  /\ Done(r) \/ (user[Lower[e]] # Unknown /\ Found(r, "password", Lower[e]))
  /\ UNCHANGED <<user, workspaces, rules, states, loginTrail, session, purpose>>

(* record_login commits before anything is issued; TRUE: its answer arrives. *)
RecordLogin(r) ==
  /\ LoginAt(r, "record")
  /\ loginTrail' = loginTrail \cup {[by |-> r, email |-> login[r].email, method |-> login[r].op,
                           outcome |-> login_outcome(login[r].decision)]}
  /\ login' \in {[login EXCEPT ![r].pc = "issue"], [login EXCEPT ![r].pc = "done"]}
  /\ UNCHANGED <<user, workspaces, rules, states, session, purpose>>

(* build_token_pair_body: the session's first refresh row. *)
IssuePair(r) ==
  /\ LoginAt(r, "issue") /\ login[r].decision = "access"
  /\ session' = session \cup {[by |-> r, email |-> login[r].email, op |-> login[r].op,
                               state |-> login[r].state]}
  /\ Done(r)
  /\ UNCHANGED <<user, workspaces, rules, states, loginTrail, purpose>>

(* encode_purpose_token: a token that only the 2FA routes redeem. *)
IssuePurpose(r) ==
  /\ LoginAt(r, "issue") /\ login[r].decision # "access"
  /\ purpose' = purpose \cup {[email |-> login[r].email, purpose |-> login[r].decision]}
  /\ Done(r)
  /\ UNCHANGED <<user, workspaces, rules, states, loginTrail, session>>

-----------------------------------------------------------------------------
(* store_oidc_state: SET with an expiry; a lost answer leaves the key. *)
Authorize(r) ==
  /\ LoginAt(r, "idle")
  /\ states' \in {states, states \cup {r}}
  /\ login' = [login EXCEPT ![r].pc = "done", ![r].op = "authorize"]
  /\ UNCHANGED <<user, workspaces, rules, loginTrail, session, purpose>>

(* Redis drops a state after 600 s. *)
ExpireState(s) ==
  /\ s \in states
  /\ states' = states \ {s}
  /\ UNCHANGED <<user, workspaces, rules, loginTrail, session, purpose, login>>

(* consume_oidc_state: GETDEL. *)
ConsumeState(r, s) ==
  /\ s \in states
  /\ login' = [login EXCEPT ![r].pc = "exchange", ![r].op = "oidc", ![r].state = s]
  /\ states' = states \ {s}

(* oidc_callback up to the state check; an unknown or expired state is a 400. *)
Callback(r, s) ==
  /\ LoginAt(r, "idle")
  /\ \/ ConsumeState(r, s)
     \/ s \notin states /\ Done(r) /\ UNCHANGED states
  /\ UNCHANGED <<user, workspaces, rules, loginTrail, session, purpose>>

(* The provider exchanges the code and names an address, which must be a user's. *)
Exchange(r, e) ==
  /\ LoginAt(r, "exchange")
  /\ IF user[e] = Unknown THEN Done(r) ELSE Found(r, "oidc", e)
  /\ UNCHANGED <<user, workspaces, rules, states, loginTrail, session, purpose>>

-----------------------------------------------------------------------------
(* An INSERT of an address waits for the transaction that has inserted it. *)
Inserted(r, e) == login[r].pc \in {"seed", "audit"} /\ login[r].email = e
MayInsert(r) == \A q \in Login \ {r} : ~Inserted(q, login[r].email)

(* register: switched off, over the rate limit and invalid input are refused. *)
Register(r, e) ==
  /\ LoginAt(r, "idle")
  /\ \/ Done(r)
     \/ login' = [login EXCEPT ![r].pc = "found", ![r].op = "register", ![r].email = Lower[e]]
  /\ UNCHANGED <<user, workspaces, rules, states, loginTrail, session, purpose>>

(* create_with_owner: workspace and owner; a taken address rolls both back. *)
InsertOwner(r) ==
  /\ LoginAt(r, "found") /\ MayInsert(r)
  /\ IF user[login[r].email] # Unknown THEN Done(r) ELSE login' = [login EXCEPT ![r].pc = "seed"]
  /\ UNCHANGED <<user, workspaces, rules, states, loginTrail, session, purpose>>

(* create_with_owner: the scope is armed, the rule seeded, all three committed. *)
SeedAndCommit(r) ==
  /\ LoginAt(r, "seed")
  /\ user' = [user EXCEPT ![login[r].email] = Account(r, "owner")]
  /\ workspaces' = workspaces \cup {r} /\ rules' = rules \cup {r}
  /\ login' \in {[login EXCEPT ![r].pc = "issue", ![r].decision = "access"],
               [login EXCEPT ![r].pc = "done"]}
  /\ UNCHANGED <<states, loginTrail, session, purpose>>

-----------------------------------------------------------------------------
(* count_total_users *)
SeatsTaken == Cardinality({e \in Email : user[e] # Unknown})

(* create_user: an owner or administrator adds to their own workspace, in any role; the seats are  *)
(* counted before the INSERT, and the address is kept as it is written.                            *)
CreateUser(r, by, e, role) ==
  /\ LoginAt(r, "idle") /\ user[by] # Unknown
  /\ IF user[by].role \in Privileged /\ SeatsTaken < MaxSeats /\ role \in ValidRoles
       THEN login' = [login EXCEPT ![r].pc = "counted", ![r].op = "create", ![r].email = e,
                               ![r].ws = user[by].ws, ![r].role = role]
       ELSE Done(r)
  /\ UNCHANGED <<user, workspaces, rules, states, loginTrail, session, purpose>>

InsertUser(r) ==
  /\ LoginAt(r, "counted") /\ MayInsert(r)
  /\ IF user[login[r].email] # Unknown THEN Done(r) ELSE login' = [login EXCEPT ![r].pc = "audit"]
  /\ UNCHANGED <<user, workspaces, rules, states, loginTrail, session, purpose>>

CreatedRow(r, ws, e, role) == [by |-> r, ws |-> ws, email |-> e, method |-> "create", outcome |-> role]

(* Mutant: the account is made in the first workspace, not in its creator's. *)
CommitUserAtHome(r) ==
  /\ LoginAt(r, "audit")
  /\ user' = [user EXCEPT ![login[r].email] = Account(Home, login[r].role)]
  /\ loginTrail' = loginTrail \cup {CreatedRow(r, login[r].ws, login[r].email, login[r].role)}
  /\ Done(r)
  /\ UNCHANGED <<workspaces, rules, states, session, purpose>>

(* The row and its audit row commit together; whether the answer arrives, the handler writes no more. *)
CommitUser(r) ==
  /\ LoginAt(r, "audit")
  /\ user' = [user EXCEPT ![login[r].email] = Account(login[r].ws, login[r].role)]
  /\ loginTrail' = loginTrail \cup {CreatedRow(r, login[r].ws, login[r].email, login[r].role)}
  /\ Done(r)
  /\ UNCHANGED <<workspaces, rules, states, session, purpose>>

(* A verify confirms the second factor of an account (TwoFactor). *)
ConfirmTotp(e) ==
  /\ user[e] # Unknown /\ ~user[e].confirmed
  /\ user' = [user EXCEPT ![e].confirmed = TRUE]
  /\ UNCHANGED <<workspaces, rules, states, loginTrail, session, purpose, login>>

LoginStep(r) ==
  \/ LoginFails(r) \/ RecordLogin(r) \/ IssuePair(r) \/ IssuePurpose(r) \/ Authorize(r)
  \/ InsertOwner(r) \/ SeedAndCommit(r) \/ InsertUser(r) \/ CommitUser(r)
  \/ \E e \in Email : Token(r, e) \/ Exchange(r, e) \/ Register(r, e)
  \/ \E by, e \in Email, role \in ValidRoles \cup {"employee"} : CreateUser(r, by, e, role)
  \/ \E s \in Login : Callback(r, s)

AccountsNext ==
  \/ \E r \in Login : LoginStep(r)
  \/ \E s \in Login : ExpireState(s)
  \/ \E e \in Email : ConfirmTotp(e)

AccountsSpec == AccountsInit /\ [][AccountsNext]_accountVars

-----------------------------------------------------------------------------
SignedIn == {s \in session : s.op # "register"}

(* However callbacks, failures and retries interleave, a login that opens a session has its record  *)
(* in the trail saying so, is no owner's or administrator's, and, through a provider, has spent a   *)
(* state of its own that an authorize had stored: record_login comes first, GETDEL gives a state to *)
(* one callback.                                                                                    *)
LoginIsProven ==
  \A s \in SignedIn :
    /\ [by |-> s.by, email |-> s.email, method |-> s.op, outcome |-> "session_issued"] \in loginTrail
    /\ user[s.email].role \notin Privileged
    /\ s.op = "oidc" => /\ login[s.state].op = "authorize" /\ s.state \notin states
                        /\ \A t \in SignedIn \ {s} : t.state # s.state

(* Registrations and creations race for addresses, from several workspaces and with failures        *)
(* between their statements.  Whatever happens, a workspace that was registered has its rule and    *)
(* keeps its registrant as an owner; every other account in it has a row in the trail that says who *)
(* made it; and such a row is true: the account is in its creator's workspace with that role.       *)
AccountsAreWhole ==
  /\ workspaces = rules
  /\ \A w \in workspaces \ {Home} :
       LET owner == user[login[w].email] IN owner # Unknown /\ owner.ws = w /\ owner.role = "owner"
  /\ \A e \in Email : user[e] # Unknown =>
       /\ user[e].ws \in workspaces
       /\ user[e].ws # Home => \/ e = login[user[e].ws].email
                               \/ \E r \in Login : CreatedRow(r, user[e].ws, e, user[e].role) \in loginTrail
  /\ \A l \in loginTrail : l.method = "create" =>
       user[l.email] # Unknown /\ user[l.email].ws = l.ws /\ user[l.email].role = l.outcome

AccountsHold == LoginIsProven /\ AccountsAreWhole
=============================================================================
