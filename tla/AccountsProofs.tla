--------------------------- MODULE AccountsProofs ---------------------------
(***************************************************************************)
(* Proofs about Accounts for any number of users, tokens and requests:     *)
(* rotation keeps one good token per session, a session that is over stays *)
(* over, a name settles, and a sign-in with Google ends on the account of  *)
(* its identity.                                                           *)
(***************************************************************************)
EXTENDS Accounts, TLAPS

-----------------------------------------------------------------------------
(* Types                                                                   *)

Signing == {"byEmail", "update", "link", "create", "refetch"}

\* What a request holds while it waits for its next statement.
Equipped(r) ==
    /\ r.kind \in Signing => r.who # None /\ r.session = None
    /\ r.kind \in {"byEmail", "link", "create", "refetch"} => r.who.email # None
    /\ r.kind \in {"update", "link"} => r.row # None
    /\ r.kind = "update" /\ r.who.provider = "apple" => r.row.name = None
    /\ r.kind \in {"claim", "family"} => r.token # None

OpTyped == /\ op \in [Reqs -> Op \cup {None}]
           /\ \A o \in Reqs : op[o] # None => Equipped(op[o])

Typed == TypeOK /\ OpTyped

LEMMA IdentityType ==
    ASSUME NEW p \in Identities
    PROVE  /\ p.provider \in Providers /\ p.sub \in Subs /\ p.name \in AllNames
           /\ p.email # None => p.email \in Emails
           /\ p.provider = "google" => p.email \in Emails
BY IdentityAssumption DEF Subs, Emails, AllNames

\* Writing an identity and a name onto a row leaves a row.
LEMMA LinkedRow ==
    ASSUME NEW r \in User, NEW p \in Identities, NEW n \in AllNames
    PROVE  [r EXCEPT ![p.provider] = p.sub, !.name = n] \in User
<1>1. CASE p.provider = "google"
      BY <1>1, IdentityType DEF User
<1>2. CASE p.provider = "apple"
      BY <1>2, IdentityType DEF User
<1> QED  BY <1>1, <1>2, IdentityType DEF Providers

\* One request moves on, or ends.
LEMMA OpStep ==
    ASSUME Typed, NEW o \in Reqs, NEW r \in Op \cup {None}, r # None => Equipped(r),
           op' = [op EXCEPT ![o] = r]
    PROVE  OpTyped'
BY DEF Typed, OpTyped

LEMMA CloseType ==
    ASSUME Typed, NEW o \in Reqs, Close(o)
    PROVE  OpTyped'
BY OpStep DEF Close

LEMMA SignedInType ==
    ASSUME Typed, NEW o \in Reqs, op[o] # None, NEW u \in UserIds, SignedIn(o, u)
    PROVE  OpTyped'
<1> DEFINE r == [op[o] EXCEPT !.kind = "issue", !.user = u, !.row = None]
<1>1. r \in Op /\ r.kind = "issue" /\ op' = [op EXCEPT ![o] = r]
      BY DEF Typed, TypeOK, Op, SignedIn
<1>2. Equipped(r)
      BY <1>1 DEF Equipped, Signing
<1> QED  BY <1>1, <1>2, OpStep

\* A request that has what its next statement needs moves on to it.
LEMMA StepType ==
    ASSUME Typed, NEW o \in Reqs, op[o] # None,
           NEW kind \in {"create", "refetch", "issue", "family"}, Step(o, kind),
           kind = "create" => op[o].kind = "byEmail",
           kind = "refetch" => op[o].kind = "create",
           kind = "family" => op[o].kind = "claim"
    PROVE  OpTyped'
<1> DEFINE r == [op[o] EXCEPT !.kind = kind]
<1>1. op[o] \in Op /\ r \in Op /\ op' = [op EXCEPT ![o] = r]
      BY DEF Typed, TypeOK, Op, Step
<1>2. /\ r.kind = kind /\ r.who = op[o].who /\ r.session = op[o].session
      /\ r.token = op[o].token
      BY <1>1 DEF Op
<1>3. Equipped(r)
      BY <1>2 DEF Typed, OpTyped, Equipped, Signing
<1> QED  BY <1>1, <1>3, OpStep

\* The name a sign-in writes is a name.
LEMMA NameFromType ==
    ASSUME Typed, NEW o \in Reqs, op[o] # None, op[o].kind \in {"update", "link"}
    PROVE  /\ op[o] \in Op /\ op[o].who \in Identities /\ op[o].row \in User
           /\ NameFrom(o) \in AllNames
<1>1. op[o] \in Op /\ op[o].who \in Identities /\ op[o].row \in User
      BY DEF Typed, TypeOK, OpTyped, Equipped, Signing, Op
<1> QED  BY <1>1, IdentityType DEF NameFrom, User

\* Statements that read, of the requests that sign in.
LEMMA ReadTypes ==
    ASSUME Typed, NEW o \in Reqs,
           (\E p \in Identities : SignIn(o, p)) \/ FindByEmail(o) \/ Refetch(o)
    PROVE  Typed'
<1>1. ASSUME NEW p \in Identities, SignIn(o, p)
      PROVE  OpTyped'
  <2> DEFINE start == [kind |-> "issue", who |-> p, user |-> None, row |-> None,
                       token |-> None, session |-> None]
  <2>1. start \in Op /\ p # None => start.who # None
        BY DEF Op
  <2>2. p # None
        BY IdentityAssumption, AbsentAssumption, <1>1
  <2>3. CASE BySub(p) = {}
    <3>1. [start EXCEPT !.kind = "byEmail"] \in Op
          BY DEF Op
    <3>2. Equipped([start EXCEPT !.kind = "byEmail"])
          BY <1>1, <2>2, <2>3 DEF SignIn, Equipped
    <3> QED  BY <1>1, <2>3, <3>1, <3>2, OpStep DEF SignIn
  <2>4. ASSUME NEW u \in BySub(p),
               op' = [op EXCEPT ![o] =
                   IF OutOfDate(p, users[u])
                   THEN [start EXCEPT !.kind = "update", !.user = u, !.row = users[u]]
                   ELSE [start EXCEPT !.user = u]]
        PROVE  OpTyped'
    <3>1. u \in UserIds /\ users[u] \in User /\ users[u] # None
          BY DEF BySub, Accounts, Live, Typed, TypeOK
    <3>2. [start EXCEPT !.kind = "update", !.user = u, !.row = users[u]] \in Op
          BY <3>1 DEF Op
    <3>3. [start EXCEPT !.user = u] \in Op
          BY <3>1 DEF Op
    <3>4. OutOfDate(p, users[u]) =>
              Equipped([start EXCEPT !.kind = "update", !.user = u, !.row = users[u]])
          BY <2>2, <3>1 DEF Equipped, Signing, OutOfDate
    <3>5. Equipped([start EXCEPT !.user = u])
          BY <2>2, <3>1 DEF Equipped, Signing
    <3> QED  BY <2>4, <3>2, <3>3, <3>4, <3>5, OpStep
  <2> QED  BY <1>1, <2>3, <2>4 DEF SignIn
<1>2. ASSUME FindByEmail(o)
      PROVE  OpTyped'
  <2>1. CASE Step(o, "create")
        BY <1>2, <2>1, StepType DEF FindByEmail
  <2>2. ASSUME NEW u \in ByEmail(op[o].who.email), Found(o, "link", u)
        PROVE  OpTyped'
    <3>1. u \in UserIds /\ users[u] \in User /\ users[u] # None
          BY DEF ByEmail, Accounts, Live, Typed, TypeOK
    <3> DEFINE r == [op[o] EXCEPT !.kind = "link", !.user = u, !.row = users[u]]
    <3>2. op[o] \in Op /\ op[o].kind = "byEmail"
          BY <1>2 DEF FindByEmail, Typed, TypeOK
    <3>3. r \in Op /\ r.row = users[u] /\ r.who = op[o].who /\ r.session = op[o].session
          /\ r.kind = "link"
          BY <3>1, <3>2 DEF Op
    <3>4. Equipped(r)
          BY <1>2, <3>1, <3>2, <3>3 DEF FindByEmail, Typed, OpTyped, Equipped, Signing
    <3>5. op' = [op EXCEPT ![o] = r]
          BY <2>2, <3>2 DEF Found, Typed, TypeOK
    <3> QED  BY <3>3, <3>4, <3>5, OpStep
  <2> QED  BY <1>2, <2>1, <2>2 DEF FindByEmail
<1>3. ASSUME Refetch(o)
      PROVE  OpTyped'
      BY <1>3, CloseType, SignedInType DEF Refetch, BySub, Accounts
<1>4. UNCHANGED <<now, users, tokens>>
      BY DEF SignIn, FindByEmail, Refetch
<1> QED  BY <1>1, <1>2, <1>3, <1>4 DEF Typed, TypeOK, OpTyped

\* Statements that write a user row, of the requests that sign in.
LEMMA WriteTypes ==
    ASSUME Typed, NEW o \in Reqs, UpdateMatched(o) \/ LinkByEmail(o) \/ CreateUser(o)
    PROVE  Typed'
<1> USE DEF Accounts, Live
<1>1. ASSUME UpdateMatched(o)
      PROVE  OpTyped' /\ users' \in [UserIds -> User \cup {None, Gone}]
  <2>1. /\ op[o] # None /\ op[o] \in Op
        /\ op[o].who \in Identities /\ NameFrom(o) \in AllNames
        BY <1>1, NameFromType DEF UpdateMatched
  <2>2. CASE op[o].user \notin Accounts
        BY <1>1, <2>2, CloseType DEF UpdateMatched, Typed, TypeOK
  <2>3. CASE op[o].user \in Accounts
    <3>1. op[o].user \in UserIds /\ users[op[o].user] \in User
          BY <2>3 DEF Typed, TypeOK
    <3>2. OpTyped'
          BY <1>1, <2>1, <2>3, <3>1, SignedInType DEF UpdateMatched
    <3>3. op[o].who.name \in AllNames /\
          (op[o].who.provider # "apple" => op[o].who.email \in Emails)
          BY <2>1, IdentityType DEF Providers
    <3>4. users' \in [UserIds -> User \cup {None, Gone}]
          BY <1>1, <2>1, <2>3, <3>1, <3>3 DEF UpdateMatched, Typed, TypeOK, User
    <3> QED  BY <3>2, <3>4
  <2> QED  BY <2>2, <2>3
<1>2. ASSUME LinkByEmail(o)
      PROVE  OpTyped' /\ users' \in [UserIds -> User \cup {None, Gone}]
  <2> DEFINE u == op[o].user
             p == op[o].who
  <2>1. op[o] # None /\ op[o] \in Op /\ p \in Identities /\ NameFrom(o) \in AllNames
        BY <1>2, NameFromType DEF LinkByEmail
  <2>2. CASE u \notin Accounts
        BY <1>2, <2>2, CloseType DEF LinkByEmail, Typed, TypeOK
  <2>3. CASE u \in Accounts /\ BySub(p) \subseteq {u}
    <3>1. u \in UserIds /\ users[u] \in User
          BY <2>3 DEF Typed, TypeOK
    <3>2. /\ SignedIn(o, u)
          /\ users' = [users EXCEPT ![u][p.provider] = p.sub, ![u].name = NameFrom(o)]
          BY <1>2, <2>3 DEF LinkByEmail
    <3>3. [users[u] EXCEPT ![p.provider] = p.sub, !.name = NameFrom(o)] \in User
          BY <2>1, <3>1, LinkedRow
    <3>4. users' = [users EXCEPT ![u] =
                       [users[u] EXCEPT ![p.provider] = p.sub, !.name = NameFrom(o)]]
          BY <3>1, <3>2 DEF Typed, TypeOK
    <3>5. users' \in [UserIds -> User \cup {None, Gone}]
          BY <3>1, <3>3, <3>4 DEF Typed, TypeOK
    <3> QED  BY <2>1, <3>1, <3>2, <3>5, SignedInType
  <2>4. CASE u \in Accounts /\ ~(BySub(p) \subseteq {u})
    <3>1. UNCHANGED users /\ (Close(o) \/ SignedIn(o, u))
          BY <1>2, <2>4 DEF LinkByEmail
    <3>2. u \in UserIds
          BY <2>4
    <3> QED  BY <2>1, <3>1, <3>2, CloseType, SignedInType DEF Typed, TypeOK
  <2> QED  BY <2>2, <2>3, <2>4
<1>3. ASSUME CreateUser(o)
      PROVE  OpTyped' /\ users' \in [UserIds -> User \cup {None, Gone}]
  <2>1. op[o] # None /\ op[o].kind = "create"
        BY <1>3 DEF CreateUser
  <2>2. op[o].who \in Identities /\ op[o].who.email # None
        BY <2>1 DEF Typed, OpTyped, Equipped, Signing, Op
  <2>3. NewUser(op[o].who) \in User
        BY <2>2, IdentityType DEF NewUser, User
  <2>4. CASE Step(o, "refetch") /\ UNCHANGED users
        BY <2>1, <2>4, StepType DEF Typed, TypeOK
  <2>5. ASSUME NEW u \in UserIds, SignedIn(o, u),
               users' = [users EXCEPT ![u] = NewUser(op[o].who)]
        PROVE  OpTyped' /\ users' \in [UserIds -> User \cup {None, Gone}]
        BY <2>1, <2>3, <2>5, SignedInType DEF Typed, TypeOK
  <2> QED  BY <1>3, <2>4, <2>5 DEF CreateUser
<1>4. UNCHANGED <<now, tokens>>
      BY DEF UpdateMatched, LinkByEmail, CreateUser
<1> QED  BY <1>1, <1>2, <1>3, <1>4 DEF Typed, TypeOK, OpTyped

\* Statements on refresh tokens.
LEMMA TokenTypes ==
    ASSUME Typed, NEW o \in Reqs,
           \/ IssueTokens(o) \/ Claim(o) \/ RevokeFamily(o)
           \/ \E t \in TokenIds : RefreshRead(o, t)
    PROVE  Typed'
<1> USE DEF Accounts, StoredTokens, Live
<1>1. ASSUME IssueTokens(o)
      PROVE  OpTyped' /\ tokens' \in [TokenIds -> Token \cup {None, Gone}]
  <2>1. op[o] \in Op /\ now + RefreshTTL \in Nat
        BY <1>1, IdentityAssumption DEF IssueTokens, Typed, TypeOK
  <2>2. ASSUME NEW t \in TokenIds, op[o].user \in Accounts
        PROVE  [user |-> op[o].user, expiresAt |-> now + RefreshTTL, revoked |-> FALSE,
                session |-> IF op[o].session = None THEN t ELSE op[o].session] \in Token
        BY <2>1, <2>2 DEF Op, Token
  <2> QED  BY <1>1, <2>2, CloseType DEF IssueTokens, Typed, TypeOK
<1>2. ASSUME Claim(o)
      PROVE  OpTyped' /\ tokens' \in [TokenIds -> Token \cup {None, Gone}]
  <2>1. op[o] # None /\ op[o].kind = "claim" /\ (Step(o, "issue") \/ Step(o, "family"))
        BY <1>2 DEF Claim
  <2>2. OpTyped'
        BY <2>1, StepType
  <2> QED  BY <1>2, <2>2 DEF Claim, Typed, TypeOK, Token
<1>3. ASSUME RevokeFamily(o)
      PROVE  OpTyped' /\ tokens' \in [TokenIds -> Token \cup {None, Gone}]
      BY <1>3, CloseType DEF RevokeFamily, Typed, TypeOK, Token
<1>4. ASSUME NEW t \in TokenIds, RefreshRead(o, t)
      PROVE  OpTyped' /\ tokens' \in [TokenIds -> Token \cup {None, Gone}]
  <2> DEFINE r == [kind |-> "claim", who |-> None, user |-> tokens[t].user,
                   row |-> None, token |-> t, session |-> tokens[t].session]
  <2>1. tokens[t] \in Token /\ t # None
        BY <1>4, AbsentAssumption DEF RefreshRead, Typed, TypeOK
  <2>2. r \in Op /\ Equipped(r)
        BY <2>1 DEF Op, Token, Equipped, Signing
  <2> QED  BY <1>4, <2>2, OpStep DEF RefreshRead, Typed, TypeOK
<1>5. UNCHANGED <<now, users>>
      BY DEF IssueTokens, Claim, RevokeFamily, RefreshRead
<1> QED  BY <1>1, <1>2, <1>3, <1>4, <1>5 DEF Typed, TypeOK, OpTyped

LEMMA TypeStep ==
    ASSUME Typed, [Next]_vars
    PROVE  Typed'
<1>1. ASSUME NEW o \in Reqs, Handle(o)
      PROVE  Typed'
  <2>1. CASE LoseOp(o)
        BY <2>1, CloseType DEF LoseOp, Typed, TypeOK, OpTyped
  <2> QED  BY <1>1, <2>1, ReadTypes, WriteTypes, TokenTypes DEF Handle
<1>2. ASSUME NEW t \in TokenIds, Logout(t)
      PROVE  Typed'
      BY <1>2 DEF Logout, StoredTokens, Live, Typed, TypeOK, OpTyped, Token
<1>3. ASSUME NEW u \in UserIds, NEW n \in Names, ChooseName(u, n)
      PROVE  Typed'
  <2>1. users[u] \in User /\ n \in AllNames
        BY <1>3 DEF ChooseName, Accounts, Live, Typed, TypeOK, AllNames
  <2>2. users' \in [UserIds -> User \cup {None, Gone}]
        BY <1>3, <2>1 DEF ChooseName, Typed, TypeOK, User
  <2> QED  BY <1>3, <2>2 DEF ChooseName, Typed, TypeOK, OpTyped
<1>4. ASSUME NEW u \in UserIds, DeleteAccount(u)
      PROVE  Typed'
      BY <1>4 DEF DeleteAccount, Typed, TypeOK, OpTyped
<1>5. ASSUME NEW ts \in SUBSET TokenIds, SweepTokens(ts)
      PROVE  Typed'
      BY <1>5 DEF SweepTokens, Typed, TypeOK, OpTyped
<1>6. CASE Tick
      BY <1>6, IdentityAssumption DEF Tick, Typed, TypeOK, OpTyped
<1>7. CASE UNCHANGED vars
      BY <1>7 DEF vars, Typed, TypeOK, OpTyped
<1> QED  BY <1>1, <1>2, <1>3, <1>4, <1>5, <1>6, <1>7 DEF Next

\* Every variable keeps its type, and no request waits without what its next
\* statement needs.
THEOREM Types == Spec => [](TypeOK /\ OpTyped)
<1>1. Init => Typed
      BY IdentityAssumption DEF Init, Typed, TypeOK, OpTyped
<1>2. Typed /\ [Next]_vars => Typed'
      BY TypeStep
<1>3. Typed => TypeOK /\ OpTyped
      BY DEF Typed
<1> QED  BY <1>1, <1>2, <1>3, PTL DEF Spec

-----------------------------------------------------------------------------
(* Rotation                                                                *)

\* Every session that a token or a request belongs to has begun, and a refresh
\* belongs to the session of the token presented, as long as that is stored.
SessionsBegun ==
    /\ \A t \in StoredTokens : tokens[tokens[t].session] # None
    /\ \A o \in Reqs : op[o] # None /\ op[o].session # None =>
           tokens[op[o].session] # None
    /\ \A o \in Reqs : op[o] # None /\ op[o].kind = "claim" =>
           /\ tokens[op[o].token] # None
           /\ op[o].token \in StoredTokens => tokens[op[o].token].session = op[o].session

IInv == Typed /\ SessionsBegun /\ RotationKept

\* What is left of the tokens is what they were, or revoked.
Fading == \A t \in TokenIds :
    /\ tokens[t] # None <=> tokens'[t] # None
    /\ t \in StoredTokens' =>
          /\ t \in StoredTokens /\ tokens'[t].session = tokens[t].session
          /\ tokens[t].revoked => tokens'[t].revoked

\* Requests stay as they are, end, or sign in.
Apart == \A o \in Reqs :
    \/ op'[o] \in {op[o], None}
    \/ op'[o].session = None /\ op'[o].kind # "claim"

LEMMA Holdings ==
    ASSUME IInv
    PROVE  /\ \A t \in StoredTokens : tokens[t] \in Token /\ tokens[t].session \in TokenIds
           /\ \A o \in Reqs : op[o] # None => op[o] \in Op
           /\ \A o \in Reqs : op[o] # None /\ op[o].session # None =>
                  op[o].session \in TokenIds
           /\ \A o \in Reqs : op[o] # None /\ op[o].kind \in {"claim", "family"} =>
                  op[o].token \in TokenIds
<1>1. \A t \in StoredTokens : tokens[t] \in Token
      BY DEF IInv, Typed, TypeOK, StoredTokens, Live
<1>2. \A o \in Reqs : op[o] # None => op[o] \in Op /\ Equipped(op[o])
      BY DEF IInv, Typed, OpTyped
<1> QED  BY <1>1, <1>2 DEF Token, Op, Equipped

\* A step that opens no session and issues nothing of one.
LEMMA ApartStep ==
    ASSUME IInv, Typed', Fading, Apart
    PROVE  IInv' /\ \A s \in TokenIds : Ended(s) => Ended(s)'
<1>1. \A t \in StoredTokens' : tokens'[tokens'[t].session] # None
      BY Holdings DEF IInv, SessionsBegun, Fading, StoredTokens
<1>2. \A o \in Reqs : op'[o] # None /\ op'[o].session # None =>
          tokens'[op'[o].session] # None
      BY Holdings DEF IInv, SessionsBegun, Fading, Apart
<1>3. \A o \in Reqs : op'[o] # None /\ op'[o].kind = "claim" =>
          /\ tokens'[op'[o].token] # None
          /\ op'[o].token \in StoredTokens' => tokens'[op'[o].token].session = op'[o].session
      BY Holdings DEF IInv, SessionsBegun, Fading, Apart
<1>4. \A s \in TokenIds : GoodTokens(s)' \subseteq GoodTokens(s)
      BY DEF Fading, GoodTokens, StoredTokens
<1>5. \A s \in TokenIds : Issuing(s)' \subseteq Issuing(s)
      BY AbsentAssumption DEF Apart, Issuing
<1>6. RotationKept'
      BY <1>4, <1>5 DEF IInv, RotationKept
<1>7. \A s \in TokenIds : Ended(s) => Ended(s)'
      BY <1>4, <1>5 DEF Ended, Fading
<1> QED  BY <1>1, <1>2, <1>3, <1>6, <1>7 DEF IInv, SessionsBegun

\* A request to sign in that goes on keeps away from the sessions there are.
LEMMA SigningApart ==
    ASSUME IInv, NEW o \in Reqs,
           \/ \E p \in Identities : SignIn(o, p)
           \/ FindByEmail(o) \/ Refetch(o)
           \/ UpdateMatched(o) \/ LinkByEmail(o) \/ CreateUser(o) \/ LoseOp(o)
    PROVE  Apart /\ UNCHANGED tokens
<1>1. op \in [Reqs -> Op \cup {None}]
      BY DEF IInv, Typed, TypeOK
<1>2. op[o] # None /\ op[o].kind \in Signing => op[o].session = None
      BY DEF IInv, Typed, OpTyped, Equipped
<1>3. ASSUME Close(o)
      PROVE  Apart
      BY <1>1, <1>3 DEF Close, Apart
<1>4. ASSUME op[o] # None, op[o].kind \in Signing, NEW r, r.session = op[o].session,
             r.kind # "claim", op' = [op EXCEPT ![o] = r]
      PROVE  Apart
      BY <1>1, <1>2, <1>4 DEF Apart
<1>5. ASSUME op[o] # None, op[o].kind \in Signing, NEW kind \in {"create", "refetch"},
             Step(o, kind)
      PROVE  Apart
      BY <1>1, <1>4, <1>5 DEF Step, Op
<1>6. ASSUME op[o] # None, op[o].kind \in Signing, NEW u, SignedIn(o, u)
      PROVE  Apart
  <2> DEFINE r == [op[o] EXCEPT !.kind = "issue", !.user = u, !.row = None]
  <2>1. op[o] \in Op
        BY <1>1, <1>6
  <2>2. r.session = op[o].session /\ r.kind = "issue"
        BY <2>1 DEF Op
  <2>3. op' = [op EXCEPT ![o] = r]
        BY <1>1, <1>6 DEF SignedIn
  <2> HIDE DEF r
  <2> QED  BY <1>4, <1>6, <2>2, <2>3
<1>7. ASSUME NEW p \in Identities, SignIn(o, p)
      PROVE  Apart
      BY <1>1, <1>7 DEF SignIn, Apart
<1>8. ASSUME FindByEmail(o)
      PROVE  Apart
  <2>1. ASSUME NEW u, op[o].kind = "byEmail", op[o] # None, Found(o, "link", u)
        PROVE  Apart
        BY <1>1, <1>4, <2>1 DEF Found, Op, Signing
  <2> QED  BY <1>5, <1>8, <2>1 DEF FindByEmail, Signing
<1>9. ASSUME Refetch(o) \/ UpdateMatched(o) \/ LinkByEmail(o) \/ CreateUser(o)
      PROVE  Apart
      BY <1>3, <1>5, <1>6, <1>9 DEF Refetch, UpdateMatched, LinkByEmail, CreateUser, Signing
<1>10. UNCHANGED tokens
      BY DEF SignIn, FindByEmail, Refetch, UpdateMatched, LinkByEmail, CreateUser, LoseOp
<1> QED  BY <1>3, <1>7, <1>8, <1>9, <1>10 DEF LoseOp

\* Statements that only take tokens away or revoke them.
LEMMA Revoking ==
    ASSUME IInv,
           \/ \E o \in Reqs : RevokeFamily(o)
           \/ \E t \in TokenIds : Logout(t)
           \/ \E u \in UserIds : DeleteAccount(u)
           \/ \E ts \in SUBSET TokenIds : SweepTokens(ts)
    PROVE  Fading /\ Apart
<1>1. op \in [Reqs -> Op \cup {None}] /\ tokens \in [TokenIds -> Token \cup {None, Gone}]
      BY DEF IInv, Typed, TypeOK
<1> USE IdentityAssumption, AbsentAssumption DEF StoredTokens, Live
<1>2. ASSUME NEW o \in Reqs, RevokeFamily(o)
      PROVE  Fading /\ Apart
  <2>1. Fading
        BY <1>1, <1>2 DEF RevokeFamily, Fading, Token
  <2> QED  BY <1>1, <1>2, <2>1 DEF RevokeFamily, Close, Apart
<1>3. ASSUME NEW t \in TokenIds, Logout(t)
      PROVE  Fading /\ Apart
      BY <1>1, <1>3 DEF Logout, Fading, Apart, Token
<1>4. ASSUME NEW u \in UserIds, DeleteAccount(u)
      PROVE  Fading /\ Apart
      BY <1>1, <1>4 DEF DeleteAccount, Fading, Apart
<1>5. ASSUME NEW ts \in SUBSET TokenIds, SweepTokens(ts)
      PROVE  Fading /\ Apart
      BY <1>1, <1>5 DEF SweepTokens, Fading, Apart
<1> QED  BY <1>2, <1>3, <1>4, <1>5

\* A token is presented: nothing happens to its session yet.
LEMMA ReadStep ==
    ASSUME IInv, Typed', NEW o \in Reqs, NEW t \in TokenIds, RefreshRead(o, t)
    PROVE  IInv' /\ \A s \in TokenIds : Ended(s) => Ended(s)'
<1>1. tokens[t] \in Token /\ t \in StoredTokens /\ tokens[t] # None
      BY Holdings DEF RefreshRead, StoredTokens, Live
<1>2. /\ op'[o].kind = "claim" /\ op'[o].token = t
      /\ op'[o].session = tokens[t].session
      /\ \A q \in Reqs \ {o} : op'[q] = op[q]
      /\ UNCHANGED tokens
      BY DEF RefreshRead, IInv, Typed, TypeOK
<1>3. SessionsBegun'
      BY <1>1, <1>2 DEF IInv, SessionsBegun, StoredTokens, Live
<1>4. \A s \in TokenIds : GoodTokens(s)' = GoodTokens(s)
      BY <1>2 DEF GoodTokens, StoredTokens, Live
<1>5. \A s \in TokenIds : Issuing(s)' \subseteq Issuing(s)
      BY <1>2 DEF Issuing
<1>6. RotationKept'
      BY <1>4, <1>5 DEF IInv, RotationKept
<1>7. \A s \in TokenIds : Ended(s) => Ended(s)'
      BY <1>2, <1>4, <1>5 DEF Ended
<1> QED  BY <1>3, <1>6, <1>7 DEF IInv

\* A token is claimed: it is spent, and the request becomes the only one that
\* issues the next token of its session.
LEMMA ClaimStep ==
    ASSUME IInv, Typed', NEW o \in Reqs, Claim(o)
    PROVE  IInv' /\ \A s \in TokenIds : Ended(s) => Ended(s)'
<1>1. PICK t \in TokenIds : t = op[o].token
      BY Holdings DEF Claim
<1>2. /\ op[o] \in Op /\ t = op[o].token /\ op[o].kind = "claim"
      /\ op \in [Reqs -> Op \cup {None}] /\ tokens \in [TokenIds -> Token \cup {None, Gone}]
      BY <1>1 DEF Claim, IInv, Typed, TypeOK
<1>3. CASE t \in StoredTokens /\ ~tokens[t].revoked
  <2>1. PICK s0 \in TokenIds : s0 = tokens[t].session
        BY <1>3, Holdings
  <2>2. tokens[t] \in Token /\ tokens[t].session = s0 /\ op[o].session = s0
        BY <1>2, <1>3, <2>1, Holdings DEF IInv, SessionsBegun, Claim
  <2>3. /\ tokens' = [tokens EXCEPT ![t].revoked = TRUE]
        /\ op' = [op EXCEPT ![o].kind = "issue"]
        BY <1>2, <1>3 DEF Claim, Step
  <2>4. /\ op'[o] \in Op /\ op'[o].kind = "issue" /\ op'[o].session = s0
        /\ \A q \in Reqs \ {o} : op'[q] = op[q]
        BY <1>2, <2>2, <2>3 DEF Op
  <2>5. /\ tokens'[t] \in Token /\ tokens'[t].revoked /\ tokens'[t].session = s0
        /\ \A u \in TokenIds \ {t} : tokens'[u] = tokens[u]
        BY <1>2, <2>2, <2>3 DEF Token
  <2>6. StoredTokens' = StoredTokens /\ \A u \in TokenIds : tokens'[u] # None <=> tokens[u] # None
        BY <1>3, <2>5, AbsentAssumption DEF StoredTokens, Live
  <2>7. \A u \in StoredTokens : tokens'[u].session = tokens[u].session
        BY <2>2, <2>5 DEF StoredTokens
  <2>8. SessionsBegun'
        BY <1>2, <2>2, <2>4, <2>6, <2>7, Holdings DEF IInv, SessionsBegun, Claim
  <2>9. t \in GoodTokens(s0)
        BY <1>3, <2>2 DEF GoodTokens
  <2>10. \A s \in TokenIds : GoodTokens(s)' \subseteq GoodTokens(s) \ {t}
        BY <2>5, <2>6, <2>7 DEF GoodTokens, StoredTokens
  <2>11. \A s \in TokenIds \ {s0} : Issuing(s)' \subseteq Issuing(s)
        BY <2>4 DEF Issuing
  <2>12. Issuing(s0)' \subseteq Issuing(s0) \cup {o}
        BY <2>4 DEF Issuing
  <2>13. GoodTokens(s0)' = {} /\ Issuing(s0) = {}
    <3>1. /\ \A t1, t2 \in GoodTokens(s0) : t1 = t2
          /\ GoodTokens(s0) = {} \/ Issuing(s0) = {}
          BY <2>2 DEF IInv, RotationKept
    <3>2. GoodTokens(s0)' \subseteq GoodTokens(s0) \ {t}
          BY <2>2, <2>10
    <3> QED  BY <2>9, <3>1, <3>2
  <2>14. RotationKept'
    <3>1. ASSUME NEW s \in TokenIds, s # s0
          PROVE  /\ \A t1, t2 \in GoodTokens(s)' : t1 = t2
                 /\ \A o1, o2 \in Issuing(s)' : o1 = o2
                 /\ GoodTokens(s)' = {} \/ Issuing(s)' = {}
      <4>1. GoodTokens(s)' \subseteq GoodTokens(s) /\ Issuing(s)' \subseteq Issuing(s)
            BY <2>10, <2>11, <3>1
      <4>2. /\ \A t1, t2 \in GoodTokens(s) : t1 = t2
            /\ \A o1, o2 \in Issuing(s) : o1 = o2
            /\ GoodTokens(s) = {} \/ Issuing(s) = {}
            BY DEF IInv, RotationKept
      <4> QED  BY <4>1, <4>2
    <3>2. \A o1, o2 \in Issuing(s0)' : o1 = o2
          BY <2>12, <2>13
    <3> QED  BY <2>13, <3>1, <3>2 DEF RotationKept
  <2>15. \A s \in TokenIds : Ended(s) => Ended(s)'
        BY <2>6, <2>9, <2>10, <2>11 DEF Ended
  <2> QED  BY <2>8, <2>14, <2>15 DEF IInv
<1>4. CASE ~(t \in StoredTokens /\ ~tokens[t].revoked)
  <2>1. UNCHANGED tokens /\ op' = [op EXCEPT ![o].kind = "family"]
        BY <1>2, <1>4 DEF Claim, Step
  <2>2. /\ op'[o].kind = "family" /\ op'[o].session = op[o].session
        /\ \A q \in Reqs \ {o} : op'[q] = op[q]
        BY <1>2, <2>1 DEF Op
  <2>3. SessionsBegun'
        BY <2>1, <2>2 DEF IInv, SessionsBegun, StoredTokens, Live, Claim
  <2>4. \A s \in TokenIds : GoodTokens(s)' = GoodTokens(s)
        BY <2>1 DEF GoodTokens, StoredTokens, Live
  <2>5. \A s \in TokenIds : Issuing(s)' \subseteq Issuing(s)
        BY <2>2 DEF Issuing
  <2>6. RotationKept'
        BY <2>4, <2>5 DEF IInv, RotationKept
  <2>7. \A s \in TokenIds : Ended(s) => Ended(s)'
        BY <2>1, <2>4, <2>5 DEF Ended
  <2> QED  BY <2>3, <2>6, <2>7 DEF IInv
<1> QED  BY <1>3, <1>4

\* The next token of a session, or the first of a new one, is issued.
LEMMA IssueStep ==
    ASSUME IInv, Typed', NEW o \in Reqs, IssueTokens(o)
    PROVE  IInv' /\ \A s \in TokenIds : Ended(s) => Ended(s)'
<1>1. /\ op[o] \in Op /\ op[o].kind = "issue" /\ op[o] # None
      /\ op \in [Reqs -> Op \cup {None}] /\ tokens \in [TokenIds -> Token \cup {None, Gone}]
      BY DEF IssueTokens, IInv, Typed, TypeOK
<1>2. op'[o] = None /\ \A q \in Reqs \ {o} : op'[q] = op[q]
      BY <1>1 DEF IssueTokens, Close
<1>3. CASE UNCHANGED tokens
      BY <1>2, <1>3, ApartStep DEF Fading, Apart, StoredTokens, Live
<1>4. ASSUME op[o].user \in Accounts, NEW t \in TokenIds, tokens[t] = None,
             tokens' = [tokens EXCEPT ![t] =
                     [user |-> op[o].user, expiresAt |-> now + RefreshTTL,
                      revoked |-> FALSE,
                      session |-> IF op[o].session = None THEN t ELSE op[o].session]]
      PROVE  IInv' /\ \A s \in TokenIds : Ended(s) => Ended(s)'
  <2>1. PICK s0 \in TokenIds : s0 = IF op[o].session = None THEN t ELSE op[o].session
        BY <1>1, Holdings
  <2>2. now + RefreshTTL \in Nat
        BY IdentityAssumption DEF IInv, Typed, TypeOK
  <2>3. /\ tokens'[t] = [user |-> op[o].user, expiresAt |-> now + RefreshTTL,
                         revoked |-> FALSE, session |-> s0]
        /\ \A u \in TokenIds \ {t} : tokens'[u] = tokens[u]
    <3> DEFINE next == [user |-> op[o].user, expiresAt |-> now + RefreshTTL,
                        revoked |-> FALSE, session |-> s0]
    <3>1. tokens' = [tokens EXCEPT ![t] = next]
          BY <1>4, <2>1
    <3> HIDE DEF next
    <3>2. tokens'[t] = next /\ \A u \in TokenIds \ {t} : tokens'[u] = tokens[u]
          BY <1>1, <3>1
    <3> QED  BY <3>2 DEF next
  <2>4. tokens'[t] \in Token /\ tokens'[t].session = s0
    <3>1. op[o].user \in UserIds
          BY <1>4 DEF Accounts
    <3>2. [user |-> op[o].user, expiresAt |-> now + RefreshTTL,
           revoked |-> FALSE, session |-> s0] \in Token
          BY <2>2, <3>1 DEF Token
    <3> QED  BY <2>3, <3>2
  <2>5. tokens'[t] # None /\ tokens'[t] # Gone
        BY <2>4, AbsentAssumption
  <2>6. StoredTokens' = StoredTokens \cup {t}
        BY <1>4, <2>3, <2>5 DEF StoredTokens, Live
  <2>7. \A u \in TokenIds : tokens[u] # None => u # t /\ tokens'[u] = tokens[u]
        BY <1>4, <2>3
  <2>8. tokens'[s0] # None
        BY <1>1, <2>1, <2>5, <2>7 DEF IInv, SessionsBegun
  <2>9. SessionsBegun'
    <3>1. \A u \in StoredTokens' : tokens'[tokens'[u].session] # None
      <4>1. ASSUME NEW u \in StoredTokens
            PROVE  tokens'[tokens'[u].session] # None
            BY <2>7, Holdings DEF IInv, SessionsBegun, StoredTokens, Live
      <4> QED  BY <2>4, <2>6, <2>8, <4>1
    <3>2. \A q \in Reqs : op'[q] # None /\ op'[q].session # None =>
              tokens'[op'[q].session] # None
          BY <1>2, <2>7, Holdings DEF IInv, SessionsBegun
    <3>3. \A q \in Reqs : op'[q] # None /\ op'[q].kind = "claim" =>
              /\ tokens'[op'[q].token] # None
              /\ op'[q].token \in StoredTokens' =>
                     tokens'[op'[q].token].session = op'[q].session
          BY <1>2, <2>6, <2>7, Holdings DEF IInv, SessionsBegun
    <3> QED  BY <3>1, <3>2, <3>3 DEF SessionsBegun
  <2>10. GoodTokens(s0) = {} /\ Issuing(s0) \subseteq {o}
    <3>1. CASE op[o].session = None
      <4>1. s0 = t
            BY <2>1, <3>1
      <4>2. \A u \in StoredTokens : tokens[u].session # t
            BY <1>4 DEF IInv, SessionsBegun
      <4>3. \A q \in Reqs : op[q] # None => op[q].session # t
            BY <1>4, AbsentAssumption DEF IInv, SessionsBegun
      <4> QED  BY <4>1, <4>2, <4>3 DEF GoodTokens, Issuing
    <3>2. CASE op[o].session # None
      <4>1. o \in Issuing(s0)
            BY <1>1, <2>1, <3>2 DEF Issuing
      <4> QED  BY <4>1 DEF IInv, RotationKept
    <3> QED  BY <3>1, <3>2
  <2>11. GoodTokens(s0)' \subseteq {t}
        BY <2>3, <2>6, <2>10 DEF GoodTokens, StoredTokens
  <2>12. Issuing(s0)' = {}
        BY <1>2, <2>10 DEF Issuing
  <2>13. \A s \in TokenIds \ {s0} : /\ GoodTokens(s)' \subseteq GoodTokens(s)
                                   /\ Issuing(s)' \subseteq Issuing(s)
    <3>1. \A s \in TokenIds \ {s0} : GoodTokens(s)' \subseteq GoodTokens(s)
          BY <2>3, <2>4, <2>6 DEF GoodTokens, StoredTokens
    <3>2. \A s \in TokenIds \ {s0} : Issuing(s)' \subseteq Issuing(s)
          BY <1>2 DEF Issuing
    <3> QED  BY <3>1, <3>2
  <2>14. RotationKept'
    <3>1. ASSUME NEW s \in TokenIds, s # s0
          PROVE  /\ \A t1, t2 \in GoodTokens(s)' : t1 = t2
                 /\ \A o1, o2 \in Issuing(s)' : o1 = o2
                 /\ GoodTokens(s)' = {} \/ Issuing(s)' = {}
      <4>1. /\ \A t1, t2 \in GoodTokens(s) : t1 = t2
            /\ \A o1, o2 \in Issuing(s) : o1 = o2
            /\ GoodTokens(s) = {} \/ Issuing(s) = {}
            BY DEF IInv, RotationKept
      <4>2. GoodTokens(s)' \subseteq GoodTokens(s) /\ Issuing(s)' \subseteq Issuing(s)
            BY <2>13, <3>1
      <4> QED  BY <4>1, <4>2
    <3> QED  BY <2>11, <2>12, <3>1 DEF RotationKept
  <2>15. ASSUME NEW s \in TokenIds, Ended(s)
        PROVE  Ended(s)'
    <3>1. s # s0
          BY <1>1, <1>4, <2>1, <2>15 DEF Ended, Issuing
    <3> QED  BY <2>7, <2>13, <2>15, <3>1 DEF Ended
  <2> QED  BY <2>9, <2>14, <2>15 DEF IInv
<1> QED  BY <1>3, <1>4 DEF IssueTokens

LEMMA RotationStep ==
    ASSUME IInv, [Next]_vars
    PROVE  IInv' /\ \A s \in TokenIds : Ended(s) => Ended(s)'
<1>1. Typed'
      BY TypeStep DEF IInv
<1>2. ASSUME UNCHANGED tokens
      PROVE  Fading
      BY <1>2 DEF Fading, StoredTokens, Live
<1>3. ASSUME NEW o \in Reqs, Handle(o)
      PROVE  IInv' /\ \A s \in TokenIds : Ended(s) => Ended(s)'
  <2>1. CASE IssueTokens(o)
        BY <1>1, <2>1, IssueStep
  <2>2. CASE Claim(o)
        BY <1>1, <2>2, ClaimStep
  <2>3. CASE RevokeFamily(o)
        BY <1>1, <2>3, Revoking, ApartStep
  <2>4. CASE \E t \in TokenIds : RefreshRead(o, t)
        BY <1>1, <2>4, ReadStep
  <2>5. ASSUME \/ \E p \in Identities : SignIn(o, p)
               \/ FindByEmail(o) \/ Refetch(o)
               \/ UpdateMatched(o) \/ LinkByEmail(o) \/ CreateUser(o) \/ LoseOp(o)
        PROVE  IInv' /\ \A s \in TokenIds : Ended(s) => Ended(s)'
        BY <1>1, <1>2, <2>5, SigningApart, ApartStep
  <2> QED  BY <1>3, <2>1, <2>2, <2>3, <2>4, <2>5 DEF Handle
<1>4. ASSUME \/ \E t \in TokenIds : Logout(t)
             \/ \E u \in UserIds : DeleteAccount(u)
             \/ \E ts \in SUBSET TokenIds : SweepTokens(ts)
      PROVE  IInv' /\ \A s \in TokenIds : Ended(s) => Ended(s)'
      BY <1>1, <1>4, Revoking, ApartStep
<1>5. ASSUME UNCHANGED <<tokens, op>>
      PROVE  IInv' /\ \A s \in TokenIds : Ended(s) => Ended(s)'
      BY <1>1, <1>2, <1>5, ApartStep DEF Apart
<1>6. CASE \E u \in UserIds, n \in Names : ChooseName(u, n)
      BY <1>5, <1>6 DEF ChooseName
<1>7. CASE Tick \/ UNCHANGED vars
      BY <1>5, <1>7 DEF Tick, vars
<1> QED  BY <1>3, <1>4, <1>6, <1>7 DEF Next

\* The compare-and-swap on revokedAt: of the requests that present a refresh
\* token, however many there are and whatever else runs, one gets the next
\* token of the session, and the session never has two that are good.
THEOREM Rotation == Spec => []RotationKept
<1>1. Init => IInv
      BY IdentityAssumption DEF Init, IInv, Typed, TypeOK, OpTyped, SessionsBegun,
         RotationKept, GoodTokens, Issuing, StoredTokens, Live
<1>2. IInv /\ [Next]_vars => IInv'
      BY RotationStep
<1>3. IInv => RotationKept
      BY DEF IInv
<1> QED  BY <1>1, <1>2, <1>3, PTL DEF Spec

\* A session whose tokens are all spent, revoked or gone, with no refresh under
\* way that has claimed one, never has a good token again.
THEOREM SessionsEnd == Spec => EndedForGood
<1>1. Init => IInv
      BY IdentityAssumption DEF Init, IInv, Typed, TypeOK, OpTyped, SessionsBegun,
         RotationKept, GoodTokens, Issuing, StoredTokens, Live
<1>2. IInv /\ [Next]_vars => IInv'
      BY RotationStep
<1>3. IInv /\ [Next]_vars => [\A s \in TokenIds : Ended(s) => Ended(s)']_vars
      BY RotationStep
<1> QED  BY <1>1, <1>2, <1>3, PTL DEF Spec, EndedForGood

-----------------------------------------------------------------------------
(* Names                                                                   *)

\* The row of u keeps what matters, and the requests that begin to write it
\* have read it as it is.
LEMMA NameKept ==
    ASSUME NEW u \in UserIds, Settled(u), u \in Accounts',
           users'[u].name = users[u].name, users'[u].nameChosen = users[u].nameChosen,
           \A o \in Reqs : \/ op'[o] \in {op[o], None}
                          \/ op'[o].kind \notin {"update", "link"}
                          \/ op'[o].row = users[u] \/ op'[o].user # u
    PROVE  Settled(u)' /\ users'[u].name = users[u].name
BY AbsentAssumption DEF Settled

\* What a sign-in does to a settled name: nothing.
LEMMA SignInKeepsName ==
    ASSUME Typed, NEW u \in UserIds, Settled(u), NEW o \in Reqs,
           UpdateMatched(o) \/ LinkByEmail(o) \/ CreateUser(o)
    PROVE  /\ u \in Accounts' /\ users'[u].name = users[u].name
           /\ users'[u].nameChosen = users[u].nameChosen
<1>1. /\ users[u] \in User /\ users[u] # None /\ users[u] # Gone
      /\ users \in [UserIds -> User \cup {None, Gone}]
      BY DEF Settled, Accounts, Live, Typed, TypeOK
<1>2. CASE UNCHANGED users
      BY <1>1, <1>2 DEF Accounts, Live
<1>3. ASSUME UpdateMatched(o) \/ LinkByEmail(o), op[o].user = u
      PROVE  NameFrom(o) = users[u].name
  <2>1. op[o] # None /\ op[o].kind \in {"update", "link"}
        BY <1>3 DEF UpdateMatched, LinkByEmail
  <2> QED  BY <1>3, <2>1 DEF Settled, NameFrom
<1>4. CASE UpdateMatched(o)
  <2>1. /\ op[o] # None /\ op[o].kind = "update" /\ op[o].who \in Identities
        /\ NameFrom(o) \in AllNames
        BY <1>4, NameFromType DEF UpdateMatched
  <2>2. CASE op[o].user = u
    <3>1. op[o].who.provider = "google"
      <4>1. op[o].row.name # None
            BY <2>1, <2>2 DEF Settled
      <4> QED  BY <2>1, <4>1, IdentityType DEF Typed, OpTyped, Equipped, Providers
    <3>2. UNCHANGED users \/
          users' = [users EXCEPT ![u].email = op[o].who.email, ![u].name = NameFrom(o)]
          BY <1>4, <2>2, <3>1 DEF UpdateMatched
    <3>3. op[o].who.email \in Emails
          BY <2>1, <3>1, IdentityType
    <3>4. users'[u] \in User /\ users'[u].name = users[u].name
          /\ users'[u].nameChosen = users[u].nameChosen
          BY <1>1, <1>3, <1>4, <2>1, <2>2, <3>2, <3>3 DEF User
    <3> QED  BY <3>4, AbsentAssumption DEF Accounts, Live
  <2>3. CASE op[o].user # u
    <3>1. users'[u] = users[u]
          BY <1>1, <1>4, <2>3 DEF UpdateMatched
    <3> QED  BY <1>1, <3>1 DEF Accounts, Live
  <2> QED  BY <2>2, <2>3
<1>5. CASE LinkByEmail(o)
  <2>1. /\ op[o] # None /\ op[o].who \in Identities /\ NameFrom(o) \in AllNames
        BY <1>5, NameFromType DEF LinkByEmail
  <2>2. \/ UNCHANGED users
        \/ users' = [users EXCEPT ![op[o].user][op[o].who.provider] = op[o].who.sub,
                                 ![op[o].user].name = NameFrom(o)]
        BY <1>5 DEF LinkByEmail
  <2>3. CASE op[o].user = u /\ ~UNCHANGED users
    <3>1. op[o].who.provider \in {"google", "apple"} /\ op[o].who.sub \in Subs
          BY <2>1, IdentityType DEF Providers
    <3>2. users' = [users EXCEPT ![u][op[o].who.provider] = op[o].who.sub,
                                 ![u].name = NameFrom(o)]
          BY <2>2, <2>3
    <3>3. users'[u] \in User /\ users'[u].name = users[u].name
          /\ users'[u].nameChosen = users[u].nameChosen
          BY <1>1, <1>3, <1>5, <2>1, <2>3, <3>1, <3>2 DEF User
    <3> QED  BY <3>3, AbsentAssumption DEF Accounts, Live
  <2>4. CASE op[o].user # u
    <3>1. users'[u] = users[u]
          BY <1>1, <2>2, <2>4
    <3> QED  BY <1>1, <3>1 DEF Accounts, Live
  <2> QED  BY <1>2, <2>3, <2>4
<1>6. CASE CreateUser(o)
  <2>1. users'[u] = users[u]
        BY <1>1, <1>6 DEF CreateUser
  <2> QED  BY <1>1, <2>1 DEF Accounts, Live
<1> QED  BY <1>4, <1>5, <1>6

\* Which requests begin to write a row: those that have just read it.
Begun(u) ==
    \A o \in Reqs : \/ op'[o] \in {op[o], None}
                   \/ op'[o].kind \notin {"update", "link"}
                   \/ op'[o].row = users[u] \/ op'[o].user # u

LEMMA BegunStep ==
    ASSUME Typed, NEW o \in Reqs, Handle(o), NEW u \in UserIds
    PROVE  Begun(u)
<1>1. op \in [Reqs -> Op \cup {None}]
      BY DEF Typed, TypeOK
<1>2. ASSUME NEW r, op' = [op EXCEPT ![o] = r],
             \/ r \in {op[o], None} \/ r.kind \notin {"update", "link"}
             \/ r.row = users[u] \/ r.user # u
      PROVE  Begun(u)
      BY <1>1, <1>2 DEF Begun
<1>3. CASE Close(o)
      BY <1>2, <1>3 DEF Close
<1>4. ASSUME op[o] # None, NEW kind \in {"create", "refetch", "issue", "family"},
             Step(o, kind)
      PROVE  Begun(u)
      BY <1>1, <1>4 DEF Step, Op, Begun
<1>5. ASSUME op[o] # None, NEW v, SignedIn(o, v)
      PROVE  Begun(u)
  <2> DEFINE r == [op[o] EXCEPT !.kind = "issue", !.user = v, !.row = None]
  <2>1. r.kind = "issue"
        BY <1>1, <1>5 DEF Op
  <2>2. op' = [op EXCEPT ![o] = r]
        BY <1>1, <1>5 DEF SignedIn
  <2> HIDE DEF r
  <2> QED  BY <1>2, <2>1, <2>2
<1>6. ASSUME NEW p \in Identities, SignIn(o, p)
      PROVE  Begun(u)
  <2> DEFINE start == [kind |-> "issue", who |-> p, user |-> None, row |-> None,
                       token |-> None, session |-> None]
  <2>1. CASE BySub(p) = {}
    <3>1. op' = [op EXCEPT ![o] = [start EXCEPT !.kind = "byEmail"]]
          BY <1>6, <2>1 DEF SignIn
    <3> QED  BY <1>2, <3>1
  <2>2. ASSUME NEW v \in BySub(p),
               op' = [op EXCEPT ![o] =
                   IF OutOfDate(p, users[v])
                   THEN [start EXCEPT !.kind = "update", !.user = v, !.row = users[v]]
                   ELSE [start EXCEPT !.user = v]]
        PROVE  Begun(u)
    <3>1. /\ [start EXCEPT !.kind = "update", !.user = v, !.row = users[v]].user = v
          /\ [start EXCEPT !.kind = "update", !.user = v, !.row = users[v]].row = users[v]
          /\ [start EXCEPT !.user = v].kind = "issue"
          OBVIOUS
    <3>2. CASE OutOfDate(p, users[v])
      <4> DEFINE r == [start EXCEPT !.kind = "update", !.user = v, !.row = users[v]]
      <4>1. op' = [op EXCEPT ![o] = r]
            BY <2>2, <3>2
      <4>2. r.row = users[u] \/ r.user # u
            BY <3>1
      <4> HIDE DEF r
      <4> QED  BY <1>2, <4>1, <4>2
    <3>3. CASE ~OutOfDate(p, users[v])
      <4> DEFINE r == [start EXCEPT !.user = v]
      <4>1. op' = [op EXCEPT ![o] = r]
            BY <2>2, <3>3
      <4>2. r.kind \notin {"update", "link"}
            BY <3>1
      <4> HIDE DEF r
      <4> QED  BY <1>2, <4>1, <4>2
    <3> QED  BY <3>2, <3>3
  <2> QED  BY <1>6, <2>1, <2>2 DEF SignIn
<1>7. ASSUME FindByEmail(o)
      PROVE  Begun(u)
  <2>1. ASSUME NEW v, op[o] # None, Found(o, "link", v)
        PROVE  Begun(u)
    <3> DEFINE r == [op[o] EXCEPT !.kind = "link", !.user = v, !.row = users[v]]
    <3>1. r.user = v /\ r.row = users[v]
          BY <1>1, <2>1 DEF Op
    <3>2. op' = [op EXCEPT ![o] = r]
          BY <1>1, <2>1 DEF Found
    <3> HIDE DEF r
    <3> QED  BY <1>2, <3>1, <3>2
  <2> QED  BY <1>4, <1>7, <2>1 DEF FindByEmail
<1>8. ASSUME NEW t \in TokenIds, RefreshRead(o, t)
      PROVE  Begun(u)
      BY <1>1, <1>8 DEF RefreshRead, Begun
<1>9. CASE UpdateMatched(o)
      BY <1>3, <1>5, <1>9 DEF UpdateMatched
<1>10. CASE LinkByEmail(o)
  <2>1. op[o] # None /\ (Close(o) \/ SignedIn(o, op[o].user))
        BY <1>10 DEF LinkByEmail
  <2> QED  BY <1>3, <1>5, <2>1
<1>11. CASE CreateUser(o) \/ Refetch(o)
       BY <1>3, <1>4, <1>5, <1>11 DEF CreateUser, Refetch
<1>12. CASE Claim(o)
  <2>1. op[o] # None /\ (Step(o, "issue") \/ Step(o, "family"))
        BY <1>12 DEF Claim
  <2> QED  BY <1>4, <2>1
<1>13. CASE IssueTokens(o) \/ RevokeFamily(o) \/ LoseOp(o)
       BY <1>3, <1>13 DEF IssueTokens, RevokeFamily, LoseOp
<1> QED  BY <1>6, <1>7, <1>8, <1>9, <1>10, <1>11, <1>12, <1>13 DEF Handle

LEMMA NameStep ==
    ASSUME Typed, [Next]_vars, NEW u \in UserIds, Settled(u), users'[u] # Gone
    PROVE  Settled(u)' /\ users'[u].name = users[u].name
<1>1. /\ users[u] \in User /\ users[u] # None /\ users[u] # Gone
      /\ users \in [UserIds -> User \cup {None, Gone}]
      BY DEF Settled, Accounts, Live, Typed, TypeOK
<1>2. ASSUME users'[u] = users[u], Begun(u)
      PROVE  Settled(u)' /\ users'[u].name = users[u].name
  <2>1. u \in Accounts'
        BY <1>1, <1>2 DEF Accounts, Live
  <2> QED  BY <1>2, <2>1, NameKept DEF Begun
<1>3. ASSUME UNCHANGED op
      PROVE  Begun(u)
      BY <1>3 DEF Begun
<1>4. ASSUME NEW o \in Reqs, Handle(o)
      PROVE  Settled(u)' /\ users'[u].name = users[u].name
  <2>1. Begun(u)
        BY <1>4, BegunStep
  <2>2. CASE UpdateMatched(o) \/ LinkByEmail(o) \/ CreateUser(o)
        BY <2>1, <2>2, SignInKeepsName, NameKept DEF Begun
  <2>3. CASE UNCHANGED users
        BY <1>2, <2>1, <2>3
  <2> QED  BY <1>4, <2>2, <2>3
         DEF Handle, SignIn, RefreshRead, FindByEmail, Refetch, IssueTokens, Claim,
             RevokeFamily, LoseOp
<1>5. ASSUME NEW t \in TokenIds, Logout(t)
      PROVE  Settled(u)' /\ users'[u].name = users[u].name
      BY <1>2, <1>3, <1>5 DEF Logout
<1>6. ASSUME NEW v \in UserIds, NEW n \in Names, ChooseName(v, n)
      PROVE  Settled(u)' /\ users'[u].name = users[u].name
  <2>1. v # u /\ users' = [users EXCEPT ![v].name = n, ![v].nameChosen = TRUE]
        /\ UNCHANGED op
        BY <1>6 DEF ChooseName, Settled
  <2>2. users'[u] = users[u]
        BY <1>1, <2>1
  <2> QED  BY <1>2, <1>3, <2>1, <2>2
<1>7. ASSUME NEW v \in UserIds, DeleteAccount(v)
      PROVE  Settled(u)' /\ users'[u].name = users[u].name
  <2>1. users'[u] = users[u] /\ UNCHANGED op
        BY <1>1, <1>7 DEF DeleteAccount
  <2> QED  BY <1>2, <1>3, <2>1
<1>8. ASSUME NEW ts \in SUBSET TokenIds, SweepTokens(ts)
      PROVE  Settled(u)' /\ users'[u].name = users[u].name
      BY <1>2, <1>3, <1>8 DEF SweepTokens
<1>9. CASE Tick \/ UNCHANGED vars
      BY <1>2, <1>3, <1>9 DEF Tick, vars
<1> QED  BY <1>4, <1>5, <1>6, <1>7, <1>8, <1>9 DEF Next

\* "There is no rename": no sign-in, link or second choice writes a name that
\* was chosen and that the sign-ins under way have read.
THEOREM NamesSettle == Spec => NameSettles
<1>1. Init => Typed
      BY IdentityAssumption DEF Init, Typed, TypeOK, OpTyped
<1>2. Typed /\ [Next]_vars => Typed'
      BY TypeStep
<1>3. Typed /\ [Next]_vars =>
          [\A u \in UserIds : Settled(u) /\ users'[u] # Gone
                             => Settled(u)' /\ users'[u].name = users[u].name]_vars
      BY NameStep
<1> QED  BY <1>1, <1>2, <1>3, PTL DEF Spec, NameSettles

-----------------------------------------------------------------------------
(* Sign-ins with Google                                                    *)

\* No two accounts carry one Google identity, and the email of an account that
\* carries one is an email of that identity.
Carried ==
    /\ \A u, v \in Accounts :
           users[u].google # None /\ users[u].google = users[v].google => u = v
    /\ \A u \in Accounts : users[u].google # None =>
           \E p \in Identities : /\ p.provider = "google" /\ p.sub = users[u].google
                                 /\ p.email = users[u].email

\* The row a sign-in with Google has found carries its identity, or, before it is
\* linked, no other and the identity's email; unless it was deleted since.
Fits(r, table) ==
    r # None /\ r.who # None /\ r.user \in UserIds =>
        /\ table[r.user] # None
        /\ r.who.provider = "google" /\ Live(table, r.user) =>
               \/ table[r.user].google = r.who.sub
               \/ /\ r.kind = "link" /\ table[r.user].google = None
                  /\ table[r.user].email = r.who.email

LinkInv == Carried /\ \A o \in Reqs : Fits(op[o], users)

\* A row that carries an identity keeps it, and one that gets one, while it carries
\* none, had the identity's email.
Grown ==
    \A u \in UserIds :
        /\ users[u] # None => users'[u] # None
        /\ users[u] # None /\ Live(users', u) =>
               /\ Live(users, u)
               /\ users[u].google # None => users'[u].google = users[u].google
               /\ users[u].google = None /\ users'[u].google = None
                  => users'[u].email = users[u].email
               /\ users[u].google = None /\ users'[u].google # None =>
                      \E p \in Identities : /\ p.provider = "google"
                                            /\ p.sub = users'[u].google
                                            /\ p.email = users[u].email

LEMMA FitsKept ==
    ASSUME AddressesKept, Grown, NEW r, r \in Op \cup {None}, Fits(r, users)
    PROVE  Fits(r, users')
<1> SUFFICES ASSUME r # None, r.who # None, r.user \in UserIds
             PROVE  /\ users'[r.user] # None
                    /\ r.who.provider = "google" /\ Live(users', r.user) =>
                           \/ users'[r.user].google = r.who.sub
                           \/ /\ r.kind = "link" /\ users'[r.user].google = None
                              /\ users'[r.user].email = r.who.email
    BY DEF Fits
<1>1. users[r.user] # None /\ users'[r.user] # None /\ r.who \in Identities
      BY DEF Fits, Grown, Op
<1>2. ASSUME r.who.provider = "google", Live(users', r.user)
      PROVE  \/ users'[r.user].google = r.who.sub
             \/ /\ r.kind = "link" /\ users'[r.user].google = None
                /\ users'[r.user].email = r.who.email
  <2>1. Live(users, r.user) /\ r.who.sub # None
        BY <1>1, <1>2, IdentityAssumption DEF Grown
  <2>2. CASE users[r.user].google = r.who.sub
        BY <1>1, <1>2, <2>1, <2>2 DEF Grown
  <2>3. CASE /\ r.kind = "link" /\ users[r.user].google = None
             /\ users[r.user].email = r.who.email
    <3>1. CASE users'[r.user].google = None
          BY <1>1, <1>2, <2>3, <3>1 DEF Grown
    <3>2. CASE users'[r.user].google # None
      <4>1. PICK p \in Identities : /\ p.provider = "google" /\ p.sub = users'[r.user].google
                                    /\ p.email = r.who.email
            BY <1>1, <1>2, <2>3, <3>2 DEF Grown
      <4> QED  BY <1>1, <1>2, <4>1 DEF AddressesKept
    <3> QED  BY <3>1, <3>2
  <2> QED  BY <1>2, <2>1, <2>2, <2>3 DEF Fits
<1> QED  BY <1>1, <1>2

\* One request moves on while the rows keep what they carry.
LEMMA LinkMoves ==
    ASSUME AddressesKept, Typed, LinkInv, Grown, Carried', NEW o \in Reqs, NEW r,
           op' = [op EXCEPT ![o] = r], Fits(r, users')
    PROVE  LinkInv'
<1>1. op'[o] = r /\ \A q \in Reqs \ {o} : op'[q] = op[q]
      BY DEF Typed, TypeOK
<1>2. \A q \in Reqs : op[q] \in Op \cup {None} /\ Fits(op[q], users)
      BY DEF Typed, TypeOK, LinkInv
<1>3. \A q \in Reqs : Fits(op[q], users')
      BY <1>2, FitsKept
<1> QED  BY <1>1, <1>3 DEF LinkInv

\* A step that leaves the rows alone, and one that leaves the requests alone.
LEMMA RowsStay ==
    ASSUME Typed, LinkInv, UNCHANGED users
    PROVE  Grown /\ Carried'
BY DEF Grown, Carried, LinkInv, Accounts, Live

LEMMA OnlyRows ==
    ASSUME AddressesKept, Typed, LinkInv, Grown, Carried', UNCHANGED op
    PROVE  LinkInv'
<1>1. \A q \in Reqs : op[q] \in Op \cup {None} /\ Fits(op[q], users)
      BY DEF Typed, TypeOK, LinkInv
<1>2. \A q \in Reqs : Fits(op[q], users')
      BY <1>1, FitsKept
<1> QED  BY <1>2 DEF LinkInv

\* A sign-in that has its row.
LEMMA SignedInFits ==
    ASSUME AddressesKept, Typed, LinkInv, Grown, Carried', NEW o \in Reqs, op[o] # None,
           NEW u, u \in UserIds, SignedIn(o, u), users'[u] # None,
           op[o].who # None /\ op[o].who.provider = "google" /\ Live(users', u)
               => users'[u].google = op[o].who.sub
    PROVE  LinkInv'
<1> DEFINE r == [op[o] EXCEPT !.kind = "issue", !.user = u, !.row = None]
<1>1. op' = [op EXCEPT ![o] = r] /\ op[o] \in Op
      BY DEF SignedIn, Typed, TypeOK
<1>2. r.who = op[o].who /\ r.user = u
      BY <1>1 DEF Op
<1> HIDE DEF r
<1>3. Fits(r, users')
      BY <1>2 DEF Fits
<1> QED  BY <1>1, <1>3, LinkMoves

\* A request that ends, or goes on to a statement that needs no row.
LEMMA ClosesFits ==
    ASSUME AddressesKept, Typed, LinkInv, Grown, Carried', NEW o \in Reqs, Close(o)
    PROVE  LinkInv'
BY LinkMoves DEF Close, Fits

LEMMA StepFits ==
    ASSUME AddressesKept, Typed, LinkInv, UNCHANGED users, NEW o \in Reqs, op[o] # None,
           op[o].kind \notin {"link"}, NEW kind, Step(o, kind)
    PROVE  LinkInv'
<1> DEFINE r == [op[o] EXCEPT !.kind = kind]
<1>1. op' = [op EXCEPT ![o] = r] /\ op[o] \in Op
      BY DEF Step, Typed, TypeOK
<1>2. r.who = op[o].who /\ r.user = op[o].user
      BY <1>1 DEF Op
<1> HIDE DEF r
<1>3. Fits(op[o], users)
      BY DEF LinkInv
<1>4. Fits(r, users')
      BY <1>2, <1>3 DEF Fits
<1> QED  BY <1>1, <1>4, RowsStay, LinkMoves

\* Statements that read, of the requests that sign in.
LEMMA ReadFits ==
    ASSUME AddressesKept, Typed, LinkInv, NEW o \in Reqs,
           (\E p \in Identities : SignIn(o, p)) \/ FindByEmail(o) \/ Refetch(o)
    PROVE  LinkInv'
<1>1. UNCHANGED users /\ Grown /\ Carried'
      BY RowsStay DEF SignIn, FindByEmail, Refetch
<1>2. ASSUME NEW p \in Identities, SignIn(o, p)
      PROVE  LinkInv'
  <2> DEFINE start == [kind |-> "issue", who |-> p, user |-> None, row |-> None,
                       token |-> None, session |-> None]
  <2>1. CASE BySub(p) = {}
    <3> DEFINE r == [start EXCEPT !.kind = "byEmail"]
    <3>1. op' = [op EXCEPT ![o] = r] /\ r.user = None
          BY <1>2, <2>1 DEF SignIn
    <3> HIDE DEF r
    <3>2. Fits(r, users')
          BY <3>1, AbsentAssumption DEF Fits
    <3> QED  BY <1>1, <3>1, <3>2, LinkMoves
  <2>2. ASSUME NEW u \in BySub(p), NEW r, op' = [op EXCEPT ![o] = r],
               r.who = p, r.user = u
        PROVE  LinkInv'
    <3>1. users[u] # None /\ users[u][p.provider] = p.sub
          BY DEF BySub, Accounts, Live
    <3>2. Fits(r, users')
          BY <1>1, <2>2, <3>1 DEF Fits
    <3> QED  BY <1>1, <2>2, <3>2, LinkMoves
  <2>3. CASE BySub(p) # {}
    <3>1. PICK u \in BySub(p) :
              op' = [op EXCEPT ![o] =
                  IF OutOfDate(p, users[u])
                  THEN [start EXCEPT !.kind = "update", !.user = u, !.row = users[u]]
                  ELSE [start EXCEPT !.user = u]]
          BY <1>2, <2>3 DEF SignIn
    <3>2. CASE OutOfDate(p, users[u])
      <4> DEFINE r == [start EXCEPT !.kind = "update", !.user = u, !.row = users[u]]
      <4>1. op' = [op EXCEPT ![o] = r] /\ r.who = p /\ r.user = u
            BY <3>1, <3>2
      <4> HIDE DEF r
      <4> QED  BY <2>2, <4>1
    <3>3. CASE ~OutOfDate(p, users[u])
      <4> DEFINE r == [start EXCEPT !.user = u]
      <4>1. op' = [op EXCEPT ![o] = r] /\ r.who = p /\ r.user = u
            BY <3>1, <3>3
      <4> HIDE DEF r
      <4> QED  BY <2>2, <4>1
    <3> QED  BY <3>2, <3>3
  <2> QED  BY <2>1, <2>3
<1>3. ASSUME FindByEmail(o)
      PROVE  LinkInv'
  <2>1. op[o] # None /\ op[o].kind = "byEmail" /\ op[o] \in Op
        BY <1>3 DEF FindByEmail, Typed, TypeOK
  <2>2. CASE Step(o, "create")
        BY <1>1, <2>1, <2>2, StepFits
  <2>3. ASSUME NEW u \in ByEmail(op[o].who.email), Found(o, "link", u)
        PROVE  LinkInv'
    <3> DEFINE r == [op[o] EXCEPT !.kind = "link", !.user = u, !.row = users[u]]
    <3>1. /\ op' = [op EXCEPT ![o] = r]
          /\ r.kind = "link" /\ r.who = op[o].who /\ r.user = u
          BY <2>1, <2>3 DEF Found, Typed, TypeOK, Op
    <3> HIDE DEF r
    <3>2. u \in Accounts /\ users[u] # None /\ users[u].email = op[o].who.email
          BY DEF ByEmail, Accounts, Live
    <3>3. op[o].who # None => op[o].who \in Identities
          BY <2>1 DEF Op
    <3>4. op[o].who # None /\ op[o].who.provider = "google" /\ users[u].google # None
              => users[u].google = op[o].who.sub
      <4> SUFFICES ASSUME op[o].who # None, op[o].who.provider = "google",
                          users[u].google # None
                   PROVE  users[u].google = op[o].who.sub
          OBVIOUS
      <4>1. PICK q \in Identities : /\ q.provider = "google" /\ q.sub = users[u].google
                                    /\ q.email = users[u].email
            BY <3>2 DEF LinkInv, Carried
      <4> QED  BY <3>2, <3>3, <4>1 DEF AddressesKept
    <3>5. Fits(r, users')
          BY <1>1, <3>1, <3>2, <3>4 DEF Fits
    <3> QED  BY <1>1, <3>1, <3>5, LinkMoves
  <2> QED  BY <1>3, <2>2, <2>3 DEF FindByEmail
<1>4. ASSUME Refetch(o)
      PROVE  LinkInv'
  <2>1. CASE Close(o)
        BY <1>1, <2>1, ClosesFits
  <2>2. ASSUME NEW u \in BySub(op[o].who), SignedIn(o, u)
        PROVE  LinkInv'
    <3>1. op[o] # None /\ u \in UserIds /\ users'[u] # None
          /\ users'[u][op[o].who.provider] = op[o].who.sub
          BY <1>1, <1>4 DEF Refetch, BySub, Accounts, Live
    <3>2. op[o].who.provider = "google" => users'[u].google = op[o].who.sub
          BY <3>1
    <3> QED  BY <1>1, <2>2, <3>1, <3>2, SignedInFits
  <2> QED  BY <1>4, <2>1, <2>2 DEF Refetch
<1> QED  BY <1>2, <1>3, <1>4

\* A row is written: its Google identity stays, or it gets one no account carries;
\* its email is one of the identity's, and changes only under an identity.
LEMMA RowWritten ==
    ASSUME Typed, LinkInv, NEW u \in Accounts, NEW row \in User,
           users' = [users EXCEPT ![u] = row],
           \/ row.google = users[u].google
           \/ /\ users[u].google = None
              /\ \A v \in Accounts : users[v].google = row.google => v = u,
           row.google # None =>
               \E p \in Identities : /\ p.provider = "google" /\ p.sub = row.google
                                     /\ p.email = row.email,
           users[u].google = None => row.email = users[u].email
    PROVE  Grown /\ Carried'
<1>1. /\ u \in UserIds /\ row # None /\ row # Gone /\ Live(users, u)
      /\ users'[u] = row /\ \A v \in UserIds \ {u} : users'[v] = users[v]
      BY AbsentAssumption DEF Accounts, Typed, TypeOK
<1>2. Accounts' = Accounts
      BY <1>1 DEF Accounts, Live
<1>3. Grown
      BY <1>1 DEF Grown, Live
<1>4. ASSUME NEW v \in Accounts, NEW w \in Accounts, users'[v].google # None,
             users'[v].google = users'[w].google
      PROVE  v = w
  <2>1. v \in UserIds /\ w \in UserIds
        BY DEF Accounts
  <2>2. \A a, b \in Accounts :
            users[a].google # None /\ users[a].google = users[b].google => a = b
        BY DEF LinkInv, Carried
  <2>3. CASE v = u /\ w # u
        BY <1>1, <1>4, <2>1, <2>2, <2>3
  <2>4. CASE v # u /\ w = u
        BY <1>1, <1>4, <2>1, <2>2, <2>4
  <2>5. CASE v # u /\ w # u
        BY <1>1, <1>4, <2>1, <2>2, <2>5
  <2> QED  BY <2>3, <2>4, <2>5
<1>5. ASSUME NEW v \in Accounts, users'[v].google # None
      PROVE  \E p \in Identities : /\ p.provider = "google" /\ p.sub = users'[v].google
                                   /\ p.email = users'[v].email
  <2>1. v \in UserIds
        BY DEF Accounts
  <2> QED  BY <1>1, <1>5, <2>1 DEF LinkInv, Carried
<1> QED  BY <1>2, <1>3, <1>4, <1>5 DEF Carried

\* Statements that write the row a sign-in found.
LEMMA UpdateFits ==
    ASSUME AddressesKept, Typed, LinkInv, NEW o \in Reqs, UpdateMatched(o)
    PROVE  LinkInv'
<1> DEFINE u == op[o].user
           p == op[o].who
<1>1. /\ op[o] # None /\ op[o] \in Op /\ p \in Identities /\ NameFrom(o) \in AllNames
      /\ p # None /\ p.sub # None
      BY NameFromType, IdentityAssumption, AbsentAssumption DEF UpdateMatched
<1>2. CASE u \notin Accounts
  <2>1. UNCHANGED users /\ Close(o)
        BY <1>2 DEF UpdateMatched
  <2> QED  BY <2>1, RowsStay, ClosesFits
<1>3. CASE u \in Accounts
  <2>1. u \in UserIds /\ users[u] \in User /\ SignedIn(o, u) /\ users[u] # None
        BY <1>3 DEF UpdateMatched, Accounts, Live, Typed, TypeOK
  <2>2. p.provider = "google" => users[u].google = p.sub
    <3>1. Fits(op[o], users) /\ op[o].kind = "update"
          BY DEF LinkInv, UpdateMatched
    <3> QED  BY <1>1, <1>3, <2>1, <3>1 DEF Fits, Accounts
  <2>3. /\ Grown /\ Carried' /\ users'[u] # None
        /\ p.provider = "google" => users'[u].google = p.sub
    <3>1. CASE UNCHANGED users
          BY <2>1, <2>2, <3>1, RowsStay
    <3>2. CASE p.provider = "apple" /\ users' = [users EXCEPT ![u].name = p.name]
      <4> DEFINE row == [users[u] EXCEPT !.name = p.name]
      <4>1. /\ row \in User /\ users' = [users EXCEPT ![u] = row]
            /\ row.google = users[u].google /\ row.email = users[u].email
            BY <1>1, <2>1, <3>2, IdentityType DEF User, Typed, TypeOK
      <4> HIDE DEF row
      <4>2. row.google # None =>
                \E q \in Identities : /\ q.provider = "google" /\ q.sub = row.google
                                      /\ q.email = row.email
            BY <1>3, <4>1 DEF LinkInv, Carried
      <4>3. Grown /\ Carried'
            BY <1>3, <4>1, <4>2, RowWritten
      <4> QED  BY <2>1, <3>2, <4>3 DEF Grown
    <3>3. CASE /\ p.provider = "google"
               /\ users' = [users EXCEPT ![u].email = p.email, ![u].name = NameFrom(o)]
      <4> DEFINE row == [users[u] EXCEPT !.email = p.email, !.name = NameFrom(o)]
      <4>1. /\ row \in User /\ users' = [users EXCEPT ![u] = row] /\ users'[u] = row
            /\ row.google = users[u].google /\ row.email = p.email
            BY <1>1, <2>1, <3>3, IdentityType DEF User, Typed, TypeOK
      <4> HIDE DEF row
      <4>2. \E q \in Identities : /\ q.provider = "google" /\ q.sub = row.google
                                  /\ q.email = row.email
            BY <1>1, <2>2, <3>3, <4>1
      <4>3. Grown /\ Carried'
            BY <1>1, <1>3, <2>2, <3>3, <4>1, <4>2, RowWritten
      <4> QED  BY <2>1, <2>2, <3>3, <4>1, <4>3 DEF Grown
    <3> QED  BY <1>1, <1>3, <3>1, <3>2, <3>3, IdentityType DEF UpdateMatched, Providers
  <2> QED  BY <1>1, <2>1, <2>3, SignedInFits
<1> QED  BY <1>2, <1>3

LEMMA LinkFits ==
    ASSUME AddressesKept, Typed, LinkInv, NEW o \in Reqs, LinkByEmail(o)
    PROVE  LinkInv'
<1> DEFINE u == op[o].user
           p == op[o].who
<1>1. /\ op[o] # None /\ op[o] \in Op /\ p \in Identities /\ NameFrom(o) \in AllNames
      /\ p # None /\ p.sub # None
      BY NameFromType, IdentityAssumption, AbsentAssumption DEF LinkByEmail
<1>2. CASE u \notin Accounts
  <2>1. UNCHANGED users /\ Close(o)
        BY <1>2 DEF LinkByEmail
  <2> QED  BY <2>1, RowsStay, ClosesFits
<1>3. CASE u \in Accounts /\ BySub(p) \subseteq {u}
  <2>1. /\ u \in UserIds /\ users[u] \in User /\ SignedIn(o, u) /\ users[u] # None
        /\ users' = [users EXCEPT ![u][p.provider] = p.sub, ![u].name = NameFrom(o)]
        BY <1>3 DEF LinkByEmail, Accounts, Live, Typed, TypeOK
  <2> DEFINE row == [users[u] EXCEPT ![p.provider] = p.sub, !.name = NameFrom(o)]
  <2>2. row \in User /\ users' = [users EXCEPT ![u] = row] /\ users'[u] = row
        BY <1>1, <2>1, LinkedRow DEF Typed, TypeOK
  <2>3. /\ p.provider = "google" => row.google = p.sub
        /\ p.provider = "apple" => row.google = users[u].google
        /\ row.email = users[u].email
    <3>1. p.provider \in {"google", "apple"}
          BY <1>1, IdentityType DEF Providers
    <3>2. CASE p.provider = "google"
          BY <2>1, <3>2 DEF User
    <3>3. CASE p.provider = "apple"
          BY <2>1, <3>3 DEF User
    <3> QED  BY <3>1, <3>2, <3>3
  <2> HIDE DEF row
  <2>4. row.google = users[u].google => Grown /\ Carried'
    <3>1. row.google = users[u].google /\ row.google # None =>
              \E q \in Identities : /\ q.provider = "google" /\ q.sub = row.google
                                    /\ q.email = row.email
          BY <1>3, <2>3 DEF LinkInv, Carried
    <3> QED  BY <1>3, <2>2, <2>3, <3>1, RowWritten
  <2>5. CASE p.provider = "google"
    <3>1. users[u].google = p.sub \/ (users[u].google = None /\ users[u].email = p.email)
      <4>1. Fits(op[o], users)
            BY DEF LinkInv
      <4> QED  BY <1>1, <1>3, <2>1, <2>5, <4>1 DEF Fits, Accounts
    <3>2. \A v \in Accounts : users[v].google = row.google => v = u
          BY <1>3, <2>3, <2>5 DEF BySub
    <3>3. Grown /\ Carried'
          BY <1>1, <1>3, <2>2, <2>3, <2>4, <2>5, <3>1, <3>2, RowWritten
    <3>4. users'[u].google = p.sub /\ users'[u] # None
          BY <2>1, <2>2, <2>3, <2>5, <3>3 DEF Grown
    <3> QED  BY <1>1, <2>1, <3>3, <3>4, SignedInFits
  <2>6. CASE p.provider = "apple"
    <3>1. Grown /\ Carried'
          BY <2>3, <2>4, <2>6
    <3>2. users'[u] # None
          BY <2>1, <3>1 DEF Grown
    <3> QED  BY <1>1, <2>1, <2>6, <3>1, <3>2, SignedInFits
  <2> QED  BY <1>1, <2>5, <2>6, IdentityType DEF Providers
<1>4. CASE u \in Accounts /\ ~(BySub(p) \subseteq {u})
  <2>1. /\ UNCHANGED users
        /\ p.provider = "google" => Close(o)
        /\ p.provider # "google" => SignedIn(o, u)
        BY <1>4 DEF LinkByEmail
  <2>2. Grown /\ Carried' /\ u \in UserIds /\ users'[u] # None
        BY <1>4, <2>1, RowsStay DEF Accounts, Live
  <2>3. CASE p.provider = "google"
        BY <2>1, <2>2, <2>3, ClosesFits
  <2>4. CASE p.provider # "google"
        BY <1>1, <2>1, <2>2, <2>4, SignedInFits
  <2> QED  BY <2>3, <2>4
<1> QED  BY <1>2, <1>3, <1>4

LEMMA CreateFits ==
    ASSUME AddressesKept, Typed, LinkInv, NEW o \in Reqs, CreateUser(o)
    PROVE  LinkInv'
<1> DEFINE p == op[o].who
<1>1. /\ op[o] # None /\ op[o].kind = "create" /\ p \in Identities /\ p.sub # None
      /\ p.email # None
      BY IdentityAssumption
         DEF CreateUser, Typed, TypeOK, OpTyped, Equipped, Signing, Op
<1>2. CASE BySub(p) \cup ByEmail(p.email) # {}
  <2>1. UNCHANGED users /\ Step(o, "refetch")
        BY <1>2 DEF CreateUser
  <2> QED  BY <1>1, <2>1, StepFits
<1>3. ASSUME NEW u \in UserIds, users[u] = None, BySub(p) = {},
             users' = [users EXCEPT ![u] = NewUser(p)], SignedIn(o, u)
      PROVE  LinkInv'
  <2> DEFINE row == NewUser(p)
  <2>1. row \in User
        BY <1>1, IdentityType DEF NewUser, User
  <2>2. row # None /\ row # Gone /\ row.email = p.email
        /\ row.google = IF p.provider = "google" THEN p.sub ELSE None
        BY <2>1, AbsentAssumption DEF NewUser
  <2>3. users'[u] = row /\ \A v \in UserIds \ {u} : users'[v] = users[v]
        BY <1>3 DEF Typed, TypeOK
  <2> HIDE DEF row
  <2>4. Accounts' = Accounts \cup {u} /\ u \notin Accounts
        BY <1>3, <2>2, <2>3 DEF Accounts, Live
  <2>5. Grown
        BY <1>3, <2>2, <2>3 DEF Grown, Live
  <2>6. \A v \in Accounts : row.google # None => users[v].google # row.google
        BY <1>3, <2>2 DEF BySub
  <2>7. \A v \in Accounts : v # u /\ users'[v] = users[v]
        BY <2>3, <2>4 DEF Accounts
  <2>8. Carried'
    <3>1. ASSUME NEW v \in Accounts', NEW w \in Accounts', users'[v].google # None,
                 users'[v].google = users'[w].google
          PROVE  v = w
          BY <2>3, <2>4, <2>6, <2>7, <3>1 DEF LinkInv, Carried
    <3>2. ASSUME NEW v \in Accounts', users'[v].google # None
          PROVE  \E q \in Identities : /\ q.provider = "google" /\ q.sub = users'[v].google
                                       /\ q.email = users'[v].email
          BY <1>1, <2>2, <2>3, <2>4, <2>7, <3>2 DEF LinkInv, Carried
    <3> QED  BY <3>1, <3>2 DEF Carried
  <2> QED  BY <1>1, <1>3, <2>2, <2>3, <2>5, <2>8, SignedInFits
<1> QED  BY <1>2, <1>3 DEF CreateUser

LEMMA LinkStep ==
    ASSUME AddressesKept, Typed, LinkInv, [Next]_vars
    PROVE  LinkInv'
<1>1. ASSUME NEW o \in Reqs, Handle(o)
      PROVE  LinkInv'
  <2>1. CASE (\E p \in Identities : SignIn(o, p)) \/ FindByEmail(o) \/ Refetch(o)
        BY <2>1, ReadFits
  <2>2. CASE UpdateMatched(o) \/ LinkByEmail(o) \/ CreateUser(o)
        BY <2>2, UpdateFits, LinkFits, CreateFits
  <2>3. CASE IssueTokens(o) \/ RevokeFamily(o) \/ LoseOp(o)
    <3>1. UNCHANGED users /\ Close(o)
          BY <2>3 DEF IssueTokens, RevokeFamily, LoseOp
    <3> QED  BY <3>1, RowsStay, ClosesFits
  <2>4. CASE Claim(o)
    <3>1. UNCHANGED users /\ op[o] # None /\ op[o].kind = "claim"
          /\ (Step(o, "issue") \/ Step(o, "family"))
          BY <2>4 DEF Claim
    <3> QED  BY <3>1, StepFits
  <2>5. ASSUME NEW t \in TokenIds, RefreshRead(o, t)
        PROVE  LinkInv'
    <3> DEFINE r == [kind |-> "claim", who |-> None, user |-> tokens[t].user,
                     row |-> None, token |-> t, session |-> tokens[t].session]
    <3>1. UNCHANGED users /\ op' = [op EXCEPT ![o] = r]
          BY <2>5 DEF RefreshRead
    <3>2. Fits(r, users')
          BY DEF Fits
    <3> HIDE DEF r
    <3> QED  BY <3>1, <3>2, RowsStay, LinkMoves
  <2> QED  BY <1>1, <2>1, <2>2, <2>3, <2>4, <2>5 DEF Handle
<1>2. ASSUME UNCHANGED <<users, op>>
      PROVE  LinkInv'
      BY <1>2, RowsStay, OnlyRows
<1>3. ASSUME NEW u \in UserIds, NEW n \in Names, ChooseName(u, n)
      PROVE  LinkInv'
  <2> DEFINE row == [users[u] EXCEPT !.name = n, !.nameChosen = TRUE]
  <2>1. u \in Accounts /\ users[u] \in User /\ n \in AllNames
        BY <1>3 DEF ChooseName, Accounts, Live, Typed, TypeOK, AllNames
  <2>2. /\ row \in User /\ users' = [users EXCEPT ![u] = row] /\ UNCHANGED op
        /\ row.google = users[u].google /\ row.email = users[u].email
        BY <1>3, <2>1 DEF ChooseName, User, Typed, TypeOK
  <2> HIDE DEF row
  <2>3. row.google # None =>
            \E p \in Identities : /\ p.provider = "google" /\ p.sub = row.google
                                  /\ p.email = row.email
        BY <2>1, <2>2 DEF LinkInv, Carried
  <2> QED  BY <2>1, <2>2, <2>3, RowWritten, OnlyRows
<1>4. ASSUME NEW u \in UserIds, DeleteAccount(u)
      PROVE  LinkInv'
  <2>1. /\ u \in Accounts /\ users'[u] = Gone /\ UNCHANGED op
        /\ \A v \in UserIds \ {u} : users'[v] = users[v]
        BY <1>4 DEF DeleteAccount, Accounts, Typed, TypeOK
  <2>2. Grown
        BY <2>1, IdentityAssumption DEF Grown, Live
  <2>3. Accounts' = Accounts \ {u} /\ \A v \in Accounts' : users'[v] = users[v]
        BY <2>1 DEF Accounts, Live
  <2>4. Carried'
        BY <2>3 DEF LinkInv, Carried
  <2> QED  BY <2>1, <2>2, <2>4, OnlyRows
<1>5. ASSUME \/ \E t \in TokenIds : Logout(t)
             \/ \E ts \in SUBSET TokenIds : SweepTokens(ts)
             \/ Tick \/ UNCHANGED vars
      PROVE  LinkInv'
      BY <1>2, <1>5 DEF Logout, SweepTokens, Tick, vars
<1> QED  BY <1>1, <1>3, <1>4, <1>5 DEF Next

\* A token that is issued is issued for a row that was found and is still there.
LEMMA IssuedForIdentity ==
    ASSUME AddressesKept, Typed, LinkInv, [Next]_vars, NEW o \in Reqs,
           op[o] # None, op[o].kind = "issue", op[o].who # None,
           op[o].who.provider = "google", tokens' # tokens, op'[o] = None
    PROVE  BySub(op[o].who) \subseteq {op[o].user}
<1>1. op \in [Reqs -> Op \cup {None}]
      BY DEF Typed, TypeOK
<1>2. op[o].user \in Accounts
  <2>1. op' # op
        BY <1>1
  <2>2. PICK q \in Reqs : Handle(q)
        BY <2>1 DEF Next, Logout, ChooseName, DeleteAccount, SweepTokens, Tick, vars
  <2>3. IssueTokens(q) \/ Claim(q) \/ RevokeFamily(q)
        BY <2>2 DEF Handle, SignIn, RefreshRead, FindByEmail, UpdateMatched, LinkByEmail,
                    CreateUser, Refetch, LoseOp
  <2>4. CASE IssueTokens(q)
    <3>1. op[q].user \in Accounts /\ op' = [op EXCEPT ![q] = None]
          BY <2>4 DEF IssueTokens, Close
    <3>2. q = o
          BY <1>1, <3>1
    <3> QED  BY <3>1, <3>2
  <2>5. ASSUME Claim(q) \/ RevokeFamily(q)
        PROVE  FALSE
    <3>1. op[q].kind \in {"claim", "family"} /\ \E r : op' = [op EXCEPT ![q] = r]
          BY <2>5 DEF Claim, RevokeFamily, Step, Close
    <3>2. q # o
          BY <3>1
    <3> QED  BY <1>1, <3>1, <3>2
  <2> QED  BY <2>3, <2>4, <2>5
<1>3. users[op[o].user].google = op[o].who.sub /\ op[o].who.sub # None
  <2>1. Fits(op[o], users) /\ op[o].who \in Identities
        BY <1>1 DEF LinkInv, Op
  <2> QED  BY <1>2, <2>1, IdentityAssumption DEF Fits, Accounts
<1> QED  BY <1>2, <1>3 DEF BySub, LinkInv, Carried

\* As long as no address passes from one Google account to another, a sign-in with
\* Google ends on the account that carries its identity, for any number of users
\* and requests.
THEOREM GoogleFindsItsAccount == Spec => SignInFindsIdentity
<1> DEFINE I == Typed /\ (AddressesKept => LinkInv)
<1>1. Init => I
  <2> SUFFICES ASSUME Init
               PROVE  I
      OBVIOUS
  <2>1. Typed /\ Accounts = {}
        BY IdentityAssumption DEF Init, Typed, TypeOK, OpTyped, Accounts, Live
  <2>2. LinkInv
        BY <2>1 DEF Init, LinkInv, Carried, Fits
  <2> QED  BY <2>1, <2>2
<1>2. I /\ [Next]_vars => I'
      BY TypeStep, LinkStep DEF AddressesKept
<1>3. I /\ [Next]_vars =>
          [\A o \in Reqs :
              /\ AddressesKept
              /\ op[o] # None /\ op[o].kind = "issue" /\ op[o].who # None
              /\ op[o].who.provider = "google"
              /\ tokens' # tokens /\ op'[o] = None
              => BySub(op[o].who) \subseteq {op[o].user}]_vars
  <2> SUFFICES ASSUME I, [Next]_vars, NEW o \in Reqs, AddressesKept,
                      op[o] # None, op[o].kind = "issue", op[o].who # None,
                      op[o].who.provider = "google", tokens' # tokens, op'[o] = None
               PROVE  BySub(op[o].who) \subseteq {op[o].user}
      OBVIOUS
  <2>1. Typed /\ LinkInv
        OBVIOUS
  <2> QED  BY <2>1, IssuedForIdentity
<1> QED  BY <1>1, <1>2, <1>3, PTL DEF Spec, SignInFindsIdentity
=============================================================================
