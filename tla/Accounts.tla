------------------------------ MODULE Accounts ------------------------------
(***************************************************************************)
(* Accounts and sessions (routes/auth.ts): signing in with Google or       *)
(* Apple, issuing, rotating and revoking refresh tokens, the one-time      *)
(* display name, and account deletion; with the retention sweep over the   *)
(* tokens (services/maintenance.ts).                                       *)
(*                                                                         *)
(* Every handler is a sequence of single statements, without transactions: *)
(* a sign-in finds a row, writes it from what it read, then inserts a      *)
(* token.  Statements of other requests run in between.                    *)
(***************************************************************************)
EXTENDS Integers, FiniteSets

CONSTANTS UserIds, TokenIds,   \* rows that may ever be inserted (bounds)
          Reqs,                \* requests in flight at a time
          Identities,          \* what a verified identity token may say
          Names,               \* display names customers choose
          RefreshTTL,          \* env.refreshTtlDays
          MaxTime,             \* bound: the clock stops here
          None,                \* SQL NULL, a row never inserted
          Gone                 \* a deleted row: its id is never used again

Providers == {"google", "apple"}

ASSUME IdentityAssumption ==
    /\ \A p \in Identities : /\ DOMAIN p = {"provider", "sub", "email", "name"}
                             /\ p.provider \in Providers /\ p.sub # None
                             /\ p.provider = "google" => p.email # None
    /\ RefreshTTL \in Nat /\ MaxTime \in Nat /\ None # Gone

Subs == {p.sub : p \in Identities}
Emails == {p.email : p \in Identities} \ {None}
AllNames == Names \cup {p.name : p \in Identities} \cup {None}

User == [email: Emails, google: Subs \cup {None}, apple: Subs \cup {None},
         name: AllNames, nameChosen: BOOLEAN]
Token == [user: UserIds, expiresAt: Nat, revoked: BOOLEAN, session: TokenIds]
Op == [kind: {"byEmail", "update", "link", "create", "refetch", "issue",
              "claim", "family"},
       who: Identities \cup {None},      \* the identity that signs in
       user: UserIds \cup {None},        \* the user row found
       row: User \cup {None},            \* that row as it was read
       token: TokenIds \cup {None},      \* the token presented to /refresh
       session: TokenIds \cup {None}]    \* history: the first token of the session

ASSUME AbsentAssumption ==
    /\ None \notin User \cup Token \cup Op /\ Gone \notin User \cup Token \cup Op
    /\ None \notin UserIds \cup TokenIds \cup Identities

VARIABLES now, users, tokens, op
vars == <<now, users, tokens, op>>

Init ==
    /\ now = 0
    /\ users = [u \in UserIds |-> None]
    /\ tokens = [t \in TokenIds |-> None]
    /\ op = [o \in Reqs |-> None]

Live(table, id) == table[id] \notin {None, Gone}
Accounts == {u \in UserIds : Live(users, u)}
StoredTokens == {t \in TokenIds : Live(tokens, t)}

BySub(p) == {u \in Accounts : users[u][p.provider] = p.sub}
ByEmail(email) == {u \in Accounts : users[u].email = email}

Step(o, kind) == op' = [op EXCEPT ![o].kind = kind]
Found(o, kind, u) ==
    op' = [op EXCEPT ![o].kind = kind, ![o].user = u, ![o].row = users[u]]
SignedIn(o, u) ==
    op' = [op EXCEPT ![o].kind = "issue", ![o].user = u, ![o].row = None]
Close(o) == op' = [op EXCEPT ![o] = None]

-----------------------------------------------------------------------------
(* Signing in                                                              *)

\* What upsertGoogleUser / upsertAppleUser would write on a row it matched.
OutOfDate(p, row) ==
    IF p.provider = "google"
    THEN row.email # p.email \/ (row.name = None /\ p.name # None)
    ELSE row.name = None /\ p.name # None

\* findUnique by googleId or appleId.  An Apple token without an email that
\* matches no row is refused.
SignIn(o, p) ==
    /\ op[o] = None
    /\ LET start == [kind |-> "issue", who |-> p, user |-> None, row |-> None,
                     token |-> None, session |-> None]
       IN IF BySub(p) = {}
          THEN /\ p.email # None
               /\ op' = [op EXCEPT ![o] = [start EXCEPT !.kind = "byEmail"]]
          ELSE \E u \in BySub(p) :
               op' = [op EXCEPT ![o] =
                   IF OutOfDate(p, users[u])
                   THEN [start EXCEPT !.kind = "update", !.user = u, !.row = users[u]]
                   ELSE [start EXCEPT !.user = u]]
    /\ UNCHANGED <<now, users, tokens>>

\* findUnique by email.
FindByEmail(o) ==
    /\ op[o] # None /\ op[o].kind = "byEmail"
    /\ IF ByEmail(op[o].who.email) = {} THEN Step(o, "create")
       ELSE \E u \in ByEmail(op[o].who.email) : Found(o, "link", u)
    /\ UNCHANGED <<now, users, tokens>>

\* The name a sign-in writes: the one on the row it read, or the identity's.
NameFrom(o) == IF op[o].row.name = None THEN op[o].who.name ELSE op[o].row.name

\* Bring a matched row up to date.  P2025 (row deleted) fails the request;
\* P2002 (another row has the new email) keeps the old email and signs in.
UpdateMatched(o) ==
    /\ op[o] # None /\ op[o].kind = "update"
    /\ LET u == op[o].user  p == op[o].who IN
       IF u \notin Accounts THEN Close(o) /\ UNCHANGED users
       ELSE /\ SignedIn(o, u)
            /\ IF p.provider = "apple"
               THEN users' = [users EXCEPT ![u].name = p.name]
               ELSE IF ByEmail(p.email) \subseteq {u}
               THEN users' = [users EXCEPT ![u].email = p.email, ![u].name = NameFrom(o)]
               ELSE UNCHANGED users
    /\ UNCHANGED <<now, tokens>>

\* Mutant of LinkByEmail: a linked identity is signed in to the row all the
\* same, with Google as with Apple.
LinkRegardless(o) ==
    /\ op[o] # None /\ op[o].kind = "link"
    /\ LET u == op[o].user  p == op[o].who IN
       IF u \notin Accounts THEN Close(o) /\ UNCHANGED users
       ELSE /\ SignedIn(o, u)
            /\ IF BySub(p) \subseteq {u}
               THEN users' = [users EXCEPT ![u][p.provider] = p.sub, ![u].name = NameFrom(o)]
               ELSE UNCHANGED users
    /\ UNCHANGED <<now, tokens>>

\* Link the identity to the row with its email.  If another row carries the
\* identity by now, Google's sign-in fails and Apple's goes on unlinked.
LinkByEmail(o) ==
    /\ op[o] # None /\ op[o].kind = "link"
    /\ LET u == op[o].user  p == op[o].who IN
       CASE u \notin Accounts -> Close(o) /\ UNCHANGED users
         [] u \in Accounts /\ BySub(p) \subseteq {u} ->
              /\ users' = [users EXCEPT ![u][p.provider] = p.sub, ![u].name = NameFrom(o)]
              /\ SignedIn(o, u)
         [] OTHER ->
              /\ IF p.provider = "google" THEN Close(o) ELSE SignedIn(o, u)
              /\ UNCHANGED users
    /\ UNCHANGED <<now, tokens>>

NewUser(p) ==
    [email |-> p.email, google |-> IF p.provider = "google" THEN p.sub ELSE None,
     apple |-> IF p.provider = "apple" THEN p.sub ELSE None,
     name |-> p.name, nameChosen |-> FALSE]

\* user.create; either unique column may be taken by now.
CreateUser(o) ==
    /\ op[o] # None /\ op[o].kind = "create"
    /\ IF BySub(op[o].who) \cup ByEmail(op[o].who.email) # {}
       THEN Step(o, "refetch") /\ UNCHANGED users
       ELSE \E u \in UserIds :
               /\ users[u] = None
               /\ users' = [users EXCEPT ![u] = NewUser(op[o].who)]
               /\ SignedIn(o, u)
    /\ UNCHANGED <<now, tokens>>

\* "Two first-logins racing: the loser refetches the winner's row", by the
\* identity; if it was the email that clashed, the request fails.
Refetch(o) ==
    /\ op[o] # None /\ op[o].kind = "refetch"
    /\ IF BySub(op[o].who) = {} THEN Close(o)
       ELSE \E u \in BySub(op[o].who) : SignedIn(o, u)
    /\ UNCHANGED <<now, users, tokens>>

\* The insert fails (foreign key) if the account was deleted in between.
IssueTokens(o) ==
    /\ op[o] # None /\ op[o].kind = "issue"
    /\ IF op[o].user \notin Accounts THEN UNCHANGED tokens
       ELSE \E t \in TokenIds :
               /\ tokens[t] = None
               /\ tokens' = [tokens EXCEPT ![t] =
                     [user |-> op[o].user, expiresAt |-> now + RefreshTTL,
                      revoked |-> FALSE,
                      session |-> IF op[o].session = None THEN t ELSE op[o].session]]
    /\ Close(o)
    /\ UNCHANGED <<now, users>>

-----------------------------------------------------------------------------
(* Sessions                                                                *)

\* findUnique by hash and the expiry check; revoked tokens pass it.
RefreshRead(o, t) ==
    /\ op[o] = None
    /\ t \in StoredTokens
    /\ tokens[t].expiresAt >= now
    /\ op' = [op EXCEPT ![o] =
                [kind |-> "claim", who |-> None, user |-> tokens[t].user,
                 row |-> None, token |-> t, session |-> tokens[t].session]]
    /\ UNCHANGED <<now, users, tokens>>

\* Mutant of Claim: the token is claimed without looking at revokedAt.
ClaimAny(o) ==
    /\ op[o] # None /\ op[o].kind = "claim"
    /\ LET t == op[o].token IN
       IF t \in StoredTokens
       THEN tokens' = [tokens EXCEPT ![t].revoked = TRUE] /\ Step(o, "issue")
       ELSE UNCHANGED tokens /\ Step(o, "family")
    /\ UNCHANGED <<now, users>>

\* updateMany where revokedAt is null: only one request claims a token.
Claim(o) ==
    /\ op[o] # None /\ op[o].kind = "claim"
    /\ LET t == op[o].token IN
       IF t \in StoredTokens /\ ~tokens[t].revoked
       THEN tokens' = [tokens EXCEPT ![t].revoked = TRUE] /\ Step(o, "issue")
       ELSE UNCHANGED tokens /\ Step(o, "family")
    /\ UNCHANGED <<now, users>>

\* A token spent before: every token of the user is revoked, whatever session.
RevokeFamily(o) ==
    /\ op[o] # None /\ op[o].kind = "family"
    /\ tokens' = [t \in TokenIds |->
                     IF t \in StoredTokens /\ tokens[t].user = op[o].user
                     THEN [tokens[t] EXCEPT !.revoked = TRUE] ELSE tokens[t]]
    /\ Close(o)
    /\ UNCHANGED <<now, users>>

Logout(t) ==
    /\ t \in StoredTokens
    /\ tokens' = [tokens EXCEPT ![t].revoked = TRUE]
    /\ UNCHANGED <<now, users, op>>

\* Mutant of ChooseName: no compare-and-swap on nameChosen.
ChooseNameAgain(u, n) ==
    /\ u \in Accounts
    /\ users' = [users EXCEPT ![u].name = n, ![u].nameChosen = TRUE]
    /\ UNCHANGED <<now, tokens, op>>

\* PATCH /me.
ChooseName(u, n) ==
    /\ u \in Accounts
    /\ ~users[u].nameChosen
    /\ users' = [users EXCEPT ![u].name = n, ![u].nameChosen = TRUE]
    /\ UNCHANGED <<now, tokens, op>>

\* DELETE /me: the tokens cascade.  (Totals models the rest of it.)
DeleteAccount(u) ==
    /\ u \in Accounts
    /\ users' = [users EXCEPT ![u] = Gone]
    /\ tokens' = [t \in TokenIds |->
                     IF t \in StoredTokens /\ tokens[t].user = u THEN Gone ELSE tokens[t]]
    /\ UNCHANGED <<now, op>>

\* deleteExpiredRefreshTokens; an interrupted sweep leaves some for the next.
SweepTokens(ts) ==
    /\ ts # {} /\ ts \subseteq {t \in StoredTokens : tokens[t].expiresAt < now}
    /\ tokens' = [t \in TokenIds |-> IF t \in ts THEN Gone ELSE tokens[t]]
    /\ UNCHANGED <<now, users, op>>

\* A crash or a dropped connection between two statements of a handler.
LoseOp(o) == op[o] # None /\ Close(o) /\ UNCHANGED <<now, users, tokens>>

Tick == now < MaxTime /\ now' = now + 1 /\ UNCHANGED <<users, tokens, op>>

Handle(o) ==
    \/ \E p \in Identities : SignIn(o, p)
    \/ \E t \in TokenIds : RefreshRead(o, t)
    \/ FindByEmail(o) \/ UpdateMatched(o) \/ LinkByEmail(o) \/ CreateUser(o)
    \/ Refetch(o) \/ IssueTokens(o) \/ Claim(o) \/ RevokeFamily(o) \/ LoseOp(o)

Next ==
    \/ \E o \in Reqs : Handle(o)
    \/ \E t \in TokenIds : Logout(t)
    \/ \E u \in UserIds, n \in Names : ChooseName(u, n)
    \/ \E u \in UserIds : DeleteAccount(u)
    \/ \E ts \in SUBSET TokenIds : SweepTokens(ts)
    \/ Tick

Spec == Init /\ [][Next]_vars

-----------------------------------------------------------------------------
(* Properties                                                              *)

\* Every variable keeps its type.
TypeOK ==
    /\ now \in 0..MaxTime
    /\ users \in [UserIds -> User \cup {None, Gone}]
    /\ tokens \in [TokenIds -> Token \cup {None, Gone}]
    /\ op \in [Reqs -> Op \cup {None}]

\* The good tokens of a session, and the refreshes that have claimed one and
\* not yet issued its successor.
GoodTokens(s) == {t \in StoredTokens : tokens[t].session = s /\ ~tokens[t].revoked}
Issuing(s) == {o \in Reqs : op[o] # None /\ op[o].kind = "issue" /\ op[o].session = s}

\* Rotation: however often a refresh token is presented, retried, replayed or
\* raced against itself, its session has at most one good token or one refresh
\* about to issue it: two requests are never both "issued a fresh pair".
RotationKept ==
    \A s \in TokenIds :
        /\ \A t1, t2 \in GoodTokens(s) : t1 = t2
        /\ \A o1, o2 \in Issuing(s) : o1 = o2
        /\ GoodTokens(s) = {} \/ Issuing(s) = {}

Ended(s) == tokens[s] # None /\ GoodTokens(s) = {} /\ Issuing(s) = {}

\* A session that was logged out, revoked, expired away or deleted, with no
\* refresh of it under way, is over for good.
EndedForGood == [][\A s \in TokenIds : Ended(s) => Ended(s)']_vars

\* No address passes from one Google account to another.  (The second would take
\* the row of the first over: the link overwrites googleId.)
AddressesKept ==
    \A p, q \in Identities :
        p.provider = "google" /\ q.provider = "google" /\ p.email = q.email => p.sub = q.sub

\* A sign-in with Google ends on the account of its identity: if some account
\* carries the identity when the token is issued, the token is that account's,
\* whichever sign-ins, links, deletions and email changes raced it.  (Apple's
\* does not: its link swallows the clash and signs in to the row it matched.)
SignInFindsIdentity ==
    [][\A o \in Reqs :
          /\ AddressesKept
          /\ op[o] # None /\ op[o].kind = "issue" /\ op[o].who # None
          /\ op[o].who.provider = "google"
          /\ tokens' # tokens /\ op'[o] = None
          => BySub(op[o].who) \subseteq {op[o].user}]_vars

\* The name is chosen, and no sign-in is about to write another it read before.
Settled(u) ==
    /\ u \in Accounts /\ users[u].nameChosen /\ users[u].name # None
    /\ \A o \in Reqs : op[o] # None /\ op[o].kind \in {"update", "link"} /\ op[o].user = u
                      => op[o].row.name = users[u].name

\* "There is no rename": once the sign-ins that were under way are over, a
\* chosen name is never written again, by PATCH /me, by an email that changes
\* at the provider, or by linking another provider.
NameSettles ==
    [][\A u \in UserIds :
          Settled(u) /\ users'[u] # Gone
          => Settled(u)' /\ users'[u].name = users[u].name]_vars
=============================================================================
