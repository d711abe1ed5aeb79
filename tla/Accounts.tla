------------------------------ MODULE Accounts ------------------------------
(* app/services/auth_service.py, otp_service.py and oauth_service.py over    *)
(* the tables users, otp_codes and oauth_accounts, for one email address and *)
(* the provider identities of one person. A request reads, waits (for bcrypt,*)
(* for the mail server, for the database) and commits what it decided on     *)
(* what it read; between the two other requests commit. Tokens are signed    *)
(* and kept by nobody here, and are left out.                                *)
EXTENDS Integers, FiniteSetsExt

CONSTANTS
    Users,          \* rows of users there may be
    Identities,     \* accounts at providers
    Provider,       \* each identity: its provider
    Mailed,         \* the identities whose provider vouches for the address
    Requests,       \* requests in flight at a time
    Unlinkers,      \* those of them that may unlink
    Nobody,
    MaxCodes,       \* bound: codes issued
    MaxPasswords,   \* bound: passwords chosen
    MaxFailures     \* bound: commits that fail after the mail went out

UnlinkersAssumption == Unlinkers \subseteq Requests /\ Nobody \notin Users
IdentitiesAssumption ==
    Mailed \subseteq Identities /\ DOMAIN Provider = Identities /\ Identities # {}
BoundsAssumption == {MaxCodes, MaxPasswords, MaxFailures} \subseteq Nat

VARIABLES
    user,       \* each row of users
    owner,      \* each identity: the user its oauth_accounts row names
    codes,      \* the rows of otp_codes
    inbox,      \* the codes the address was mailed
    issued,     \* codes so far; a code is its number
    tokens,     \* reset tokens: the password each is tied to
    passwords,  \* passwords so far
    req,        \* each request: what it is about to do, on what it read
    failures

vars == <<user, owner, codes, inbox, issued, tokens, passwords, req, failures>>

Purposes == {"register", "reset"}
Row      == [there: BOOLEAN, mail: BOOLEAN, verified: BOOLEAN, password: 0..MaxPasswords,
             bonus: 0..2]
Code     == [id: 1..MaxCodes, for: Purposes, cold: BOOLEAN]
Absent   == [there |-> FALSE, mail |-> FALSE, verified |-> FALSE, password |-> 0, bonus |-> 0]
Idle     == [does |-> "idle", user |-> Nobody, for |-> "register", locks |-> FALSE, drops |-> {},
             identity |-> CHOOSE i \in Identities : TRUE, owned |-> FALSE, proved |-> FALSE,
             code |-> 0]

TypeOK ==
    /\ user \in [Users -> Row] /\ owner \in [Identities -> Users \cup {Nobody}]
    /\ codes \subseteq Code /\ inbox \subseteq 1..MaxCodes /\ issued \in 0..MaxCodes
    /\ tokens \subseteq 0..MaxPasswords /\ passwords \in 0..MaxPasswords
    /\ req \in [Requests -> [does: {"idle", "flush", "issue", "send", "commit", "verify", "reset",
                                    "signin", "link", "unlink"},
                             user: Users \cup {Nobody}, for: Purposes, locks: BOOLEAN,
                             drops: SUBSET (1..MaxCodes), identity: Identities, owned: BOOLEAN,
                             proved: BOOLEAN, code: 0..MaxCodes]]
    /\ failures \in 0..MaxFailures
    /\ \A i \in Identities : owner[i] # Nobody => user[owner[i]].verified

Init ==
    /\ user = [u \in Users |-> Absent] /\ owner = [i \in Identities |-> Nobody]
    /\ codes = {} /\ inbox = {} /\ issued = 0 /\ tokens = {} /\ passwords = 0
    /\ req = [q \in Requests |-> Idle] /\ failures = 0

-----------------------------------------------------------------------------

Starts(q, r) == req[q] = Idle /\ req' = [req EXCEPT ![q] = r]
Ends(q)      == req' = [req EXCEPT ![q] = Idle]
Fail         == failures < MaxFailures /\ failures' = failures + 1

\* get_user_by_email: emails are unique.
Holders == {u \in Users : user[u].there /\ user[u].mail}
Holder  == IF Holders = {} THEN Nobody ELSE CHOOSE u \in Holders : TRUE
Unused  == {u \in Users : ~user[u].there}
Insert(row) == Unused # {} /\ user' = [user EXCEPT ![CHOOSE u \in Unused : TRUE] = row]

CodesFor(p) == {c \in codes : c.for = p}
\* _active_code.
Newest(p)   == CHOOSE c \in CodesFor(p) : \A d \in CodesFor(p) : d.id <= c.id
Drop(ids)   == {c \in codes : c.id \notin ids}

\* grant_signup_bonus: at most once, by its key in the ledger.
Granted(row) == [row EXCEPT !.bonus = Max({@, 1})]

Links(u)     == {i \in Identities : owner[i] = u}
Spare(u)     == user[u].password # 0 \/ Cardinality(Links(u)) > 1

-----------------------------------------------------------------------------
(* issue_otp, and the three that call it.                                   *)

Registers(q) ==
    /\ Holder # Nobody => ~user[Holder].verified
    /\ passwords < MaxPasswords
    /\ Starts(q, [Idle EXCEPT !.does = "flush", !.user = Holder])
    /\ UNCHANGED <<user, owner, codes, inbox, issued, tokens, passwords, failures>>

Resends(q) ==
    /\ Holder # Nobody /\ ~user[Holder].verified
    /\ Starts(q, [Idle EXCEPT !.does = "issue"])
    /\ UNCHANGED <<user, owner, codes, inbox, issued, tokens, passwords, failures>>

Forgets(q) ==
    /\ Holder # Nobody /\ user[Holder].verified
    /\ Starts(q, [Idle EXCEPT !.does = "issue", !.for = "reset"])
    /\ UNCHANGED <<user, owner, codes, inbox, issued, tokens, passwords, failures>>

\* The flush of register: the row is there, locked, and uncommitted until the end.
\* Two registrations queue up here, and the second finds what the first left.
Flushes(q) ==
    /\ req[q].does = "flush"
    /\ \A o \in Requests \ {q} : ~(req[o].does \in {"issue", "send", "commit"} /\ req[o].locks)
    /\ IF req[q].user = Nobody /\ Holder # Nobody
       THEN Ends(q)
       ELSE req' = [req EXCEPT ![q].does = "issue", ![q].locks = TRUE]
    /\ UNCHANGED <<user, owner, codes, inbox, issued, tokens, passwords, failures>>

\* The cooldown, and the delete of whatever came before.
Issues(q) ==
    /\ req[q].does = "issue" /\ issued < MaxCodes
    /\ IF \E c \in CodesFor(req[q].for) : c = Newest(req[q].for) /\ ~c.cold
       THEN Ends(q) /\ UNCHANGED issued
       ELSE /\ issued' = issued + 1
            /\ req' = [req EXCEPT ![q].does = "send", ![q].code = issued + 1,
                                  ![q].drops = {c.id : c \in CodesFor(req[q].for)}]
    /\ UNCHANGED <<user, owner, codes, inbox, tokens, passwords, failures>>

Stored(q) == Drop(req[q].drops) \cup {[id |-> req[q].code, for |-> req[q].for, cold |-> FALSE]}

\* The user's row as register leaves it.
Registered(q) ==
    /\ passwords < MaxPasswords /\ passwords' = passwords + 1
    /\ IF req[q].user = Nobody
       THEN Insert([Absent EXCEPT !.there = TRUE, !.mail = TRUE, !.password = passwords + 1])
       ELSE user' = [user EXCEPT ![req[q].user].password = passwords + 1]

\* The mail goes out before the commit; one that cannot be sent ends the request.
Sends(q) ==
    /\ req[q].does = "send"
    /\ \/ inbox' = inbox \cup {req[q].code} /\ req' = [req EXCEPT ![q].does = "commit"]
          /\ UNCHANGED failures
       \/ Fail /\ Ends(q) /\ UNCHANGED inbox
    /\ UNCHANGED <<user, owner, codes, issued, tokens, passwords>>

CommitsCode(q) ==
    /\ req[q].does = "commit"
    /\ \/ /\ codes' = Stored(q) /\ UNCHANGED failures
          /\ IF req[q].locks THEN Registered(q) ELSE UNCHANGED <<user, passwords>>
       \/ Fail /\ UNCHANGED <<codes, user, passwords>>
    /\ Ends(q)
    /\ UNCHANGED <<owner, inbox, issued, tokens>>

\* Past the cooldown, or past its life: what is left of it is replaced.
Cools(c) ==
    /\ c \in codes /\ ~c.cold
    /\ codes' = (codes \ {c}) \cup {[c EXCEPT !.cold = TRUE]}
    /\ UNCHANGED <<user, owner, inbox, issued, tokens, passwords, req, failures>>

-----------------------------------------------------------------------------
(* consume_otp and what the right code is good for. (A wrong one counts.)    *)

Verifies(q) ==
    /\ Holder # Nobody /\ ~user[Holder].verified /\ CodesFor("register") # {}
    /\ Newest("register").id \in inbox
    /\ Starts(q, [Idle EXCEPT !.does = "verify", !.user = Holder, !.code = Newest("register").id])
    /\ UNCHANGED <<user, owner, codes, inbox, issued, tokens, passwords, failures>>

\* Mutant: the bonus is granted whenever an address is verified.
GrantsAgain(q) ==
    /\ req[q].does = "verify"
    /\ user' = [user EXCEPT ![req[q].user].verified = TRUE,
                            ![req[q].user].bonus = Min({2, @ + 1})]
    /\ codes' = Drop({req[q].code})
    /\ Ends(q)
    /\ UNCHANGED <<owner, inbox, issued, tokens, passwords, failures>>

\* Of two requests with one code, the second deletes nothing and goes on.
CommitsVerified(q) ==
    /\ req[q].does = "verify"
    /\ user' = [user EXCEPT ![req[q].user] = Granted([@ EXCEPT !.verified = TRUE])]
    /\ codes' = Drop({req[q].code})
    /\ Ends(q)
    /\ UNCHANGED <<owner, inbox, issued, tokens, passwords, failures>>

\* verify_reset_otp: the token is tied to the password of the moment it read it.
Proves(q) ==
    /\ Holder # Nobody /\ user[Holder].verified /\ CodesFor("reset") # {}
    /\ Newest("reset").id \in inbox
    /\ tokens' = tokens \cup {user[Holder].password}
    /\ codes' = codes \ {Newest("reset")}
    /\ UNCHANGED <<user, owner, inbox, issued, passwords, req, failures>>

Resets(q) ==
    /\ Holder # Nobody /\ user[Holder].password \in tokens
    /\ Starts(q, [Idle EXCEPT !.does = "reset", !.user = Holder])
    /\ UNCHANGED <<user, owner, codes, inbox, issued, tokens, passwords, failures>>

CommitsPassword(q) ==
    /\ req[q].does = "reset" /\ passwords < MaxPasswords
    /\ passwords' = passwords + 1
    /\ user' = [user EXCEPT ![req[q].user].password = passwords + 1]
    /\ codes' = codes \ CodesFor("reset")
    /\ Ends(q)
    /\ UNCHANGED <<owner, inbox, issued, tokens, failures>>

-----------------------------------------------------------------------------
(* oauth_service.                                                           *)

\* sign_in reads the identity's owner, or else who has its address.
SignsIn(q, i) ==
    LET u == IF owner[i] # Nobody THEN owner[i] ELSE IF i \in Mailed THEN Holder ELSE Nobody
    IN  /\ Starts(q, [Idle EXCEPT !.does = "signin", !.user = u, !.identity = i,
                                  !.owned = (owner[i] # Nobody),
                                  !.proved = (u # Nobody /\ user[u].verified)])
        /\ UNCHANGED <<user, owner, codes, inbox, issued, tokens, passwords, failures>>

\* The address, or the identity, was taken in between: the commit fails.
SignInFails(q) ==
    /\ req[q].does = "signin" /\ ~req[q].owned
    /\ \/ owner[req[q].identity] # Nobody
       \/ req[q].user = Nobody /\ req[q].identity \in Mailed /\ Holder # Nobody
    /\ Ends(q)
    /\ UNCHANGED <<user, owner, codes, inbox, issued, tokens, passwords, failures>>

\* A linked account signs in as its owner, even if it is unlinked just then.
SignsInOwner(q) ==
    LET u == req[q].user
    IN  /\ req[q].does = "signin" /\ req[q].owned
        /\ user' = [user EXCEPT ![u] = Granted(@)]
        /\ Ends(q)
        /\ UNCHANGED <<owner, codes, inbox, issued, tokens, passwords, failures>>

\* A verified address joins the account that holds it; a signup that never proved
\* it could read the mailbox loses the password it came with.
Joins(q) ==
    LET u == req[q].user  i == req[q].identity
    IN  /\ req[q].does = "signin" /\ ~req[q].owned /\ u # Nobody /\ owner[i] = Nobody
        /\ owner' = [owner EXCEPT ![i] = u]
        /\ user' = [user EXCEPT ![u] = Granted(IF req[q].proved THEN @
                                               ELSE [@ EXCEPT !.verified = TRUE, !.password = 0])]
        /\ codes' = IF req[q].proved THEN codes ELSE codes \ CodesFor("register")
        /\ Ends(q)
        /\ UNCHANGED <<inbox, issued, tokens, passwords, failures>>

SignsUp(q) ==
    LET i == req[q].identity
    IN  /\ req[q].does = "signin" /\ ~req[q].owned /\ req[q].user = Nobody /\ owner[i] = Nobody
        /\ i \in Mailed => Holder = Nobody
        /\ Insert(Granted([Absent EXCEPT !.there = TRUE, !.mail = (i \in Mailed), !.verified = TRUE]))
        /\ owner' = [owner EXCEPT ![i] = CHOOSE u \in Unused : TRUE]
        /\ Ends(q)
        /\ UNCHANGED <<codes, inbox, issued, tokens, passwords, failures>>

LinksStart(q, u, i) ==
    /\ user[u].there /\ user[u].verified /\ owner[i] = Nobody
    /\ \A j \in Links(u) : Provider[j] # Provider[i]
    /\ Starts(q, [Idle EXCEPT !.does = "link", !.user = u, !.identity = i])
    /\ UNCHANGED <<user, owner, codes, inbox, issued, tokens, passwords, failures>>

CommitsLink(q) ==
    LET i == req[q].identity
    IN  /\ req[q].does = "link"
        /\ owner' = [owner EXCEPT ![i] = IF @ = Nobody THEN req[q].user ELSE @]
        /\ Ends(q)
        /\ UNCHANGED <<user, codes, inbox, issued, tokens, passwords, failures>>

\* It looks for the one account of that provider, and asks for more than one in all.
Unlinks(q, i) ==
    LET u == owner[i]
    IN  /\ q \in Unlinkers /\ u # Nobody /\ Spare(u)
        /\ \A j \in Links(u) \ {i} : Provider[j] # Provider[i]
        /\ Starts(q, [Idle EXCEPT !.does = "unlink", !.user = u, !.identity = i])
        /\ UNCHANGED <<user, owner, codes, inbox, issued, tokens, passwords, failures>>

\* Deletes the row it found: with one unlinker, the row that is there.
CommitsUnlink(q) ==
    LET i == req[q].identity
    IN  /\ req[q].does = "unlink"
        /\ owner' = [owner EXCEPT ![i] = Nobody]
        /\ Ends(q)
        /\ UNCHANGED <<user, codes, inbox, issued, tokens, passwords, failures>>

-----------------------------------------------------------------------------
Next ==
    \/ \E c \in codes : Cools(c)
    \/ \E q \in Requests :
          \/ Registers(q) \/ Resends(q) \/ Forgets(q) \/ Flushes(q) \/ Issues(q) \/ Sends(q)
          \/ CommitsCode(q) \/ Verifies(q) \/ CommitsVerified(q) \/ Proves(q) \/ Resets(q)
          \/ CommitsPassword(q) \/ SignInFails(q) \/ SignsInOwner(q) \/ Joins(q) \/ SignsUp(q)
          \/ CommitsLink(q) \/ CommitsUnlink(q)
          \/ \E i \in Identities : \/ SignsIn(q, i) \/ Unlinks(q, i)
                                   \/ \E u \in Users : LinksStart(q, u, i)

Spec == Init /\ [][Next]_vars

-----------------------------------------------------------------------------
(* Properties.                                                              *)

\* "Give a new account its starting credit, at most once, ever" (wallet_service.py):
\* whichever way an account came to be verified, it has its bonus, and has it once.
OneBonus == \A u \in Users : user[u].bonus = IF user[u].verified THEN 1 ELSE 0

\* An account always has a password or a linked provider (oauth_service.unlink),
\* as long as its owner removes providers one at a time.
AlwaysAWayIn == \A u \in Users : user[u].there => user[u].password # 0 \/ Links(u) # {}

\* "The service layer additionally keeps it to one account per provider per user"
\* (models/oauth.py:26).
OneAccountPerProvider ==
    \A u \in Users : \A i, j \in Links(u) : Provider[i] = Provider[j] => i = j

\* "At most one live code per (email, purpose)" (models/otp.py).
OneLiveCode == \A p \in Purposes : Cardinality(CodesFor(p)) <= 1
=============================================================================
