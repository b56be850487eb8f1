------------------------------ MODULE Sessions ------------------------------
(***************************************************************************)
(* Passwords and sessions: login, password change and logout               *)
(* (api/auth.py), the session part of authenticate (security.py), and the  *)
(* operator's create-user and reset-password (admin.py).                   *)
(*                                                                         *)
(* login, accept_invitation and change_password lock the user's row, read  *)
(* it anew and compare the password, which takes long by design; what they *)
(* write commits later.  Other requests run in between and wait for the    *)
(* row.  Passwords are numbered in the order in which they are chosen:     *)
(* nobody chooses one twice.  API keys and invitations are only issued and *)
(* ended here (Organization says when): they are in every backup, too.     *)
(*                                                                         *)
(* A definition whose comment begins with "Variant" is the next definition *)
(* with a slip in it: the runs show which property notices the slip.       *)
(***************************************************************************)
EXTENDS Naturals, FiniteSets

CONSTANTS
    People,        \* told apart by their e-mail address
    Tokens,        \* secrets sent to somebody, each once: sessions and grants
    Calls,         \* requests in flight that carry a password
    NoPerson,
    Company,       \* whom the grants (API keys and invitations) belong to
    MaxPasswords   \* bound: how many passwords are ever chosen

ASSUME SessionsAssumption ==
    /\ {NoPerson, Company} \cap People = {}
    /\ NoPerson # Company
    /\ MaxPasswords \in Nat

VARIABLES
    account,   \* users: password (0: no account) and disabled
    session,   \* user_sessions, keys and invitations: whose, and still good?
    call,      \* requests between their arrival and their commit
    chosen,    \* how many passwords have been chosen so far
    retired    \* passwords their owner or the operator has replaced

sessionsVars == <<account, session, call, chosen, retired>>

\* `with` is the password a session was opened with: history, not a column.
Unopened == [of |-> NoPerson, live |-> FALSE, with |-> 0]
NoCall == [kind |-> "none", pc |-> "idle", of |-> NoPerson, with |-> 0]

SessionsInit ==
    /\ account = [u \in People |-> [password |-> 0, disabled |-> FALSE]]
    /\ session = [s \in Tokens |-> Unopened]
    /\ call = [c \in Calls |-> NoCall]
    /\ chosen = 0
    /\ retired = {}
-----------------------------------------------------------------------------
(* Values *)

HasAccount(u) == account[u].password # 0

SessionsOf(u) == {s \in Tokens : session[s].of = u /\ session[s].live}

\* authenticate accepts the token of a session that is neither revoked nor expired,
\* if its user is not disabled.
Accepted(s) ==
    session[s].live /\ session[s].of \in People /\ ~account[session[s].of].disabled

\* Variant: the row is read without FOR UPDATE.
RowFreeAlways(u) == TRUE

\* Nobody holds the user's row between its verification and its commit.
RowFree(u) == \A c \in Calls : ~(call[c].pc = "verified" /\ call[c].of = u)

Revoked(S) == [s \in Tokens |-> IF s \in S THEN [session[s] EXCEPT !.live = FALSE]
                                           ELSE session[s]]

\* A new password for u; the one it replaces is good for nothing any more.
Choose(u) ==
    /\ chosen < MaxPasswords
    /\ chosen' = chosen + 1
    /\ account' = [account EXCEPT ![u] = [password |-> chosen + 1, disabled |-> FALSE]]
    /\ retired' = retired \union ({account[u].password} \ {0})
-----------------------------------------------------------------------------
(* Requests *)

\* Variant: an unknown address is compared with a dummy hash, and that is all.
CompareWithDummy(c, u, kind) ==
    /\ RowFree(u)
    /\ call' = [call EXCEPT ![c] =
           [kind |-> kind, pc |-> "verified", of |-> u, with |-> account[u].password]]
    /\ UNCHANGED <<account, session, chosen, retired>>

\* The row is locked and read, and the password of the request compared with it:
\* here it is the right one, a wrong one ends the request.
Compare(c, u, kind) ==
    /\ HasAccount(u)
    /\ RowFree(u)
    /\ call' = [call EXCEPT ![c] =
           [kind |-> kind, pc |-> "verified", of |-> u, with |-> account[u].password]]
    /\ UNCHANGED <<account, session, chosen, retired>>

\* login, or accept_invitation by somebody who has an account.
VerifyLogin(c, u) ==
    /\ call[c] = NoCall
    /\ ~account[u].disabled
    /\ Compare(c, u, "login")

\* A password change is authorised by a session first, and waits for the row.
BeginChange(c, s) ==
    /\ call[c] = NoCall
    /\ Accepted(s)
    /\ call' = [call EXCEPT ![c] =
           [kind |-> "change", pc |-> "waiting", of |-> session[s].of, with |-> 0]]
    /\ UNCHANGED <<account, session, chosen, retired>>

VerifyChange(c) ==
    /\ call[c].pc = "waiting"
    /\ Compare(c, call[c].of, "change")

\* 401, 403 or 429, or the process dies: the transaction is rolled back.
EndCall(c) ==
    /\ call[c] # NoCall
    /\ call' = [call EXCEPT ![c] = NoCall]
    /\ UNCHANGED <<account, session, chosen, retired>>

\* issue_session, and the commit.
IssueSession(c, s) ==
    /\ call[c].pc = "verified" /\ call[c].kind = "login"
    /\ session[s] = Unopened
    /\ session' = [session EXCEPT ![s] =
           [of |-> call[c].of, live |-> TRUE, with |-> call[c].with]]
    /\ call' = [call EXCEPT ![c] = NoCall]
    /\ UNCHANGED <<account, chosen, retired>>

\* change_password: also the session that asked for it ends.
ChangePassword(c) ==
    LET u == call[c].of IN
    /\ call[c].pc = "verified" /\ call[c].kind = "change"
    /\ chosen < MaxPasswords
    /\ chosen' = chosen + 1
    /\ account' = [account EXCEPT ![u].password = chosen + 1]
    /\ retired' = retired \union {account[u].password}
    /\ session' = Revoked(SessionsOf(u))
    /\ call' = [call EXCEPT ![c] = NoCall]

\* A key is created or an invitation sent.
IssueGrant(s) ==
    /\ session[s] = Unopened
    /\ session' = [session EXCEPT ![s] = [of |-> Company, live |-> TRUE, with |-> 0]]
    /\ UNCHANGED <<account, call, chosen, retired>>

\* Logout, revocation, rotation, acceptance, or the time is up.
EndToken(s) ==
    /\ session[s].live
    /\ session' = Revoked({s})
    /\ UNCHANGED <<account, call, chosen, retired>>
-----------------------------------------------------------------------------
(* The operator, and accounts that an invitation creates *)

CreateAccount(u) ==
    /\ ~HasAccount(u)
    /\ Choose(u)
    /\ UNCHANGED <<session, call>>

\* An account that accept_invitation creates is signed in at once.
CreateSignedIn(u, s) ==
    /\ ~HasAccount(u)
    /\ session[s] = Unopened
    /\ Choose(u)
    /\ session' = [session EXCEPT ![s] = [of |-> u, live |-> TRUE, with |-> chosen + 1]]
    /\ UNCHANGED call

\* reset-password: recovery also enables an account that was disabled.
ResetPassword(u) ==
    /\ HasAccount(u) /\ RowFree(u)
    /\ Choose(u)
    /\ session' = Revoked(SessionsOf(u))
    /\ UNCHANGED call
-----------------------------------------------------------------------------
SessionsNext ==
    \/ \E c \in Calls, u \in People : VerifyLogin(c, u)
    \/ \E c \in Calls, s \in Tokens : BeginChange(c, s)
    \/ \E c \in Calls : VerifyChange(c) \/ EndCall(c) \/ ChangePassword(c)
    \/ \E c \in Calls, s \in Tokens : IssueSession(c, s)
    \/ \E s \in Tokens : IssueGrant(s) \/ EndToken(s)
    \/ \E u \in People : CreateAccount(u) \/ ResetPassword(u)
    \/ \E u \in People, s \in Tokens : CreateSignedIn(u, s)

SessionsSpec == SessionsInit /\ [][SessionsNext]_sessionsVars
-----------------------------------------------------------------------------
(* Properties *)

Passwords == 0..MaxPasswords

\* Beside the types: what works belongs to the company or to somebody with an
\* account.
SessionsTypeOK ==
    /\ account \in [People -> [password : Passwords, disabled : BOOLEAN]]
    /\ session \in [Tokens -> [of : People \union {NoPerson, Company}, live : BOOLEAN,
                               with : Passwords]]
    /\ \A s \in Tokens : session[s].live =>
          session[s].of = Company \/ (session[s].of \in People /\ HasAccount(session[s].of))
    /\ call \in [Calls -> [kind : {"none", "login", "change"},
                           pc : {"idle", "waiting", "verified"},
                           of : People \union {NoPerson}, with : Passwords]]
    /\ chosen \in Passwords
    /\ retired \subseteq 1..chosen

\* No session that was opened with a replaced password is accepted: neither one
\* that was open when the password changed, nor one whose login had compared the
\* old password and had not committed yet, nor one that a restored backup brings
\* back or lets in (docs/OPERATIONS.md:68, "revokes all of that user's sessions").
NoOldPassword == \A s \in Tokens : session[s].live => session[s].with \notin retired
-----------------------------------------------------------------------------
(* The inductive invariant behind it *)

\* No two accounts share a password, and one in use has not been replaced.
PasswordsInv ==
    /\ \A u \in People : account[u].password <= chosen
    /\ \A u, v \in People :
          u # v /\ HasAccount(u) => account[u].password # account[v].password
    /\ \A u \in People : account[u].disabled \/ account[u].password \notin retired

\* The row is locked, and what was compared is still the password.
Verified(c) == call[c].pc = "verified"

CallsInv ==
    /\ \A c \in Calls : call[c].pc # "idle" => call[c].of \in People
    /\ \A c \in Calls : Verified(c) =>
          /\ HasAccount(call[c].of)
          /\ call[c].with = account[call[c].of].password
          /\ call[c].kind = "login" => ~account[call[c].of].disabled
    /\ \A c, d \in Calls : Verified(c) /\ Verified(d) /\ c # d => call[c].of # call[d].of

\* A session that works was opened with what is still the password.
LiveInv ==
    \A s \in Tokens : session[s].live =>
        \/ session[s].of = Company /\ session[s].with = 0
        \/ /\ session[s].of \in People /\ HasAccount(session[s].of)
           /\ ~account[session[s].of].disabled
           /\ session[s].with = account[session[s].of].password

SessionsInv == SessionsTypeOK /\ PasswordsInv /\ CallsInv /\ LiveInv
=============================================================================
