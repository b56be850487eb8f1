---------------------------- MODULE BackupProofs ----------------------------
(***************************************************************************)
(* Passwords, sessions and restored backups, for any number of people,     *)
(* tokens, calls and documents.                                            *)
(*                                                                         *)
(* SessionsInv says why no session outlives its password: a session that   *)
(* works was opened with what is still the password, and what a call has   *)
(* compared cannot change before the call commits, because it holds the    *)
(* row.  A restore needs two more facts: a backup's passwords were chosen  *)
(* before and differ, and a restored place has the files of its rows.      *)
(***************************************************************************)
EXTENDS Backup, TLAPS

USE SessionsAssumption
-----------------------------------------------------------------------------
(* Values *)

Account == [password : Passwords, disabled : BOOLEAN]
Session == [of : People \union {NoPerson, Company}, live : BOOLEAN, with : Passwords]
Call == [kind : {"none", "login", "change"}, pc : {"idle", "waiting", "verified"},
         of : People \union {NoPerson}, with : Passwords]

Typed ==
    /\ account \in [People -> Account] /\ session \in [Tokens -> Session]
    /\ call \in [Calls -> Call] /\ chosen \in Passwords /\ retired \subseteq 1..chosen

\* The last part of the type invariant follows from LiveInv.
LEMMA TypeFromParts ==
    ASSUME Typed, LiveInv PROVE SessionsTypeOK
BY DEF Typed, LiveInv, SessionsTypeOK, Account, Session, Call

LEMMA PartsFromType ==
    ASSUME SessionsTypeOK PROVE Typed
BY DEF Typed, SessionsTypeOK, Account, Session, Call

\* Revoking changes nothing but whether a token works.
LEMMA RevokedTokens ==
    ASSUME Typed, NEW S \in SUBSET Tokens
    PROVE  /\ Revoked(S) \in [Tokens -> Session]
           /\ \A s \in Tokens :
                 /\ Revoked(S)[s].of = session[s].of /\ Revoked(S)[s].with = session[s].with
                 /\ Revoked(S)[s].live <=> session[s].live /\ s \notin S
BY DEF Typed, Revoked, Session

\* The next password is one, and new.
LEMMA NextPassword ==
    ASSUME Typed, chosen < MaxPasswords
    PROVE  /\ chosen + 1 \in Passwords /\ chosen + 1 # 0
           /\ chosen + 1 \notin retired /\ chosen \in Nat
BY DEF Typed, Passwords

\* No session that works was opened with a replaced password.
LEMMA LiveIsNotOld ==
    ASSUME SessionsInv PROVE NoOldPassword
<1> SUFFICES ASSUME NEW s \in Tokens, session[s].live PROVE session[s].with \notin retired
  BY DEF NoOldPassword
<1>1. Typed
  BY PartsFromType DEF SessionsInv
<1>2. CASE session[s].with = 0
  BY <1>1, <1>2 DEF Typed, Passwords
<1>3. CASE session[s].of \in People /\ ~account[session[s].of].disabled
           /\ session[s].with = account[session[s].of].password
  BY <1>3 DEF SessionsInv, PasswordsInv
<1>4. QED
  BY <1>2, <1>3 DEF SessionsInv, LiveInv
-----------------------------------------------------------------------------
(* Requests *)

LEMMA CompareInv ==
    ASSUME SessionsInv, NEW c \in Calls, NEW u \in People, NEW kind \in {"login", "change"},
           Compare(c, u, kind), kind = "login" => ~account[u].disabled
    PROVE  SessionsInv'
<1>1. Typed
  BY PartsFromType DEF SessionsInv
<1>2. UNCHANGED <<account, session, chosen, retired>>
      /\ call' = [call EXCEPT ![c] =
             [kind |-> kind, pc |-> "verified", of |-> u, with |-> account[u].password]]
  BY DEF Compare
<1>3. Typed'
  BY <1>1, <1>2 DEF Typed, Account, Call
<1>4. PasswordsInv' /\ LiveInv'
  BY <1>2 DEF SessionsInv, PasswordsInv, LiveInv, HasAccount
<1>5. CallsInv'
  <2>1. \A d \in Calls : d # c => call'[d] = call[d]
    BY <1>1, <1>2 DEF Typed
  <2>2. call'[c].pc = "verified" /\ call'[c].of = u /\ call'[c].with = account[u].password
        /\ call'[c].kind = kind
    BY <1>1, <1>2 DEF Typed
  <2>3. HasAccount(u) /\ \A d \in Calls : Verified(d) => call[d].of # u
    BY DEF Compare, RowFree, Verified
  <2>4. QED
    BY <1>2, <2>1, <2>2, <2>3 DEF SessionsInv, CallsInv, Verified, HasAccount
<1>6. QED
  BY <1>3, <1>4, <1>5 DEF SessionsInv, SessionsTypeOK, Typed, LiveInv, Account, Session, Call

\* A call that waits, or is over, holds no row.
LEMMA QuietCallInv ==
    ASSUME SessionsInv, NEW c \in Calls, NEW quiet \in Call,
           (quiet.pc = "waiting" /\ quiet.of \in People) \/ quiet = NoCall,
           call' = [call EXCEPT ![c] = quiet], UNCHANGED <<account, session, chosen, retired>>
    PROVE  SessionsInv'
<1>1. Typed
  BY PartsFromType DEF SessionsInv
<1>2. Typed'
  BY <1>1 DEF Typed
<1>3. PasswordsInv' /\ LiveInv'
  BY DEF SessionsInv, PasswordsInv, LiveInv, HasAccount
<1>4. CallsInv'
  <2>1. \A d \in Calls : d # c => call'[d] = call[d]
    BY <1>1 DEF Typed
  <2>2. call'[c] = quiet /\ quiet.pc # "verified" /\ (quiet.pc # "idle" => quiet.of \in People)
    BY <1>1 DEF Typed, NoCall
  <2>3. QED
    BY <2>1, <2>2 DEF SessionsInv, CallsInv, Verified, HasAccount
<1>5. QED
  BY <1>2, <1>3, <1>4 DEF SessionsInv, SessionsTypeOK, Typed, LiveInv, Account, Session, Call
-----------------------------------------------------------------------------
(* Tokens *)

LEMMA IssueSessionInv ==
    ASSUME SessionsInv, NEW c \in Calls, NEW s \in Tokens, IssueSession(c, s)
    PROVE  SessionsInv'
<1>1. Typed
  BY PartsFromType DEF SessionsInv
<1>2. /\ Verified(c) /\ call[c].kind = "login" /\ call[c].of \in People
      /\ call[c].with \in Passwords
      /\ session' = [session EXCEPT ![s] =
             [of |-> call[c].of, live |-> TRUE, with |-> call[c].with]]
      /\ call' = [call EXCEPT ![c] = NoCall]
      /\ UNCHANGED <<account, chosen, retired>>
  BY <1>1 DEF IssueSession, Verified, SessionsInv, CallsInv, Typed, Call
<1>3. Typed'
  BY <1>1, <1>2 DEF Typed, Session, Call, NoCall, Passwords
<1>4. PasswordsInv'
  BY <1>2 DEF SessionsInv, PasswordsInv, HasAccount
<1>5. CallsInv'
  <2>1. \A d \in Calls : d # c => call'[d] = call[d]
    BY <1>1, <1>2 DEF Typed
  <2>2. call'[c].pc = "idle"
    BY <1>1, <1>2 DEF Typed, NoCall
  <2>3. QED
    BY <1>2, <2>1, <2>2 DEF SessionsInv, CallsInv, Verified, HasAccount
<1>6. LiveInv'
  <2>1. \A r \in Tokens : r # s => session'[r] = session[r]
    BY <1>1, <1>2 DEF Typed
  <2>2. session'[s].of = call[c].of /\ session'[s].with = call[c].with
    BY <1>1, <1>2 DEF Typed
  <2>3. HasAccount(call[c].of) /\ call[c].with = account[call[c].of].password
        /\ ~account[call[c].of].disabled
    BY <1>2 DEF SessionsInv, CallsInv
  <2>4. QED
    BY <1>2, <2>1, <2>2, <2>3 DEF SessionsInv, LiveInv, HasAccount
<1>7. QED
  BY <1>3, <1>4, <1>5, <1>6 DEF SessionsInv, SessionsTypeOK, Typed, LiveInv, Account, Session, Call

LEMMA IssueGrantInv ==
    ASSUME SessionsInv, NEW s \in Tokens, IssueGrant(s)
    PROVE  SessionsInv'
<1>1. Typed
  BY PartsFromType DEF SessionsInv
<1>2. session' = [session EXCEPT ![s] = [of |-> Company, live |-> TRUE, with |-> 0]]
      /\ UNCHANGED <<account, call, chosen, retired>>
  BY DEF IssueGrant
<1>3. Typed'
  BY <1>1, <1>2 DEF Typed, Session, Passwords
<1>4. PasswordsInv' /\ CallsInv'
  BY <1>2 DEF SessionsInv, PasswordsInv, CallsInv, HasAccount, Verified
<1>5. LiveInv'
  <2>1. \A r \in Tokens : r # s => session'[r] = session[r]
    BY <1>1, <1>2 DEF Typed
  <2>2. session'[s].of = Company /\ session'[s].with = 0
    BY <1>1, <1>2 DEF Typed
  <2>3. QED
    BY <1>2, <2>1, <2>2 DEF SessionsInv, LiveInv, HasAccount
<1>6. QED
  BY <1>3, <1>4, <1>5 DEF SessionsInv, SessionsTypeOK, Typed, LiveInv, Account, Session, Call

LEMMA EndTokenInv ==
    ASSUME SessionsInv, NEW s \in Tokens, EndToken(s)
    PROVE  SessionsInv'
<1>1. Typed
  BY PartsFromType DEF SessionsInv
<1>2. session' = Revoked({s}) /\ UNCHANGED <<account, call, chosen, retired>>
  BY DEF EndToken
<1>3. Typed'
  BY <1>1, <1>2, RevokedTokens DEF Typed
<1>4. PasswordsInv' /\ CallsInv'
  BY <1>2 DEF SessionsInv, PasswordsInv, CallsInv, HasAccount, Verified
<1>5. LiveInv'
  BY <1>1, <1>2, RevokedTokens DEF SessionsInv, LiveInv, HasAccount
<1>6. QED
  BY <1>3, <1>4, <1>5 DEF SessionsInv, SessionsTypeOK, Typed, LiveInv, Account, Session, Call
-----------------------------------------------------------------------------
(* New passwords *)

\* What a person's new password leaves of PasswordsInv, whoever chooses it.
LEMMA NewPassword ==
    ASSUME SessionsInv, NEW u \in People, chosen < MaxPasswords, chosen' = chosen + 1,
           account' \in [People -> Account], account'[u].password = chosen + 1,
           \A v \in People : v # u => account'[v] = account[v],
           retired' = retired \union ({account[u].password} \ {0})
    PROVE  PasswordsInv' /\ retired' \subseteq 1..chosen' /\ chosen' \in Passwords
<1>1. Typed
  BY PartsFromType DEF SessionsInv
<1>2. /\ chosen + 1 \in Passwords /\ chosen + 1 # 0
      /\ chosen + 1 \notin retired /\ chosen \in Nat
  BY <1>1, NextPassword
<1>3. \A v \in People : account[v].password \in Nat /\ account[v].password <= chosen
  BY <1>1 DEF Typed, Account, Passwords, SessionsInv, PasswordsInv
<1>4. retired' \subseteq 1..chosen'
  <2>1. retired \subseteq 1..(chosen + 1)
    BY <1>1, <1>2 DEF Typed
  <2>2. account[u].password # 0 => account[u].password \in 1..(chosen + 1)
    BY <1>2, <1>3
  <2>3. QED BY <2>1, <2>2
<1>5. \A v \in People : account'[v].password <= chosen'
  BY <1>2, <1>3
<1>6. \A v, w \in People :
         v # w /\ HasAccount(v)' => account'[v].password # account'[w].password
  <2> TAKE v, w \in People
  <2>1. CASE v = u \/ w = u
    BY <1>2, <1>3, <2>1
  <2>2. CASE v # u /\ w # u
    BY <2>2 DEF HasAccount, SessionsInv, PasswordsInv
  <2>3. QED BY <2>1, <2>2
<1>7. \A v \in People : account'[v].disabled \/ account'[v].password \notin retired'
  <2> TAKE v \in People
  <2>1. CASE v = u
    BY <1>2, <1>3, <2>1
  <2>2. CASE v # u
    <3>1. account'[v] = account[v]
      BY <2>2
    <3>2. account[u].password = 0 \/ account[u].password # account[v].password
      BY <2>2 DEF SessionsInv, PasswordsInv, HasAccount
    <3>3. QED BY <3>1, <3>2 DEF SessionsInv, PasswordsInv
  <2>3. QED BY <2>1, <2>2
<1>8. QED
  BY <1>2, <1>4, <1>5, <1>6, <1>7 DEF PasswordsInv, HasAccount

LEMMA ChangePasswordInv ==
    ASSUME SessionsInv, NEW c \in Calls, ChangePassword(c)
    PROVE  SessionsInv'
<1> DEFINE u == call[c].of
<1>1. Typed
  BY PartsFromType DEF SessionsInv
<1>2. /\ Verified(c) /\ u \in People /\ HasAccount(u)
      /\ chosen < MaxPasswords /\ chosen' = chosen + 1
      /\ account' = [account EXCEPT ![u].password = chosen + 1]
      /\ retired' = retired \union {account[u].password}
      /\ session' = Revoked(SessionsOf(u))
      /\ call' = [call EXCEPT ![c] = NoCall]
  BY DEF ChangePassword, Verified, SessionsInv, CallsInv
<1>3. /\ account' \in [People -> Account] /\ account'[u].password = chosen + 1
      /\ \A v \in People : v # u => account'[v] = account[v]
  BY <1>1, <1>2, NextPassword DEF Typed, Account
<1>4. retired' = retired \union ({account[u].password} \ {0})
  BY <1>2 DEF HasAccount
<1>5. PasswordsInv' /\ retired' \subseteq 1..chosen' /\ chosen' \in Passwords
  BY <1>2, <1>3, <1>4, NewPassword
<1>6. /\ session' \in [Tokens -> Session]
      /\ \A s \in Tokens :
            /\ session'[s].of = session[s].of /\ session'[s].with = session[s].with
            /\ session'[s].live <=> session[s].live /\ session[s].of # u
  BY <1>1, <1>2, RevokedTokens DEF SessionsOf
<1>7. call' \in [Calls -> Call] /\ call'[c].pc = "idle"
      /\ \A d \in Calls : d # c => call'[d] = call[d]
  BY <1>1, <1>2 DEF Typed, Call, NoCall, Passwords
<1>8. Typed'
  BY <1>3, <1>5, <1>6, <1>7 DEF Typed
<1>9. CallsInv'
  <2>1. \A d \in Calls : Verified(d)' =>
            d # c /\ Verified(d) /\ call[d].of # u /\ call[d].of \in People
    BY <1>2, <1>7 DEF Verified, SessionsInv, CallsInv
  <2>2. QED
    BY <1>3, <1>7, <2>1 DEF SessionsInv, CallsInv, Verified, HasAccount
<1>10. LiveInv'
  BY <1>3, <1>6 DEF SessionsInv, LiveInv, HasAccount
<1>11. QED
  BY <1>5, <1>8, <1>9, <1>10 DEF SessionsInv, SessionsTypeOK, Typed, LiveInv, Account, Session, Call

\* What Choose leaves, if nobody holds u's row and only u's tokens are touched.
LEMMA ChooseInv ==
    ASSUME SessionsInv, NEW u \in People, Choose(u), UNCHANGED call,
           \A c \in Calls : Verified(c) => call[c].of # u,
           session' \in [Tokens -> Session],
           \A s \in Tokens : session'[s].live =>
               \/ session'[s].of = u /\ session'[s].with = chosen + 1
               \/ session[s].of # u /\ session'[s] = session[s]
    PROVE  SessionsInv'
<1>1. Typed
  BY PartsFromType DEF SessionsInv
<1>2. /\ chosen < MaxPasswords /\ chosen' = chosen + 1
      /\ account' = [account EXCEPT ![u] = [password |-> chosen + 1, disabled |-> FALSE]]
      /\ retired' = retired \union ({account[u].password} \ {0})
  BY DEF Choose
<1>3. /\ account' \in [People -> Account] /\ account'[u].password = chosen + 1
      /\ ~account'[u].disabled
      /\ \A v \in People : v # u => account'[v] = account[v]
  BY <1>1, <1>2, NextPassword DEF Typed, Account
<1>4. PasswordsInv' /\ retired' \subseteq 1..chosen' /\ chosen' \in Passwords
  BY <1>2, <1>3, NewPassword
<1>5. Typed'
  BY <1>1, <1>3, <1>4 DEF Typed
<1>6. CallsInv'
  BY <1>3 DEF SessionsInv, CallsInv, Verified, HasAccount
<1>7. LiveInv'
  BY <1>1, <1>2, <1>3, NextPassword DEF SessionsInv, LiveInv, HasAccount
<1>8. QED
  BY <1>4, <1>5, <1>6, <1>7 DEF SessionsInv, SessionsTypeOK, Typed, LiveInv, Account, Session, Call

\* Who has no account holds no row and has no session.
LEMMA Newcomer ==
    ASSUME SessionsInv, NEW u \in People, ~HasAccount(u)
    PROVE  /\ \A c \in Calls : Verified(c) => call[c].of # u
           /\ \A s \in Tokens : session[s].live => session[s].of # u
BY DEF SessionsInv, CallsInv, LiveInv

LEMMA CreateAccountInv ==
    ASSUME SessionsInv, NEW u \in People, CreateAccount(u)
    PROVE  SessionsInv'
<1>1. Typed
  BY PartsFromType DEF SessionsInv
<1>2. ~HasAccount(u) /\ Choose(u) /\ UNCHANGED <<session, call>>
  BY DEF CreateAccount
<1>3. session' \in [Tokens -> Session]
  BY <1>1, <1>2 DEF Typed
<1>4. QED
  BY <1>2, <1>3, Newcomer, ChooseInv

LEMMA CreateSignedInInv ==
    ASSUME SessionsInv, NEW u \in People, NEW s \in Tokens, CreateSignedIn(u, s)
    PROVE  SessionsInv'
<1>1. Typed
  BY PartsFromType DEF SessionsInv
<1>2. ~HasAccount(u) /\ Choose(u) /\ UNCHANGED call /\ chosen < MaxPasswords
      /\ session' = [session EXCEPT ![s] = [of |-> u, live |-> TRUE, with |-> chosen + 1]]
  BY DEF CreateSignedIn, Choose
<1>3. session' \in [Tokens -> Session]
  BY <1>1, <1>2, NextPassword DEF Typed, Session
<1>4. \A r \in Tokens : IF r = s THEN session'[r].of = u /\ session'[r].with = chosen + 1
                                 ELSE session'[r] = session[r]
  BY <1>1, <1>2 DEF Typed
<1>5. QED
  BY <1>2, <1>3, <1>4, Newcomer, ChooseInv

LEMMA ResetPasswordInv ==
    ASSUME SessionsInv, NEW u \in People, ResetPassword(u)
    PROVE  SessionsInv'
<1>1. Typed
  BY PartsFromType DEF SessionsInv
<1>2. RowFree(u) /\ Choose(u) /\ session' = Revoked(SessionsOf(u)) /\ UNCHANGED call
  BY DEF ResetPassword
<1>3. session' \in [Tokens -> Session]
  BY <1>1, <1>2, RevokedTokens DEF SessionsOf
<1>4. \A s \in Tokens : session'[s].live => session[s].of # u /\ session'[s] = session[s]
  BY <1>1, <1>2 DEF Typed, Revoked, SessionsOf, Session
<1>5. \A c \in Calls : Verified(c) => call[c].of # u
  BY <1>2 DEF RowFree, Verified
<1>6. QED
  BY <1>2, <1>3, <1>4, <1>5, ChooseInv
-----------------------------------------------------------------------------
(* Every step of the running system *)

LEMMA SessionsInitInv ==
    ASSUME SessionsInit PROVE SessionsInv
<1>1. Typed
  BY DEF SessionsInit, Typed, Account, Session, Call, Unopened, NoCall, Passwords
<1>2. PasswordsInv /\ CallsInv /\ LiveInv
  BY DEF SessionsInit, PasswordsInv, CallsInv, LiveInv, HasAccount, Verified, Unopened, NoCall
<1>3. QED
  BY <1>1, <1>2, TypeFromParts DEF SessionsInv

LEMMA SessionsStep ==
    ASSUME SessionsInv, [SessionsNext]_sessionsVars
    PROVE  SessionsInv'
<1>1. Typed
  BY PartsFromType DEF SessionsInv
<1>2. ASSUME NEW c \in Calls, NEW u \in People, VerifyLogin(c, u) PROVE SessionsInv'
  BY <1>2, CompareInv DEF VerifyLogin
<1>3. ASSUME NEW c \in Calls, NEW s \in Tokens, BeginChange(c, s) PROVE SessionsInv'
  <2> DEFINE quiet == [kind |-> "change", pc |-> "waiting", of |-> session[s].of, with |-> 0]
  <2>1. quiet \in Call /\ quiet.pc = "waiting" /\ quiet.of \in People
    BY <1>3 DEF BeginChange, Accepted, Call, Passwords
  <2>2. call' = [call EXCEPT ![c] = quiet] /\ UNCHANGED <<account, session, chosen, retired>>
    BY <1>3 DEF BeginChange
  <2>3. QED
    BY <2>1, <2>2, QuietCallInv
<1>4. ASSUME NEW c \in Calls, VerifyChange(c) PROVE SessionsInv'
  <2>1. call[c].of \in People /\ Compare(c, call[c].of, "change")
    BY <1>4 DEF VerifyChange, SessionsInv, CallsInv
  <2>2. QED
    BY <2>1, CompareInv
<1>5. ASSUME NEW c \in Calls, EndCall(c) PROVE SessionsInv'
  <2>1. NoCall \in Call
    BY DEF NoCall, Call, Passwords
  <2>2. QED
    BY <1>5, <2>1, QuietCallInv DEF EndCall
<1>6. CASE UNCHANGED sessionsVars
  BY <1>6 DEF sessionsVars, SessionsInv, SessionsTypeOK, PasswordsInv, CallsInv, LiveInv,
              HasAccount, Verified
<1>7. QED
  BY <1>2, <1>3, <1>4, <1>5, <1>6, ChangePasswordInv, IssueSessionInv, IssueGrantInv, EndTokenInv,
     CreateAccountInv, CreateSignedInInv, ResetPasswordInv DEF SessionsNext

\* A token that has been opened and has ended is not opened again.
LEMMA EndedStep ==
    ASSUME SessionsInv, SessionsNext, NEW s \in Tokens, session[s] # Unopened, ~session[s].live
    PROVE  ~session'[s].live
<1>1. Typed
  BY PartsFromType DEF SessionsInv
<1>2. ASSUME NEW S \in SUBSET Tokens, session' = Revoked(S) PROVE ~session'[s].live
  BY <1>1, <1>2, RevokedTokens
<1>3. ASSUME NEW c \in Calls, NEW r \in Tokens, IssueSession(c, r) PROVE ~session'[s].live
  BY <1>1, <1>3 DEF IssueSession, Typed
<1>4. ASSUME NEW r \in Tokens, IssueGrant(r) PROVE ~session'[s].live
  BY <1>1, <1>4 DEF IssueGrant, Typed
<1>5. ASSUME NEW u \in People, NEW r \in Tokens, CreateSignedIn(u, r) PROVE ~session'[s].live
  BY <1>1, <1>5 DEF CreateSignedIn, Typed
<1>6. ASSUME NEW c \in Calls, ChangePassword(c) PROVE ~session'[s].live
  BY <1>2, <1>6 DEF ChangePassword, SessionsOf
<1>7. ASSUME NEW u \in People, ResetPassword(u) PROVE ~session'[s].live
  BY <1>2, <1>7 DEF ResetPassword, SessionsOf
<1>8. ASSUME NEW r \in Tokens, EndToken(r) PROVE ~session'[s].live
  BY <1>2, <1>8 DEF EndToken
<1>9. CASE UNCHANGED session
  BY <1>9
<1>10. QED
  BY <1>3, <1>4, <1>5, <1>6, <1>7, <1>8, <1>9
     DEF SessionsNext, VerifyLogin, BeginChange, VerifyChange, Compare, EndCall, CreateAccount

\* Passwords are only ever added.
LEMMA ChosenGrows ==
    ASSUME SessionsInv, [SessionsNext]_sessionsVars
    PROVE  chosen \in Nat /\ chosen' \in Nat /\ chosen <= chosen'
<1>1. chosen \in Nat
  BY PartsFromType DEF SessionsInv, Typed, Passwords
<1>2. chosen' = chosen \/ chosen' = chosen + 1
  BY DEF SessionsNext, VerifyLogin, BeginChange, VerifyChange, Compare, EndCall, ChangePassword,
         IssueSession, IssueGrant, EndToken, CreateAccount, CreateSignedIn, ResetPassword, Choose,
         sessionsVars
<1>3. QED
  BY <1>1, <1>2
-----------------------------------------------------------------------------
(* Every step of backup and restore *)

Paper == [upload : {"none", "stored", "committed", "over"}, row : BOOLEAN, file : BOOLEAN,
          busy : BOOLEAN, asked : BOOLEAN, lost : BOOLEAN]
Dumped == [rows : SUBSET Papers, asked : SUBSET Papers,
           account : [People -> Account], session : [Tokens -> Session]]
Backups == [pc : {"none", "copying", "dumped", "complete"},
            listed : SUBSET Papers, copied : SUBSET Papers, dump : Dumped]

Places == paper \in [Papers -> Paper] /\ backup \in Backups /\ restored \in BOOLEAN

LEMMA PlacesTyped == BackupTypeOK <=> Places
BY DEF BackupTypeOK, Places, Paper, Backups, Dumped, Account, Session

LEMMA DatabaseTyped ==
    ASSUME Typed, Places
    PROVE  Database \in Dumped /\ NoBackup \in Backups
BY DEF Typed, Places, Database, Rows, Dumped, NoBackup, NoDatabase, Backups, Account, Session,
       Unopened, Passwords

LEMMA BackupInitInv ==
    ASSUME BackupInit PROVE BackupInv
<1>1. SessionsInv /\ Typed
  BY SessionsInitInv, PartsFromType DEF BackupInit, SessionsInv
<1>2. NoBackup \in Backups
  BY DEF NoBackup, NoDatabase, Backups, Dumped, Account, Session, Unopened, Passwords
<1>3. Places
  BY <1>2 DEF BackupInit, Places, Paper, NoPaper
<1>4. DumpInv
  BY <1>1 DEF BackupInit, DumpInv, NoBackup, NoDatabase, Typed, Passwords
<1>5. PlaceInv /\ RowsKeepFiles
  BY DEF BackupInit, PlaceInv, RowsKeepFiles, NoPaper
<1>6. QED
  BY <1>1, <1>3, <1>4, <1>5, PlacesTyped DEF BackupInv
\* A step of the sessions leaves the places and the backup alone.
LEMMA SystemStepInv ==
    ASSUME BackupInv, [SessionsNext]_sessionsVars, UNCHANGED <<paper, backup, restored>>
    PROVE  BackupInv'
<1>1. SessionsInv'
  BY SessionsStep DEF BackupInv
<1>2. BackupTypeOK' /\ PlaceInv' /\ RowsKeepFiles'
  BY DEF BackupInv, BackupTypeOK, PlaceInv, RowsKeepFiles, SameDocuments
<1>3. DumpInv'
  <2>1. chosen \in Nat /\ chosen' \in Nat /\ chosen <= chosen'
    BY ChosenGrows DEF BackupInv
  <2>2. \A u \in People : backup.dump.account[u].password \in Nat
    BY DEF BackupInv, BackupTypeOK, Passwords
  <2>3. QED
    BY <2>1, <2>2 DEF BackupInv, DumpInv
<1>4. QED
  BY <1>1, <1>2, <1>3 DEF BackupInv

\* What happens to a document while nothing else does.
DocumentStep(d) ==
    \/ StoreFile(d) \/ CommitRow(d) \/ UndoUpload(d)
    \/ ClaimDeletion(d) \/ DeleteFile(d) \/ EndDeletion(d)

LEMMA PaperStepInv ==
    ASSUME BackupInv, NEW d \in Papers,
           DocumentStep(d)
    PROVE  BackupInv'
<1>1. UNCHANGED <<sessionsVars, backup, restored>>
  BY DEF DocumentStep, StoreFile, CommitRow, UndoUpload, ClaimDeletion, DeleteFile,
         EndDeletion
<1>2. SessionsInv'
  BY <1>1, SessionsStep DEF BackupInv
<1>3. Places
  BY PlacesTyped DEF BackupInv
<1>4. /\ paper' \in [Papers -> Paper]
      /\ \A e \in Papers : e # d => paper'[e] = paper[e]
      /\ paper'[d].busy => paper'[d].asked
      /\ paper'[d].upload = "stored" => paper'[d].file \/ paper'[d].asked
      /\ paper'[d].row /\ ~paper'[d].file => paper'[d].asked \/ paper'[d].lost
  <2>1. /\ paper[d] \in Paper
        /\ paper[d].busy => paper[d].asked
        /\ paper[d].upload = "stored" => paper[d].file \/ paper[d].asked
        /\ paper[d].row /\ ~paper[d].file => paper[d].asked \/ paper[d].lost
    BY <1>3 DEF Places, BackupInv, PlaceInv, RowsKeepFiles
  <2>2. CASE StoreFile(d)
    BY <1>3, <2>1, <2>2 DEF StoreFile, Places, Paper
  <2>3. CASE CommitRow(d)
    BY <1>3, <2>1, <2>3 DEF CommitRow, Places, Paper
  <2>4. CASE ClaimDeletion(d)
    BY <1>3, <2>1, <2>4 DEF ClaimDeletion, Places, Paper
  <2>5. CASE DeleteFile(d)
    BY <1>3, <2>1, <2>5 DEF DeleteFile, Places, Paper
  <2>6. CASE EndDeletion(d)
    <3>1. CASE paper' = [paper EXCEPT ![d].busy = FALSE, ![d].row = FALSE]
      BY <1>3, <2>1, <3>1 DEF Places, Paper
    <3>2. CASE paper' = [paper EXCEPT ![d].busy = FALSE]
      BY <1>3, <2>1, <3>2 DEF Places, Paper
    <3>3. QED
      BY <2>6, <3>1, <3>2 DEF EndDeletion
  <2>7. CASE UndoUpload(d)
    BY <1>3, <2>1, <2>7 DEF UndoUpload, Places, Paper
  <2>8. QED
    BY <2>2, <2>3, <2>4, <2>5, <2>6, <2>7 DEF DocumentStep
<1>5. BackupTypeOK'
  BY <1>1, <1>3, <1>4 DEF Places, BackupTypeOK, Paper, Backups, Dumped, Account, Session
<1>6. DumpInv' /\ PlaceInv' /\ RowsKeepFiles'
  BY <1>1, <1>4 DEF BackupInv, DumpInv, PlaceInv, RowsKeepFiles, SameDocuments, sessionsVars
<1>7. QED
  BY <1>2, <1>5, <1>6 DEF BackupInv

\* A backup that is under way, or fails, touches no place and no restored one exists.
LEMMA BackupStepInv ==
    ASSUME BackupInv, UNCHANGED <<systemVars, restored>>, ~restored,
           backup' \in Backups,
           backup'.dump = backup.dump \/ backup'.dump = Database \/ backup'.dump = NoDatabase
    PROVE  BackupInv'
<1>1. SessionsInv' /\ UNCHANGED sessionsVars
  BY SessionsStep DEF BackupInv, systemVars
<1>2. BackupTypeOK'
  BY DEF BackupInv, systemVars, BackupTypeOK, Backups, Dumped, Account, Session
<1>3. PlaceInv' /\ RowsKeepFiles'
  BY DEF BackupInv, systemVars, PlaceInv, RowsKeepFiles
<1>4. DumpInv'
  <2>1. CASE backup'.dump = backup.dump
    BY <1>1, <2>1 DEF BackupInv, DumpInv, sessionsVars
  <2>2. CASE backup'.dump = Database
    BY <1>1, <2>2
       DEF BackupInv, SessionsInv, PasswordsInv, HasAccount, DumpInv, Database, sessionsVars
  <2>3. CASE backup'.dump = NoDatabase
    <3>1. chosen \in Nat
      BY PartsFromType DEF BackupInv, SessionsInv, Typed, Passwords
    <3>2. QED
      BY <1>1, <2>3, <3>1 DEF DumpInv, NoDatabase, sessionsVars
  <2>4. QED
    BY <2>1, <2>2, <2>3
<1>5. QED
  BY <1>1, <1>2, <1>3, <1>4 DEF BackupInv

LEMMA TakingInv ==
    ASSUME BackupInv,
           BeginBackup \/ (\E d \in Papers : CopyFile(d)) \/ Dump \/ WriteManifest \/ BackupFails
    PROVE  BackupInv'
<1>1. Places /\ Typed /\ (restored => backup.pc = "complete")
  BY PlacesTyped, PartsFromType DEF BackupInv, SessionsInv, PlaceInv
<1>2. Database \in Dumped /\ NoBackup \in Backups /\ NoBackup.dump = NoDatabase
  BY <1>1, DatabaseTyped DEF NoBackup
<1>3. UNCHANGED <<systemVars, restored>> /\ ~restored
  BY <1>1 DEF BeginBackup, CopyFile, Dump, WriteManifest, BackupFails
<1>4. CASE BeginBackup
  <2>1. backup' \in Backups /\ backup'.dump = NoDatabase
    BY <1>2, <1>4 DEF BeginBackup, Backups, Rows
  <2>2. QED
    BY <1>3, <2>1, BackupStepInv
<1>5. ASSUME NEW d \in Papers, CopyFile(d) PROVE BackupInv'
  <2>1. backup' \in Backups /\ backup'.dump = backup.dump
    BY <1>1, <1>5 DEF CopyFile, Backups, Places
  <2>2. QED
    BY <1>3, <2>1, BackupStepInv
<1>6. CASE Dump
  <2>1. backup' \in Backups /\ backup'.dump = Database
    BY <1>1, <1>2, <1>6 DEF Dump, Backups, Places
  <2>2. QED
    BY <1>3, <2>1, BackupStepInv
<1>7. CASE WriteManifest
  <2>1. backup' \in Backups /\ backup'.dump = backup.dump
    BY <1>1, <1>7 DEF WriteManifest, Backups, Places
  <2>2. QED
    BY <1>3, <2>1, BackupStepInv
<1>8. CASE BackupFails
  BY <1>2, <1>3, <1>8, BackupStepInv DEF BackupFails
<1>9. QED
  BY <1>4, <1>5, <1>6, <1>7, <1>8

LEMMA RestoringInv ==
    ASSUME BackupInv, Restore \/ Discard
    PROVE  BackupInv'
<1>1. UNCHANGED <<systemVars, backup>> /\ UNCHANGED sessionsVars /\ UNCHANGED paper
      /\ restored' \in BOOLEAN
  BY DEF Restore, Discard, systemVars
<1>2. SessionsInv'
  BY <1>1, SessionsStep DEF BackupInv
<1>3. BackupTypeOK' /\ DumpInv' /\ RowsKeepFiles'
  BY <1>1 DEF BackupInv, BackupTypeOK, DumpInv, RowsKeepFiles, sessionsVars
<1>4. PlaceInv'
  BY <1>1 DEF BackupInv, PlaceInv, Restore, Discard, SameDocuments
<1>5. QED
  BY <1>2, <1>3, <1>4 DEF BackupInv
\* The place that starts has no credential that works, and the files of its rows.
LEMMA StartServiceInv ==
    ASSUME BackupInv, StartService
    PROVE  BackupInv' /\ \A s \in Tokens : ~session'[s].live
<1> DEFINE db == Invalidated(backup.dump)
<1>1. Places /\ Typed /\ SameDocuments
  BY PlacesTyped, PartsFromType DEF BackupInv, SessionsInv, PlaceInv, StartService
<1>2. backup.dump \in Dumped /\ backup.copied \in SUBSET Papers
  BY <1>1 DEF Places, Backups
<1>3. /\ db.account = [u \in People |-> [backup.dump.account[u] EXCEPT !.disabled = TRUE]]
      /\ db.session = [s \in Tokens |-> [backup.dump.session[s] EXCEPT !.live = FALSE]]
      /\ db.rows = backup.dump.rows /\ db.asked = backup.dump.asked
  BY <1>2 DEF Invalidated, Dumped
<1>4. /\ account' = db.account
      /\ session' = [s \in Tokens |-> [session[s] EXCEPT !.live = db.session[s].live]]
      /\ call' = [c \in Calls |-> NoCall]
      /\ paper' = [d \in Papers |->
             [row |-> d \in db.rows, file |-> d \in backup.copied,
              busy |-> FALSE, asked |-> d \in db.asked, lost |-> FALSE,
              upload |-> IF paper[d].upload = "none" THEN "none" ELSE "over"]]
      /\ restored' = FALSE
      /\ UNCHANGED <<chosen, retired, backup>>
  BY DEF StartService
<1>5. /\ account' \in [People -> Account]
      /\ \A u \in People : account'[u].disabled
                            /\ account'[u].password = backup.dump.account[u].password
  <2>1. \A u \in People : backup.dump.account[u] \in Account
    BY <1>2 DEF Dumped
  <2>2. account' = [u \in People |-> [backup.dump.account[u] EXCEPT !.disabled = TRUE]]
    BY <1>3, <1>4
  <2>3. ASSUME NEW u \in People
        PROVE  /\ account'[u] \in Account /\ account'[u].disabled = TRUE
               /\ account'[u].password = backup.dump.account[u].password
    BY <2>1, <2>2 DEF Account
  <2>4. account' \in [People -> Account]
    BY <2>2, <2>3
  <2>5. QED
    BY <2>3, <2>4
<1>6. \A s \in Tokens : db.session[s].live = FALSE
  BY <1>2, <1>3 DEF Dumped, Session
<1>7. session' \in [Tokens -> Session] /\ \A s \in Tokens : session'[s].live = FALSE
  BY <1>1, <1>4, <1>6 DEF Typed, Session
<1>8. call' \in [Calls -> Call] /\ \A c \in Calls : call'[c].pc = "idle"
  BY <1>4 DEF NoCall, Call, Passwords
<1>9. SessionsInv'
  <2>1. PasswordsInv'
    BY <1>4, <1>5 DEF BackupInv, DumpInv, PasswordsInv, HasAccount
  <2>2. CallsInv' /\ LiveInv'
    BY <1>7, <1>8 DEF CallsInv, LiveInv, Verified
  <2>3. Typed'
    BY <1>1, <1>4, <1>5, <1>7, <1>8 DEF Typed
  <2>4. QED
    BY <1>7, <2>1, <2>2, <2>3 DEF SessionsInv, SessionsTypeOK, Typed, Account, Session, Call
<1>10. /\ paper' \in [Papers -> Paper]
       /\ \A d \in Papers : /\ paper'[d].row = (d \in backup.dump.rows)
                             /\ paper'[d].file = (d \in backup.copied)
                             /\ paper'[d].busy = FALSE /\ paper'[d].upload # "stored"
  BY <1>3, <1>4 DEF Paper
<1>11. BackupTypeOK'
  BY <1>1, <1>4, <1>10 DEF Places, BackupTypeOK, Paper, Backups, Dumped, Account, Session
<1>12. DumpInv' /\ PlaceInv'
  BY <1>4, <1>10 DEF BackupInv, DumpInv, PlaceInv
<1>13. RowsKeepFiles'
  BY <1>1, <1>10 DEF RowsKeepFiles, SameDocuments
<1>14. QED
  BY <1>7, <1>9, <1>11, <1>12, <1>13 DEF BackupInv
-----------------------------------------------------------------------------
LEMMA BackupStep ==
    ASSUME BackupInv, [BackupNext]_backupVars
    PROVE  BackupInv'
<1>1. CASE SessionsNext /\ UNCHANGED <<paper, backup, restored>>
  BY <1>1, SystemStepInv
<1>2. ASSUME NEW d \in Papers,
             DocumentStep(d)
      PROVE  BackupInv'
  BY <1>2, PaperStepInv
<1>3. CASE BeginBackup \/ (\E d \in Papers : CopyFile(d)) \/ Dump \/ WriteManifest \/ BackupFails
  BY <1>3, TakingInv
<1>4. CASE Restore \/ Discard
  BY <1>4, RestoringInv
<1>5. CASE StartService
  BY <1>5, StartServiceInv
<1>6. CASE UNCHANGED backupVars
  BY <1>6, SystemStepInv DEF backupVars, systemVars
<1>7. QED
  BY <1>1, <1>2, <1>3, <1>4, <1>5, <1>6 DEF BackupNext, DocumentStep

LEMMA EndedBackupStep ==
    ASSUME BackupInv, [BackupNext]_backupVars, NEW s \in Tokens,
           session[s] # Unopened, ~session[s].live
    PROVE  ~session'[s].live
<1>1. CASE SessionsNext
  BY <1>1, EndedStep DEF BackupInv
<1>2. CASE StartService
  BY <1>2, StartServiceInv
<1>3. CASE UNCHANGED session
  BY <1>3
<1>4. QED
  BY <1>1, <1>2, <1>3
     DEF BackupNext, StoreFile, CommitRow, UndoUpload, ClaimDeletion, DeleteFile,
         EndDeletion, CopyFile,
         BeginBackup, Dump, WriteManifest, BackupFails, Restore, Discard, systemVars, backupVars,
         sessionsVars

LEMMA BackupAlways == BackupSpec => []BackupInv
<1>1. BackupInit => BackupInv
  BY BackupInitInv
<1>2. BackupInv /\ [BackupNext]_backupVars => BackupInv'
  BY BackupStep
<1>3. QED
  BY <1>1, <1>2, PTL DEF BackupSpec

\* Every record is well formed, and what works belongs to the company or to somebody
\* with an account: also for the unknown address that login compares with a dummy hash.
THEOREM SessionsTypeCorrect == BackupSpec => []SessionsTypeOK
<1>1. BackupInv => SessionsTypeOK
  BY DEF BackupInv, SessionsInv
<1>2. QED
  BY <1>1, BackupAlways, PTL

\* No session that was opened with a replaced password is accepted, with any number of
\* logins and changes in flight and of backups restored.
THEOREM OldPasswordsOpenNothing == BackupSpec => []NoOldPassword
<1>1. BackupInv => NoOldPassword
  BY LiveIsNotOld DEF BackupInv
<1>2. QED
  BY <1>1, BackupAlways, PTL

\* No backup taken beside uploads, cleanups and deletions brings a row without its file
\* into a place that starts: where one misses it there, its own deletion or the cleanup
\* of its upload took it.
THEOREM RowsAlwaysKeepFiles == BackupSpec => []RowsKeepFiles
<1>1. BackupInv => RowsKeepFiles
  BY DEF BackupInv
<1>2. QED
  BY <1>1, BackupAlways, PTL

\* What has ended never works again, whichever backup is restored.
THEOREM EndedCredentialsStayEnded == BackupSpec => EndedStaysEnded
<1>1. BackupInv /\ [BackupNext]_backupVars =>
         [\A s \in Tokens :
            session[s] # Unopened /\ ~session[s].live => ~session'[s].live]_backupVars
  BY EndedBackupStep
<1>2. QED
  BY <1>1, BackupAlways, PTL DEF BackupSpec, EndedStaysEnded
=============================================================================
