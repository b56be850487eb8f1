---------------------------- MODULE Organization ----------------------------
(***************************************************************************)
(* Who belongs to an organisation: its members and their roles, the        *)
(* invitations that add members, and the API keys its machines use         *)
(* (api/organizations.py, accept_invitation of api/auth.py, security.py,   *)
(* and the operator's admin.py).  One organisation.                        *)
(*                                                                         *)
(* A request is authorised, or finds its invitation, before its handler    *)
(* takes the organisation's row lock, so it is two actions: between them   *)
(* other requests commit.  What a handler reads under the lock is current  *)
(* (populate_existing, refresh; a key's object does not outlive            *)
(* authenticate), so the rest is one action.                               *)
(* Passwords and sessions only decide who the caller is.                   *)
(*                                                                         *)
(* A definition whose comment begins with "Variant" is the next definition *)
(* with a slip in it: the runs show which property notices the slip.       *)
(***************************************************************************)
EXTENDS Naturals, FiniteSets

CONSTANTS
    Users,           \* people, told apart by their e-mail address
    Invitations,     \* invitation ids, each used once
    Keys,            \* API key ids, each used once
    Requests,        \* HTTP requests in flight at the same time
    NoUser, NoKey, NoInvitation,
    GrantedRoles,    \* the roles requests ask for
    MaxInvitations   \* how many invitations may be pending

Roles == {"owner", "member", "viewer"}

ASSUME OrganizationAssumption ==
    /\ IsFiniteSet(Users)
    /\ NoUser \notin Users
    /\ NoKey \notin Keys
    /\ NoInvitation \notin Invitations
    /\ GrantedRoles \subseteq Roles
    /\ MaxInvitations \in Nat

VARIABLES
    accounts,    \* users: who has an account
    role,        \* memberships: the role of each user, or "none"
    invitation,  \* invitations: addressee, role, issuer, and what became of it
    key,         \* organization_api_keys: role, state, and the key it replaced
    request      \* what a request in flight was authorised as, or the invitation it
                 \* found, as it was then

organizationVars == <<accounts, role, invitation, key, request>>
-----------------------------------------------------------------------------
(* Values *)

Unsent == [to |-> NoUser, role |-> "none", by |-> NoUser,
           accepted |-> FALSE, revoked |-> FALSE, expired |-> FALSE]
Unissued == [role |-> "none", live |-> FALSE, from |-> NoKey]
Nobody == [user |-> NoUser, key |-> NoKey, invitation |-> NoInvitation, loaded |-> Unsent]

Sent(i) == invitation[i] # Unsent
Owners == {u \in Users : role[u] = "owner"}

\* An invitation that could still be accepted, were it not for its age.
Outstanding(i) == Sent(i) /\ ~invitation[i].accepted /\ ~invitation[i].revoked

PendingInvitations == {i \in Invitations : Outstanding(i) /\ ~invitation[i].expired}

\* An organisation is created with its creator as owner and an owner key; one
\* from before there were accounts has only the key.
OrganizationInit ==
    /\ \E owners \in {S \in SUBSET Users : Cardinality(S) <= 1} :
          /\ accounts = owners
          /\ role = [u \in Users |-> IF u \in owners THEN "owner" ELSE "none"]
    /\ \E k \in Keys :
          key = [j \in Keys |-> IF j = k
                   THEN [role |-> "owner", live |-> TRUE, from |-> NoKey] ELSE Unissued]
    /\ invitation = [i \in Invitations |-> Unsent]
    /\ request = [r \in Requests |-> Nobody]
-----------------------------------------------------------------------------
(* Requests: authorisation, and their end *)

\* require_human_owner, or require_owner with a session.
AuthoriseUser(r, u) ==
    /\ request[r] = Nobody
    /\ role[u] = "owner"
    /\ request' = [request EXCEPT ![r].user = u]
    /\ UNCHANGED <<accounts, role, invitation, key>>

\* authenticate with an API key.
AuthoriseKey(r, k) ==
    /\ request[r] = Nobody
    /\ key[k].live
    /\ request' = [request EXCEPT ![r].key = k]
    /\ UNCHANGED <<accounts, role, invitation, key>>

\* accept_invitation, as far as it holds no lock: the token names an invitation,
\* whatever has become of it, and its row is loaded.
FindInvitation(r, i) ==
    /\ request[r] = Nobody
    /\ Sent(i)
    /\ request' = [request EXCEPT ![r].invitation = i, ![r].loaded = invitation[i]]
    /\ UNCHANGED <<accounts, role, invitation, key>>

Done(r) == request' = [request EXCEPT ![r] = Nobody]

\* Any answer that changes nothing: 403, 404, 409, 429, or a closed connection.
Refuse(r) ==
    /\ request[r] # Nobody
    /\ Done(r)
    /\ UNCHANGED <<accounts, role, invitation, key>>

\* Variant: the authorisation of a moment ago is good enough.
EnsureOwnerAsAuthorised(r) == request[r].user \in Users

\* ensure_owner, under the organisation's lock.
EnsureOwner(r) == request[r].user \in Owners

\* require_owner: a session of an owner or an owner key.
ByOwner(r) ==
    \/ request[r].user \in Users
    \/ request[r].key \in Keys /\ key[request[r].key].role = "owner"
-----------------------------------------------------------------------------
(* Members and invitations *)

Invite(r, i, u, ro) ==
    /\ EnsureOwner(r)
    /\ ~Sent(i)
    /\ Cardinality(PendingInvitations) < MaxInvitations
    /\ invitation' = [invitation EXCEPT ![i] =
           [to |-> u, role |-> ro, by |-> request[r].user,
            accepted |-> FALSE, revoked |-> FALSE, expired |-> FALSE]]
    /\ Done(r)
    /\ UNCHANGED <<accounts, role, key>>

RevokeInvitation(r, i) ==
    /\ EnsureOwner(r)
    /\ Sent(i)
    /\ invitation' = [invitation EXCEPT ![i].revoked = TRUE]
    /\ Done(r)
    /\ UNCHANGED <<accounts, role, key>>

\* Variant: whether there are two owners is counted before anybody is excluded.
LastOwnerOffByOne(u) == u \in Owners /\ Cardinality(Owners) <= 0

LastOwner(u) == u \in Owners /\ Cardinality(Owners) <= 1

\* The invitations a demoted or removed owner had issued.
IssuedBy(u) == {i \in Invitations : Outstanding(i) /\ invitation[i].by = u}

\* change_member and remove_member ("none").
EditMembership(r, u, ro) ==
    /\ EnsureOwner(r)
    /\ role[u] # "none"
    /\ ~(LastOwner(u) /\ ro # "owner")
    /\ role' = [role EXCEPT ![u] = ro]
    /\ invitation' = [i \in Invitations |->
           IF i \in IssuedBy(u) /\ role[u] = "owner" /\ ro # "owner"
           THEN [invitation[i] EXCEPT !.revoked = TRUE] ELSE invitation[i]]
    /\ Done(r)
    /\ UNCHANGED <<accounts, key>>

\* Variant: the invitation is not read again once the lock is held.
AcceptableAsLoaded(r) ==
    LET v == request[r].loaded IN
    /\ ~v.accepted /\ ~v.revoked /\ ~invitation[request[r].invitation].expired
    /\ role[v.by] = "owner"

\* The invitation as the refresh reads it, and its issuer.
Acceptable(r) ==
    LET i == request[r].invitation IN
    i \in PendingInvitations /\ role[invitation[i].by] = "owner"

\* accept_invitation, from the organisation's lock to the commit.
Accept(r) ==
    LET i == request[r].invitation
        u == invitation[i].to
    IN
    /\ i \in Invitations
    /\ Acceptable(r)
    /\ role[u] = "none"
    /\ accounts' = accounts \union {u}
    /\ role' = [role EXCEPT ![u] = invitation[i].role]
    /\ invitation' = [invitation EXCEPT ![i].accepted = TRUE]
    /\ Done(r)
    /\ UNCHANGED key

InvitationExpires(i) ==
    /\ i \in PendingInvitations
    /\ invitation' = [invitation EXCEPT ![i].expired = TRUE]
    /\ UNCHANGED <<accounts, role, key, request>>
-----------------------------------------------------------------------------
(* API keys *)

CreateKey(r, k, ro) ==
    /\ ByOwner(r)
    /\ key[k] = Unissued
    /\ key' = [key EXCEPT ![k] = [role |-> ro, live |-> TRUE, from |-> NoKey]]
    /\ Done(r)
    /\ UNCHANGED <<accounts, role, invitation>>

\* Variant: the key that authenticated the request is not looked at again.
StillActiveAsAuthorised(k) == key[k] # Unissued

\* key.active, read under the key's row lock.
StillActive(k) == key[k].live

\* rotate_key: a key replaces itself.
RotateKey(r, new) ==
    LET k == request[r].key IN
    /\ k \in Keys
    /\ StillActive(k)
    /\ key[new] = Unissued
    /\ key' = [key EXCEPT ![new] = [role |-> key[k].role, live |-> TRUE, from |-> k],
                          ![k].live = FALSE]
    /\ Done(r)
    /\ UNCHANGED <<accounts, role, invitation>>

RevokeKey(r, k) ==
    /\ ByOwner(r)
    /\ key[k] # Unissued
    /\ key' = [key EXCEPT ![k].live = FALSE]
    /\ Done(r)
    /\ UNCHANGED <<accounts, role, invitation>>

KeyExpires(k) ==
    /\ key[k].live
    /\ key' = [key EXCEPT ![k].live = FALSE]
    /\ UNCHANGED <<accounts, role, invitation, request>>
-----------------------------------------------------------------------------
(* The operator's command line *)

\* create-user, with or without --organization; the latter takes no lock.
CreateUser(u) ==
    /\ u \notin accounts
    /\ accounts' = accounts \union {u}
    /\ \E ro \in {"none", "owner"} : role' = [role EXCEPT ![u] = ro]
    /\ UNCHANGED <<invitation, key, request>>

\* Variant: attach-owner without looking the account up.
AttachAnybody(u) ==
    /\ Owners = {}
    /\ role' = [role EXCEPT ![u] = "owner"]
    /\ UNCHANGED <<accounts, invitation, key, request>>

\* attach-owner, for an organisation that has no human owner.
AttachOwner(u) ==
    /\ u \in accounts
    /\ Owners = {}
    /\ role' = [role EXCEPT ![u] = "owner"]
    /\ UNCHANGED <<accounts, invitation, key, request>>
-----------------------------------------------------------------------------
Handle(r) ==
    \/ Refuse(r) \/ Accept(r)
    \/ \E i \in Invitations, u \in Users, ro \in GrantedRoles : Invite(r, i, u, ro)
    \/ \E i \in Invitations : RevokeInvitation(r, i)
    \/ \E u \in Users, ro \in GrantedRoles \union {"none"} : EditMembership(r, u, ro)
    \/ \E k \in Keys, ro \in GrantedRoles : CreateKey(r, k, ro)
    \/ \E k \in Keys : RotateKey(r, k) \/ RevokeKey(r, k)

OrganizationNext ==
    \/ \E r \in Requests, u \in Users : AuthoriseUser(r, u)
    \/ \E r \in Requests, k \in Keys : AuthoriseKey(r, k)
    \/ \E r \in Requests, i \in Invitations : FindInvitation(r, i)
    \/ \E r \in Requests : Handle(r)
    \/ \E i \in Invitations : InvitationExpires(i)
    \/ \E k \in Keys : KeyExpires(k)
    \/ \E u \in Users : CreateUser(u) \/ AttachOwner(u)

OrganizationSpec == OrganizationInit /\ [][OrganizationNext]_organizationVars
-----------------------------------------------------------------------------
(* Properties *)

Invitation == [to : Users \union {NoUser}, role : Roles \union {"none"},
               by : Users \union {NoUser},
               accepted : BOOLEAN, revoked : BOOLEAN, expired : BOOLEAN]
InFlight == [user : Users \union {NoUser}, key : Keys \union {NoKey},
             invitation : Invitations \union {NoInvitation}, loaded : Invitation]

\* Beside the types: members have accounts, invitations an addressee and issuer.
OrganizationTypeOK ==
    /\ accounts \subseteq Users
    /\ role \in [Users -> Roles \union {"none"}]
    /\ \A u \in Users : role[u] # "none" => u \in accounts
    /\ invitation \in [Invitations -> Invitation]
    /\ \A i \in Invitations :
          Sent(i) => invitation[i].to \in Users /\ invitation[i].by \in Users
    /\ key \in [Keys -> [role : Roles \union {"none"}, live : BOOLEAN,
                         from : Keys \union {NoKey}]]
    /\ request \in [Requests -> InFlight]

\* Once an organisation has a human owner it keeps one, whatever owners do to
\* each other at the same time (api/organizations.py:330, "An organization must
\* retain at least one human owner").
KeepsOwner == [][Owners # {} => Owners' # {}]_organizationVars

\* An invitation that can still be accepted was issued by somebody who is an
\* owner, although an issuer may be demoted or removed between the authorisation
\* of the request and its commit (api/organizations.py:336, "Pending invitations
\* issued by a removed/demoted owner cannot restore access").
IssuerIsOwner == \A i \in Invitations : Outstanding(i) => role[invitation[i].by] = "owner"

\* A revocation that returned is final, also for an acceptance that had found the
\* invitation before it and reaches the lock after it (api/auth.py:93, "Same
\* organization lock used by membership edits").
RevokedIsFinal ==
    [][\A i \in Invitations :
          invitation[i].revoked /\ ~invitation[i].accepted =>
              ~invitation'[i].accepted]_organizationVars

\* Whoever was removed comes back through an invitation that is still open, and not
\* through one that was used or withdrawn in the meantime, whatever an acceptance in
\* flight has loaded.  An organisation without owners is the operator's business
\* (api/auth.py:98, the refresh under the lock).
NoWayBack ==
    [][\A u \in accounts :
          role[u] = "none" /\ role'[u] # "none" =>
              \/ Owners = {}
              \/ \E i \in PendingInvitations :
                    /\ invitation[i].to = u /\ invitation'[i].accepted
                    /\ role'[u] = invitation[i].role]_organizationVars

\* However many rotations of a key overlap, it is replaced by one key, and not
\* after it was revoked or had expired.
ReplacedOnce ==
    /\ \A j, k \in Keys : key[j].from # NoKey /\ key[j].from = key[k].from => j = k
    /\ \A k \in Keys : key[k].from # NoKey => ~key[key[k].from].live
=============================================================================
