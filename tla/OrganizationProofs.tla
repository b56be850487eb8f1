------------------------- MODULE OrganizationProofs -------------------------
(***************************************************************************)
(* An organisation keeps its owner, its invitations and its keys in order, *)
(* for any number of users, invitations, keys and requests in flight.      *)
(***************************************************************************)
EXTENDS Organization, FiniteSetTheorems, TLAPS

USE OrganizationAssumption
-----------------------------------------------------------------------------
(* Type correctness *)

LEMMA InitTypeOK == OrganizationInit => OrganizationTypeOK
<1>1. Unsent \in Invitation
  BY DEF Unsent, Invitation, Roles
<1>2. Nobody \in InFlight
  BY <1>1 DEF Nobody, InFlight
<1>3. ASSUME OrganizationInit
      PROVE  /\ accounts \subseteq Users
             /\ role \in [Users -> Roles \union {"none"}]
             /\ \A u \in Users : role[u] # "none" => u \in accounts
             /\ key \in [Keys -> [role : Roles \union {"none"}, live : BOOLEAN,
                                  from : Keys \union {NoKey}]]
  BY <1>3 DEF OrganizationInit, Roles, Unissued
<1> QED  BY <1>1, <1>2, <1>3 DEF OrganizationInit, OrganizationTypeOK, Sent

\* A request that ends leaves a well-typed record of nobody.
LEMMA DoneType ==
    ASSUME OrganizationTypeOK, NEW r \in Requests, Done(r)
    PROVE  request' \in [Requests -> InFlight]
<1>1. Unsent \in Invitation
  BY DEF Unsent, Invitation, Roles
<1>2. Nobody \in InFlight
  BY <1>1 DEF Nobody, InFlight
<1> QED  BY <1>2 DEF OrganizationTypeOK, Done

\* What becomes of an invitation leaves it well formed.
LEMMA Outcomes ==
    ASSUME NEW v \in Invitation
    PROVE  /\ [v EXCEPT !.revoked = TRUE] \in Invitation
           /\ [v EXCEPT !.accepted = TRUE] \in Invitation
           /\ [v EXCEPT !.expired = TRUE] \in Invitation
BY DEF Invitation

\* It changes neither the addressee nor the issuer, whichever outcome it is.
LEMMA PartiesStay ==
    ASSUME OrganizationTypeOK, NEW S \in SUBSET {j \in Invitations : Sent(j)},
           \A j \in Invitations \ S : invitation'[j] = invitation[j],
           \A j \in S : \/ invitation'[j] = [invitation[j] EXCEPT !.revoked = TRUE]
                        \/ invitation'[j] = [invitation[j] EXCEPT !.accepted = TRUE]
                        \/ invitation'[j] = [invitation[j] EXCEPT !.expired = TRUE],
           invitation' = [j \in Invitations |-> invitation'[j]]
    PROVE  /\ invitation' \in [Invitations -> Invitation]
           /\ \A j \in Invitations :
                 Sent(j)' => invitation'[j].to \in Users /\ invitation'[j].by \in Users
<1>1. \A j \in Invitations : invitation[j] \in Invitation
  BY DEF OrganizationTypeOK
<1>2. \A j \in Invitations : invitation'[j] \in Invitation
  BY <1>1, Outcomes
<1>3. \A j \in S : invitation'[j].to = invitation[j].to /\ invitation'[j].by = invitation[j].by
  BY <1>1 DEF Invitation
<1>4. \A j \in Invitations : Sent(j) => invitation[j].to \in Users /\ invitation[j].by \in Users
  BY DEF OrganizationTypeOK
<1> HIDE DEF Sent
<1>5. ASSUME NEW j \in Invitations, Sent(j)'
      PROVE  invitation'[j].to \in Users /\ invitation'[j].by \in Users
  <2>1. CASE j \in S
    BY <1>3, <1>4, <2>1
  <2>2. CASE j \notin S
    BY <1>4, <1>5, <2>2 DEF Sent
  <2> QED  BY <2>1, <2>2
<1> QED  BY <1>2, <1>5

\* The same for one invitation.
LEMMA PartiesOfOneStay ==
    ASSUME OrganizationTypeOK, NEW i \in Invitations, Sent(i),
           \/ invitation' = [invitation EXCEPT ![i].revoked = TRUE]
           \/ invitation' = [invitation EXCEPT ![i].accepted = TRUE]
           \/ invitation' = [invitation EXCEPT ![i].expired = TRUE]
    PROVE  /\ invitation' \in [Invitations -> Invitation]
           /\ \A j \in Invitations :
                 Sent(j)' => invitation'[j].to \in Users /\ invitation'[j].by \in Users
<1>1. invitation \in [Invitations -> Invitation]
  BY DEF OrganizationTypeOK
<1>2. /\ \A j \in Invitations \ {i} : invitation'[j] = invitation[j]
      /\ \/ invitation'[i] = [invitation[i] EXCEPT !.revoked = TRUE]
         \/ invitation'[i] = [invitation[i] EXCEPT !.accepted = TRUE]
         \/ invitation'[i] = [invitation[i] EXCEPT !.expired = TRUE]
      /\ invitation' = [j \in Invitations |-> invitation'[j]]
  BY <1>1
<1>3. {i} \in SUBSET {j \in Invitations : Sent(j)}
  OBVIOUS
<1> QED  BY <1>2, <1>3, PartiesStay

\* Those who act under the organisation's lock.
LEMMA HandleType ==
    ASSUME OrganizationTypeOK, NEW r \in Requests, Handle(r)
    PROVE  OrganizationTypeOK'
<1> USE DEF OrganizationTypeOK
<1>1. request' \in [Requests -> InFlight]
  BY DoneType DEF Handle, Refuse, Accept, Invite, RevokeInvitation, EditMembership, CreateKey,
                  RotateKey, RevokeKey
<1>2. CASE Refuse(r)
  BY <1>1, <1>2 DEF Refuse, Sent
<1>3. ASSUME NEW i \in Invitations, NEW u \in Users, NEW ro \in GrantedRoles,
             Invite(r, i, u, ro)
      PROVE  OrganizationTypeOK'
  <2>1. request[r].user \in Users
    BY <1>3 DEF Invite, EnsureOwner, Owners
  <2>2. [to |-> u, role |-> ro, by |-> request[r].user, accepted |-> FALSE,
         revoked |-> FALSE, expired |-> FALSE] \in Invitation
    BY <2>1 DEF Invitation
  <2>3. invitation' \in [Invitations -> Invitation]
    BY <1>3, <2>2 DEF Invite
  <2>4. \A j \in Invitations :
            Sent(j)' => invitation'[j].to \in Users /\ invitation'[j].by \in Users
    BY <1>3, <2>1 DEF Invite, Sent
  <2> QED  BY <1>1, <1>3, <2>3, <2>4 DEF Invite
<1>4. ASSUME NEW i \in Invitations, RevokeInvitation(r, i) PROVE OrganizationTypeOK'
  <2>1. /\ invitation' \in [Invitations -> Invitation]
        /\ \A j \in Invitations :
              Sent(j)' => invitation'[j].to \in Users /\ invitation'[j].by \in Users
    BY <1>4, PartiesOfOneStay DEF RevokeInvitation
  <2> QED  BY <1>1, <1>4, <2>1 DEF RevokeInvitation
<1>5. ASSUME NEW u \in Users, NEW ro \in GrantedRoles \union {"none"}, EditMembership(r, u, ro)
      PROVE  OrganizationTypeOK'
  <2>1. /\ invitation' \in [Invitations -> Invitation]
        /\ \A j \in Invitations :
              Sent(j)' => invitation'[j].to \in Users /\ invitation'[j].by \in Users
    <3> DEFINE S == {i \in IssuedBy(u) : role[u] = "owner" /\ ro # "owner"}
    <3>1. S \in SUBSET {j \in Invitations : Sent(j)}
      BY DEF IssuedBy, Outstanding
    <3>2. /\ \A j \in Invitations \ S : invitation'[j] = invitation[j]
          /\ \A j \in S : invitation'[j] = [invitation[j] EXCEPT !.revoked = TRUE]
          /\ invitation' = [j \in Invitations |-> invitation'[j]]
      BY <1>5, <3>1 DEF EditMembership
    <3> HIDE DEF S
    <3> QED  BY <3>1, <3>2, PartiesStay
  <2>2. role' \in [Users -> Roles \union {"none"}]
    BY <1>5 DEF EditMembership
  <2>3. \A v \in Users : role'[v] # "none" => v \in accounts'
    BY <1>5 DEF EditMembership
  <2> QED  BY <1>1, <1>5, <2>1, <2>2, <2>3 DEF EditMembership
<1>6. ASSUME NEW k \in Keys, NEW ro \in GrantedRoles, CreateKey(r, k, ro) PROVE OrganizationTypeOK'
  BY <1>1, <1>6 DEF CreateKey, Sent
<1>7. ASSUME NEW k \in Keys, RotateKey(r, k) PROVE OrganizationTypeOK'
  BY <1>1, <1>7 DEF RotateKey, Sent
<1>8. ASSUME NEW k \in Keys, RevokeKey(r, k) PROVE OrganizationTypeOK'
  BY <1>1, <1>8 DEF RevokeKey, Sent
<1>9. CASE Accept(r)
  <2> DEFINE i == request[r].invitation
  <2>1. i \in Invitations /\ Sent(i)
    BY <1>9 DEF Accept, Acceptable, PendingInvitations, Outstanding
  <2>2. /\ invitation' = [invitation EXCEPT ![i].accepted = TRUE]
        /\ accounts' = accounts \union {invitation[i].to}
        /\ role' = [role EXCEPT ![invitation[i].to] = invitation[i].role]
        /\ UNCHANGED key
    BY <1>9 DEF Accept
  <2> HIDE DEF i
  <2>3. /\ invitation' \in [Invitations -> Invitation]
        /\ \A j \in Invitations :
              Sent(j)' => invitation'[j].to \in Users /\ invitation'[j].by \in Users
    BY <2>1, <2>2, PartiesOfOneStay
  <2>4. invitation[i].to \in Users /\ invitation[i].role \in Roles \union {"none"}
    BY <2>1 DEF Invitation
  <2>5. role' \in [Users -> Roles \union {"none"}]
    BY <2>2, <2>4
  <2>6. \A v \in Users : role'[v] # "none" => v \in accounts'
    BY <2>2, <2>4
  <2> QED  BY <1>1, <2>2, <2>3, <2>4, <2>5, <2>6
<1> QED  BY <1>2, <1>3, <1>4, <1>5, <1>6, <1>7, <1>8, <1>9 DEF Handle

\* Everybody else: what comes before the lock, time, and the operator.
LEMMA OthersType ==
    ASSUME OrganizationTypeOK, [OrganizationNext]_organizationVars, ~\E r \in Requests : Handle(r)
    PROVE  OrganizationTypeOK'
<1> USE DEF OrganizationTypeOK
<1>1. ASSUME NEW r \in Requests, NEW u \in Users, AuthoriseUser(r, u) PROVE OrganizationTypeOK'
  <2>1. request' \in [Requests -> InFlight]
    BY <1>1 DEF AuthoriseUser, InFlight
  <2> QED  BY <1>1, <2>1 DEF AuthoriseUser, Sent
<1>2. ASSUME NEW r \in Requests, NEW k \in Keys, AuthoriseKey(r, k) PROVE OrganizationTypeOK'
  <2>1. request' \in [Requests -> InFlight]
    BY <1>2 DEF AuthoriseKey, InFlight
  <2> QED  BY <1>2, <2>1 DEF AuthoriseKey, Sent
<1>3. ASSUME NEW r \in Requests, NEW i \in Invitations, FindInvitation(r, i)
      PROVE  OrganizationTypeOK'
  <2>1. request' \in [Requests -> InFlight]
    BY <1>3 DEF FindInvitation, InFlight
  <2> QED  BY <1>3, <2>1 DEF FindInvitation, Sent
<1>4. ASSUME NEW i \in Invitations, InvitationExpires(i) PROVE OrganizationTypeOK'
  <2>1. /\ invitation' \in [Invitations -> Invitation]
        /\ \A j \in Invitations :
              Sent(j)' => invitation'[j].to \in Users /\ invitation'[j].by \in Users
    BY <1>4, PartiesOfOneStay DEF InvitationExpires, PendingInvitations, Outstanding
  <2> QED  BY <1>4, <2>1 DEF InvitationExpires
<1>5. ASSUME NEW k \in Keys, KeyExpires(k) PROVE OrganizationTypeOK'
  BY <1>5 DEF KeyExpires, Sent
<1>6. ASSUME NEW u \in Users, CreateUser(u) PROVE OrganizationTypeOK'
  BY <1>6 DEF CreateUser, Roles, Sent
<1>7. ASSUME NEW u \in Users, AttachOwner(u) PROVE OrganizationTypeOK'
  BY <1>7 DEF AttachOwner, Roles, Sent
<1>8. CASE UNCHANGED organizationVars
  BY <1>8 DEF organizationVars, Sent
<1> QED  BY <1>1, <1>2, <1>3, <1>4, <1>5, <1>6, <1>7, <1>8 DEF OrganizationNext

LEMMA NextTypeOK == OrganizationTypeOK /\ [OrganizationNext]_organizationVars => OrganizationTypeOK'
BY HandleType, OthersType DEF OrganizationNext

\* Members have accounts and every record is well formed, with any number of
\* users, invitations, keys and concurrent requests (api/organizations.py).
THEOREM TypeCorrect == OrganizationSpec => []OrganizationTypeOK
<1>1. OrganizationInit => OrganizationTypeOK
  BY InitTypeOK
<1>2. OrganizationTypeOK /\ [OrganizationNext]_organizationVars => OrganizationTypeOK'
  BY NextTypeOK
<1> QED  BY <1>1, <1>2, PTL DEF OrganizationSpec
-----------------------------------------------------------------------------
(* Invitations: who can still let somebody in *)

\* Nobody's role changes, and no invitation becomes outstanding.
LEMMA QuietIssuers ==
    ASSUME IssuerIsOwner, UNCHANGED role,
           \A j \in Invitations : Outstanding(j)' => Outstanding(j),
           \A j \in Invitations : Outstanding(j)' => invitation'[j].by = invitation[j].by
    PROVE  IssuerIsOwner'
BY DEF IssuerIsOwner

LEMMA NextIssuers ==
    OrganizationTypeOK /\ IssuerIsOwner /\ [OrganizationNext]_organizationVars => IssuerIsOwner'
<1> SUFFICES ASSUME OrganizationTypeOK, IssuerIsOwner, [OrganizationNext]_organizationVars
             PROVE  IssuerIsOwner'
  OBVIOUS
<1>1. ASSUME UNCHANGED <<role, invitation>> PROVE IssuerIsOwner'
  BY <1>1 DEF IssuerIsOwner, Outstanding, Sent
<1>2. ASSUME NEW r \in Requests, NEW i \in Invitations, NEW u \in Users,
             NEW ro \in GrantedRoles, Invite(r, i, u, ro)
      PROVE  IssuerIsOwner'
  <2>1. role[request[r].user] = "owner"
    BY <1>2 DEF Invite, EnsureOwner, Owners
  <2>2. invitation'[i].by = request[r].user /\ UNCHANGED role
    BY <1>2 DEF Invite, OrganizationTypeOK
  <2>3. \A j \in Invitations \ {i} : invitation'[j] = invitation[j]
    BY <1>2 DEF Invite, OrganizationTypeOK
  <2> QED  BY <2>1, <2>2, <2>3 DEF IssuerIsOwner, Outstanding, Sent
<1>3. ASSUME NEW r \in Requests, NEW i \in Invitations, RevokeInvitation(r, i)
      PROVE  IssuerIsOwner'
  <2>1. /\ \A j \in Invitations \ {i} : invitation'[j] = invitation[j]
        /\ invitation'[i].revoked
        /\ UNCHANGED role
    BY <1>3 DEF RevokeInvitation, OrganizationTypeOK, Invitation
  <2> QED  BY <2>1, QuietIssuers DEF Outstanding, Sent
<1>4. ASSUME NEW r \in Requests, NEW u \in Users, NEW ro \in GrantedRoles \union {"none"},
             EditMembership(r, u, ro)
      PROVE  IssuerIsOwner'
  <2> SUFFICES ASSUME NEW j \in Invitations, Outstanding(j)'
               PROVE  role'[invitation'[j].by] = "owner"
    BY DEF IssuerIsOwner
  <2>1. CASE j \in IssuedBy(u) /\ role[u] = "owner" /\ ro # "owner"
    <3>1. invitation'[j].revoked
      BY <1>4, <2>1 DEF EditMembership, OrganizationTypeOK, Invitation
    <3> QED  BY <3>1 DEF Outstanding
  <2>2. CASE ~(j \in IssuedBy(u) /\ role[u] = "owner" /\ ro # "owner")
    <3>1. invitation'[j] = invitation[j]
      BY <1>4, <2>2 DEF EditMembership
    <3>2. Outstanding(j)
      BY <3>1 DEF Outstanding, Sent
    <3>3. role[invitation[j].by] = "owner"
      BY <3>2 DEF IssuerIsOwner
    <3>4. invitation[j].by \in Users
      BY <3>2 DEF Outstanding, OrganizationTypeOK
    <3>5. invitation[j].by = u => ro = "owner"
      BY <2>2, <3>2, <3>3 DEF IssuedBy
    <3> QED  BY <1>4, <3>1, <3>3, <3>4, <3>5 DEF EditMembership, OrganizationTypeOK
  <2> QED  BY <2>1, <2>2
<1>5. ASSUME NEW r \in Requests, Accept(r) PROVE IssuerIsOwner'
  <2> SUFFICES ASSUME NEW j \in Invitations, Outstanding(j)'
               PROVE  role'[invitation'[j].by] = "owner"
    BY DEF IssuerIsOwner
  <2>1. PICK i \in Invitations :
            /\ role[invitation[i].to] = "none"
            /\ role' = [role EXCEPT ![invitation[i].to] = invitation[i].role]
            /\ invitation' = [invitation EXCEPT ![i].accepted = TRUE]
    BY <1>5 DEF Accept
  <2>2. j # i
    BY <2>1 DEF Outstanding, OrganizationTypeOK, Invitation
  <2>3. invitation'[j] = invitation[j]
    BY <2>1, <2>2 DEF OrganizationTypeOK
  <2>4. Outstanding(j)
    BY <2>3 DEF Outstanding, Sent
  <2>5. role[invitation[j].by] = "owner" /\ invitation[j].by \in Users
    BY <2>4 DEF IssuerIsOwner, Outstanding, OrganizationTypeOK
  <2> QED  BY <2>1, <2>3, <2>5 DEF OrganizationTypeOK
<1>6. ASSUME NEW i \in Invitations, InvitationExpires(i) PROVE IssuerIsOwner'
  <2>1. \A j \in Invitations :
            /\ invitation'[j].accepted = invitation[j].accepted
            /\ invitation'[j].revoked = invitation[j].revoked
            /\ invitation'[j].by = invitation[j].by
            /\ Sent(j) \/ invitation'[j] = invitation[j]
    BY <1>6 DEF InvitationExpires, PendingInvitations, Outstanding, OrganizationTypeOK, Invitation
  <2>2. UNCHANGED role
    BY <1>6 DEF InvitationExpires
  <2> QED  BY <2>1, <2>2, QuietIssuers DEF Outstanding, Sent
<1>7. ASSUME NEW u \in Users, CreateUser(u) \/ AttachOwner(u) PROVE IssuerIsOwner'
  <2>1. \A v \in Users : role[v] = "owner" => role'[v] = "owner"
    BY <1>7 DEF CreateUser, AttachOwner, OrganizationTypeOK
  <2>2. UNCHANGED invitation
    BY <1>7 DEF CreateUser, AttachOwner
  <2>3. \A j \in Invitations : Outstanding(j) => invitation[j].by \in Users
    BY DEF Outstanding, OrganizationTypeOK
  <2> QED  BY <2>1, <2>2, <2>3 DEF IssuerIsOwner, Outstanding, Sent
<1> QED
  BY <1>1, <1>2, <1>3, <1>4, <1>5, <1>6, <1>7
  DEF OrganizationNext, Handle, organizationVars, AuthoriseUser, AuthoriseKey,
      FindInvitation, Refuse, CreateKey, RotateKey, RevokeKey,
      KeyExpires

\* An invitation that can still be accepted was issued by an owner, although the
\* issuer may lose that role between the authorisation of a request and its
\* commit (ensure_owner and edit_membership, api/organizations.py:292 and :318).
THEOREM IssuersAreOwners == OrganizationSpec => []IssuerIsOwner
<1>1. OrganizationInit => IssuerIsOwner
  BY DEF OrganizationInit, IssuerIsOwner, Outstanding, Sent
<1>2. OrganizationTypeOK /\ IssuerIsOwner /\ [OrganizationNext]_organizationVars => IssuerIsOwner'
  BY NextIssuers
<1> QED  BY <1>1, <1>2, TypeCorrect, PTL DEF OrganizationSpec
-----------------------------------------------------------------------------
(* API keys: one replacement each *)

\* A key in use, and a key that was replaced, has been issued: ReplacedOnce alone
\* does not say that an id is still free when a rotation takes it.
KeysIssued ==
    \A k \in Keys :
        /\ key[k].live => key[k].role # "none"
        /\ key[k].from # NoKey => key[key[k].from].role # "none"

KeysInv == ReplacedOnce /\ KeysIssued

\* A key that stops being live replaces nothing, and nothing replaces it.
LEMMA KeyEnds ==
    ASSUME OrganizationTypeOK, KeysInv, NEW k \in Keys, key' = [key EXCEPT ![k].live = FALSE]
    PROVE  KeysInv'
<1>1. \A j \in Keys : /\ key'[j].from = key[j].from /\ key'[j].role = key[j].role
                      /\ key'[j].live => key[j].live
  BY DEF OrganizationTypeOK
<1>2. \A j \in Keys : key[j].from \in Keys \union {NoKey}
  BY DEF OrganizationTypeOK
<1> QED  BY <1>1, <1>2 DEF KeysInv, ReplacedOnce, KeysIssued

LEMMA RotateKeys ==
    ASSUME OrganizationTypeOK, KeysInv, NEW r \in Requests, NEW new \in Keys, RotateKey(r, new)
    PROVE  KeysInv'
<1> DEFINE k == request[r].key
<1>1. k \in Keys /\ key[k].live /\ key[new] = Unissued
  BY DEF RotateKey, StillActive
<1>2. k # new /\ key[new].role = "none"
  BY <1>1 DEF Unissued
<1>3. /\ key'[new] = [role |-> key[k].role, live |-> TRUE, from |-> k]
      /\ key'[k].live = FALSE /\ key'[k].from = key[k].from /\ key'[k].role = key[k].role
      /\ \A j \in Keys \ {k, new} : key'[j] = key[j]
  BY <1>1, <1>2 DEF RotateKey, OrganizationTypeOK
<1>4. \A j \in Keys : key[j].from # k
  BY <1>1, OrganizationAssumption DEF KeysInv, ReplacedOnce
<1>5. \A j \in Keys : key[j].from # NoKey => key[j].from # new /\ key[j].from \in Keys
  BY <1>2 DEF KeysInv, KeysIssued, OrganizationTypeOK
<1>6. \A j \in Keys \ {new} : key'[j].from = key[j].from /\ key'[j].role = key[j].role
  BY <1>3
<1>7. \A j \in Keys \ {new} : key'[j].live => key[j].live
  BY <1>3
<1>8. key'[new].from = k /\ key'[new].role # "none"
  BY <1>1, <1>3 DEF KeysInv, KeysIssued
<1> HIDE DEF k
<1>9. ReplacedOnce'
  BY <1>1, <1>2, <1>3, <1>4, <1>5, <1>6, <1>7, <1>8 DEF ReplacedOnce, KeysInv
<1>10. KeysIssued'
  BY <1>1, <1>2, <1>5, <1>6, <1>7, <1>8 DEF KeysIssued, KeysInv
<1> QED  BY <1>9, <1>10 DEF KeysInv

LEMMA CreateKeys ==
    ASSUME OrganizationTypeOK, KeysInv, NEW r \in Requests, NEW k \in Keys, NEW ro \in GrantedRoles,
           CreateKey(r, k, ro)
    PROVE  KeysInv'
<1>1. key[k] = Unissued /\ ro # "none"
  BY DEF CreateKey, Roles
<1>2. /\ key'[k] = [role |-> ro, live |-> TRUE, from |-> NoKey]
      /\ \A j \in Keys \ {k} : key'[j] = key[j]
  BY DEF CreateKey, OrganizationTypeOK
<1>3. \A j \in Keys : key[j].from # NoKey => key[j].from # k /\ key[j].from \in Keys
  BY <1>1 DEF KeysInv, KeysIssued, OrganizationTypeOK, Unissued
<1> QED  BY <1>1, <1>2, <1>3 DEF KeysInv, ReplacedOnce, KeysIssued

LEMMA NextKeys == OrganizationTypeOK /\ KeysInv /\ [OrganizationNext]_organizationVars => KeysInv'
<1> SUFFICES ASSUME OrganizationTypeOK, KeysInv, [OrganizationNext]_organizationVars PROVE KeysInv'
  OBVIOUS
<1>1. ASSUME UNCHANGED key PROVE KeysInv'
  BY <1>1 DEF KeysInv, ReplacedOnce, KeysIssued
<1>2. ASSUME NEW r \in Requests, NEW k \in Keys, RevokeKey(r, k) PROVE KeysInv'
  BY <1>2, KeyEnds DEF RevokeKey
<1>3. ASSUME NEW k \in Keys, KeyExpires(k) PROVE KeysInv'
  BY <1>3, KeyEnds DEF KeyExpires
<1> QED
  BY <1>1, <1>2, <1>3, RotateKeys, CreateKeys
  DEF OrganizationNext, Handle, organizationVars, AuthoriseUser, AuthoriseKey,
      FindInvitation, Refuse, Invite, RevokeInvitation,
      EditMembership, Accept, InvitationExpires, CreateUser, AttachOwner

\* However many rotations of one key overlap, one key replaces it, and only while
\* it is live (rotate_key, api/organizations.py:135).
THEOREM RotationsReplaceOnce == OrganizationSpec => []ReplacedOnce
<1>1. OrganizationInit => KeysInv
  BY DEF OrganizationInit, KeysInv, ReplacedOnce, KeysIssued, Unissued
<1>2. OrganizationTypeOK /\ KeysInv /\ [OrganizationNext]_organizationVars => KeysInv'
  BY NextKeys
<1>3. KeysInv => ReplacedOnce
  BY DEF KeysInv
<1> QED  BY <1>1, <1>2, <1>3, TypeCorrect, PTL DEF OrganizationSpec
-----------------------------------------------------------------------------
(* Owners *)

\* An owner who is not the last one has company.
LEMMA Company ==
    ASSUME NEW u \in Owners, ~LastOwner(u)
    PROVE  \E v \in Owners : v # u
<1>1. SUFFICES ASSUME Owners = {u} PROVE FALSE
  OBVIOUS
<1>2. Cardinality(Owners) = 1
  BY <1>1, FS_Singleton
<1> QED  BY <1>2 DEF LastOwner

\* Whatever owners do to each other at the same time, the organisation keeps one
\* (edit_membership, api/organizations.py:318).
THEOREM OwnerIsKept == OrganizationSpec => KeepsOwner
<1>1. ASSUME OrganizationTypeOK, [OrganizationNext]_organizationVars, Owners # {} PROVE Owners' # {}
  <2>1. ASSUME \A u \in Owners : role'[u] = "owner" PROVE Owners' # {}
    BY <1>1, <2>1 DEF Owners
  <2>2. ASSUME NEW r \in Requests, NEW u \in Users, NEW ro \in GrantedRoles \union {"none"},
               EditMembership(r, u, ro)
        PROVE  Owners' # {}
    <3>1. /\ role'[u] = ro /\ \A v \in Users \ {u} : role'[v] = role[v]
          /\ ~(LastOwner(u) /\ ro # "owner")
      BY <1>1, <2>2 DEF EditMembership, OrganizationTypeOK
    <3>2. CASE u \in Owners /\ ro # "owner"
      <4>1. PICK v \in Owners : v # u
        BY <3>1, <3>2, Company
      <4> QED  BY <3>1, <4>1 DEF Owners
    <3>3. CASE ~(u \in Owners /\ ro # "owner")
      BY <1>1, <3>1, <3>3 DEF Owners
    <3> QED  BY <3>2, <3>3
  <2>3. ASSUME NEW r \in Requests, Accept(r) PROVE Owners' # {}
    <3>1. \A u \in Owners : role'[u] = "owner"
      BY <1>1, <2>3 DEF Accept, OrganizationTypeOK, Owners
    <3> QED  BY <2>1, <3>1
  <2>4. ASSUME NEW u \in Users, CreateUser(u) \/ AttachOwner(u) PROVE Owners' # {}
    <3>1. \A v \in Owners : role'[v] = "owner"
      BY <1>1, <2>4 DEF CreateUser, AttachOwner, OrganizationTypeOK, Owners
    <3> QED  BY <2>1, <3>1
  <2>5. ASSUME UNCHANGED role PROVE Owners' # {}
    BY <1>1, <2>5 DEF Owners
  <2> QED
    BY <1>1, <2>2, <2>3, <2>4, <2>5
    DEF OrganizationNext, Handle, organizationVars, AuthoriseUser, AuthoriseKey,
        FindInvitation, Refuse, Invite, RevokeInvitation,
        InvitationExpires, CreateKey, RotateKey, RevokeKey, KeyExpires
<1>2. OrganizationTypeOK /\ [OrganizationNext]_organizationVars =>
          [Owners # {} => Owners' # {}]_organizationVars
  BY <1>1
<1> QED  BY <1>2, TypeCorrect, PTL DEF OrganizationSpec, KeepsOwner
-----------------------------------------------------------------------------
(* What an acceptance in flight cannot do *)

\* An acceptance that gets through finds its invitation open under the lock, whatever
\* it had loaded before, and admits its addressee only.
LEMMA AcceptedWasOpen ==
    ASSUME OrganizationTypeOK, NEW r \in Requests, Accept(r)
    PROVE  \E i \in PendingInvitations :
              /\ invitation[i].to \in Users
              /\ invitation' = [invitation EXCEPT ![i].accepted = TRUE]
              /\ role' = [role EXCEPT ![invitation[i].to] = invitation[i].role]
BY DEF Accept, Acceptable, PendingInvitations, Outstanding, OrganizationTypeOK

\* An invitation that was revoked is not accepted by any step.
LEMMA RevokedStep ==
    ASSUME OrganizationTypeOK, [OrganizationNext]_organizationVars, NEW i \in Invitations,
           invitation[i].revoked, ~invitation[i].accepted
    PROVE  ~invitation'[i].accepted
<1>1. ASSUME invitation'[i] = invitation[i] PROVE ~invitation'[i].accepted
  BY <1>1
<1>2. ASSUME NEW r \in Requests, NEW j \in Invitations, NEW u \in Users,
             NEW ro \in GrantedRoles, Invite(r, j, u, ro)
      PROVE  ~invitation'[i].accepted
  BY <1>2 DEF Invite, OrganizationTypeOK
<1>3. ASSUME NEW r \in Requests, NEW j \in Invitations, RevokeInvitation(r, j)
      PROVE  ~invitation'[i].accepted
  BY <1>3 DEF RevokeInvitation, OrganizationTypeOK, Invitation
<1>4. ASSUME NEW r \in Requests, NEW u \in Users, NEW ro \in GrantedRoles \union {"none"},
             EditMembership(r, u, ro)
      PROVE  ~invitation'[i].accepted
  BY <1>4 DEF EditMembership, OrganizationTypeOK, Invitation
<1>5. ASSUME NEW r \in Requests, Accept(r) PROVE ~invitation'[i].accepted
  <2>1. PICK j \in PendingInvitations : invitation' = [invitation EXCEPT ![j].accepted = TRUE]
    BY <1>5, AcceptedWasOpen
  <2>2. i # j
    BY <2>1 DEF PendingInvitations, Outstanding
  <2> QED  BY <2>1, <2>2 DEF OrganizationTypeOK
<1>6. ASSUME NEW j \in Invitations, InvitationExpires(j) PROVE ~invitation'[i].accepted
  BY <1>6 DEF InvitationExpires, OrganizationTypeOK, Invitation
<1> QED
  BY <1>1, <1>2, <1>3, <1>4, <1>5, <1>6
  DEF OrganizationNext, Handle, organizationVars, AuthoriseUser, AuthoriseKey, FindInvitation,
      Refuse, CreateKey, RotateKey, RevokeKey, KeyExpires, CreateUser, AttachOwner

\* What revoke_invitation or a demotion withdrew is never accepted, also by an
\* acceptance that had loaded the invitation before (accept_invitation,
\* api/auth.py:86), with any number of requests in flight.
THEOREM RevocationIsFinal == OrganizationSpec => RevokedIsFinal
<1>1. ASSUME OrganizationTypeOK, [OrganizationNext]_organizationVars
      PROVE  [\A i \in Invitations :
                 invitation[i].revoked /\ ~invitation[i].accepted =>
                     ~invitation'[i].accepted]_organizationVars
  BY <1>1, RevokedStep
<1> QED  BY <1>1, TypeCorrect, PTL DEF OrganizationSpec, RevokedIsFinal

\* A removed member does not come back through an acceptance that was in flight when
\* the invitation was used, withdrawn or expired (accept_invitation, api/auth.py:98;
\* remove_member, api/organizations.py:368).
THEOREM RemovedStayOut == OrganizationSpec => NoWayBack
<1>1. ASSUME OrganizationTypeOK, [OrganizationNext]_organizationVars, NEW u \in accounts,
             role[u] = "none", role'[u] # "none", Owners # {}
      PROVE  \E i \in PendingInvitations :
                 /\ invitation[i].to = u /\ invitation'[i].accepted
                 /\ role'[u] = invitation[i].role
  <2>1. u \in Users
    BY <1>1 DEF OrganizationTypeOK
  <2>2. ASSUME NEW r \in Requests, Accept(r)
        PROVE  \E i \in PendingInvitations :
                   /\ invitation[i].to = u /\ invitation'[i].accepted
                   /\ role'[u] = invitation[i].role
    <3>1. PICK i \in PendingInvitations :
              /\ invitation[i].to \in Users
              /\ invitation' = [invitation EXCEPT ![i].accepted = TRUE]
              /\ role' = [role EXCEPT ![invitation[i].to] = invitation[i].role]
      BY <1>1, <2>2, AcceptedWasOpen
    <3>2. invitation[i].to = u
      BY <1>1, <2>1, <3>1 DEF OrganizationTypeOK
    <3>3. invitation'[i].accepted /\ role'[u] = invitation[i].role
      BY <1>1, <2>1, <3>1, <3>2 DEF PendingInvitations, OrganizationTypeOK, Invitation
    <3> QED  BY <3>2, <3>3
  <2>3. ASSUME NEW r \in Requests, NEW v \in Users, NEW ro \in GrantedRoles \union {"none"},
               EditMembership(r, v, ro)
        PROVE  FALSE
    BY <1>1, <2>1, <2>3 DEF EditMembership, OrganizationTypeOK
  <2>4. ASSUME NEW v \in Users, CreateUser(v) \/ AttachOwner(v) PROVE FALSE
    BY <1>1, <2>1, <2>4 DEF CreateUser, AttachOwner, OrganizationTypeOK
  <2>5. ASSUME UNCHANGED role PROVE FALSE
    BY <1>1, <2>5
  <2> QED
    BY <1>1, <2>2, <2>3, <2>4, <2>5
    DEF OrganizationNext, Handle, organizationVars, AuthoriseUser, AuthoriseKey, FindInvitation,
        Refuse, Invite, RevokeInvitation, InvitationExpires, CreateKey, RotateKey, RevokeKey,
        KeyExpires
<1>2. ASSUME OrganizationTypeOK, [OrganizationNext]_organizationVars
      PROVE  [\A u \in accounts :
                 role[u] = "none" /\ role'[u] # "none" =>
                     \/ Owners = {}
                     \/ \E i \in PendingInvitations :
                            /\ invitation[i].to = u /\ invitation'[i].accepted
                            /\ role'[u] = invitation[i].role]_organizationVars
  BY <1>1, <1>2
<1> QED  BY <1>2, TypeCorrect, PTL DEF OrganizationSpec, NoWayBack
=============================================================================
