-------------------------- MODULE Membership_proofs --------------------------
(***************************************************************************)
(* Proofs about the people of the organizations and their devices: every   *)
(* organization keeps its one Owner, and a person is a member of it once,  *)
(* by whichever path they come in, for any number of people, organizations *)
(* and invitations.                                                        *)
(***************************************************************************)
EXTENDS MemberDevices, FiniteSetTheorems, SequenceTheorems, TLAPS

-----------------------------------------------------------------------------
(* The inductive invariant.                                                *)

OwnersOf(o) == {i \in RowIds : memberships[i].org = o /\ memberships[i].role = "Owner"}

MemberTypes ==
    /\ accounts \in [People -> {"none", "unverified", "verified"}]
    /\ sessions \subseteq {p \in People : accounts[p] = "verified"}
    /\ pages \in [People -> {"elsewhere", "invite", "verify_email", "onboarding", "console"}]
    /\ organizations \subseteq OrgIds
    /\ memberships \in Seq(Rows) /\ Len(memberships) <= MaxRows
    /\ inbox \subseteq RowIds
    /\ events \in 0 .. MaxEvents

DeviceTypes ==
    /\ instance_ready \in BOOLEAN
    /\ links \in [1 .. MaxRows -> KeyIds \cup {NoKey}]
    /\ live_keys \subseteq 1 .. made /\ made \in 0 .. MaxKeys
    /\ devices \in [Owners -> Devices]

OneOwner == \A o \in organizations : Cardinality(OwnersOf(o)) = 1

MemberOnce ==
    \A i, j \in RowIds :
        /\ memberships[i].org = memberships[j].org /\ memberships[i].user = memberships[j].user
        /\ memberships[i].user # Nobody
        => i = j

\* A row is of an organization there is, or it is gone.
RowsOfOrganizations ==
    \A i \in RowIds :
        /\ memberships[i].org \in organizations \cup {NoOrg}
        /\ memberships[i].org = NoOrg => memberships[i].user = Nobody

\* A person without an account has no membership yet, so that all their
\* invitations can become memberships at once, ...
AccountsFirst ==
    \A i \in RowIds : memberships[i].user # Nobody => accounts[memberships[i].user] # "none"

\* ... of which each organization has sent them one.
InvitedOnce ==
    \A i, j \in RowIds :
        /\ Pending(i) /\ Pending(j)
        /\ memberships[i].org = memberships[j].org
        /\ memberships[i].invited_email = memberships[j].invited_email
        => i = j

RowsInv == OneOwner /\ MemberOnce /\ RowsOfOrganizations /\ AccountsFirst /\ InvitedOnce
MemberInv == MemberTypes /\ RowsInv

-----------------------------------------------------------------------------
(* The rows after a step.                                                  *)

LEMMA RowsAreNumbered ==
    ASSUME MemberTypes
    PROVE  /\ Len(memberships) \in Nat /\ RowIds = 1 .. Len(memberships)
           /\ memberships \in Seq(Rows) /\ \A i \in RowIds : memberships[i] \in Rows
BY LenProperties, ElementOfSeq DEF MemberTypes, RowIds

\* A row is added at the end.
LEMMA Appended ==
    ASSUME MemberTypes, NEW row \in Rows, memberships' = Append(memberships, row),
           Len(memberships) < MaxRows
    PROVE  /\ memberships' \in Seq(Rows) /\ Len(memberships') <= MaxRows
           /\ RowIds' = RowIds \cup {Len(memberships) + 1} /\ Len(memberships) + 1 \notin RowIds
           /\ memberships'[Len(memberships) + 1] = row
           /\ \A i \in RowIds : memberships'[i] = memberships[i]
<1>1. Len(memberships) \in Nat /\ RowIds = 1 .. Len(memberships) /\ memberships \in Seq(Rows)
  BY RowsAreNumbered
<1>2. /\ memberships' \in Seq(Rows) /\ Len(memberships') = Len(memberships) + 1
      /\ \A i \in 1 .. Len(memberships) : memberships'[i] = memberships[i]
      /\ memberships'[Len(memberships) + 1] = row
  BY <1>1, AppendProperties
<1>3. RowIds' = 1 .. (Len(memberships) + 1)
  BY <1>2, LenProperties DEF RowIds
<1>4. MaxRows \in Nat
  BY BoundsAreNumbers
<1> QED
  BY <1>1, <1>2, <1>3, <1>4

\* Rows are changed where they are.
LEMMA Changed ==
    ASSUME MemberTypes, DOMAIN memberships' = RowIds, memberships' = [i \in RowIds |-> memberships'[i]],
           \A i \in RowIds : memberships'[i] \in Rows
    PROVE  /\ memberships' \in Seq(Rows) /\ Len(memberships') <= MaxRows /\ RowIds' = RowIds
<1>1. Len(memberships) \in Nat /\ RowIds = 1 .. Len(memberships) /\ Len(memberships) <= MaxRows
  BY RowsAreNumbered DEF MemberTypes
<1>2. memberships' \in [1 .. Len(memberships) -> Rows]
  BY <1>1
<1>3. memberships' \in Seq(Rows)
  BY <1>1, <1>2, SeqDef
<1>4. Len(memberships') = Len(memberships)
  BY <1>1, <1>2, <1>3
<1> QED
  BY <1>1, <1>3, <1>4 DEF RowIds

\* An account that there is remains.
AccountsStay == \A p \in People : accounts[p] # "none" => accounts'[p] # "none"

LEMMA RowsUntouched ==
    ASSUME MemberInv, AccountsStay, UNCHANGED <<organizations, memberships>>
    PROVE  memberships' \in Seq(Rows) /\ Len(memberships') <= MaxRows /\ RowsInv'
<1>1. \A i \in RowIds : memberships[i].user \in People \cup {Nobody}
  BY RowsAreNumbered DEF MemberInv, Rows
<1>2. AccountsFirst'
  BY <1>1 DEF MemberInv, RowsInv, AccountsFirst, AccountsStay, RowIds
<1>3. OneOwner' /\ MemberOnce' /\ RowsOfOrganizations' /\ InvitedOnce'
  BY DEF MemberInv, RowsInv, OneOwner, OwnersOf, MemberOnce, RowsOfOrganizations, InvitedOnce,
         Pending, RowIds
<1> QED
  BY <1>2, <1>3 DEF MemberInv, MemberTypes, RowsInv

\* One row changes, and what it says of an organization, of a member or of an
\* invited person no other row says.
LEMMA OneRowChanges ==
    ASSUME MemberInv, AccountsStay, organizations' = organizations,
           NEW i \in RowIds, NEW row \in Rows, memberships' = [memberships EXCEPT ![i] = row],
           (memberships[i].role = "Owner" \/ row.role = "Owner") =>
                row.role = memberships[i].role /\ row.org = memberships[i].org,
           row.org \in organizations \cup {NoOrg}, row.org = NoOrg => row.user = Nobody,
           row.user # Nobody => accounts[row.user] # "none",
           row.user # Nobody => \A j \in RowIds : memberships[j].user = row.user
                                /\ memberships[j].org = row.org => j = i,
           row.user = Nobody /\ row.org # NoOrg =>
                \A j \in RowIds : Pending(j) /\ memberships[j].org = row.org
                    /\ memberships[j].invited_email = row.invited_email => j = i
    PROVE  /\ memberships' \in Seq(Rows) /\ Len(memberships') <= MaxRows /\ RowsInv'
           /\ RowIds' = RowIds
<1>1. /\ Len(memberships) \in Nat /\ RowIds = 1 .. Len(memberships)
      /\ memberships \in Seq(Rows) /\ \A j \in RowIds : memberships[j] \in Rows
  BY RowsAreNumbered DEF MemberInv
<1>2. /\ DOMAIN memberships' = RowIds /\ memberships' = [j \in RowIds |-> memberships'[j]]
      /\ memberships'[i] = row /\ \A j \in RowIds : j # i => memberships'[j] = memberships[j]
  BY <1>1 DEF RowIds
<1>3. \A j \in RowIds : memberships'[j] \in Rows
  BY <1>1, <1>2
<1>4. memberships' \in Seq(Rows) /\ Len(memberships') <= MaxRows /\ RowIds' = RowIds
  BY <1>2, <1>3, Changed DEF MemberInv
<1>5. OneOwner'
  <2>1. \A o : (\A j \in RowIds : memberships'[j].org = o /\ memberships'[j].role = "Owner"
                <=> memberships[j].org = o /\ memberships[j].role = "Owner")
    BY <1>2
  <2>2. \A o : OwnersOf(o)' = OwnersOf(o)
    BY <1>4, <2>1 DEF OwnersOf
  <2> QED
    BY <2>2 DEF MemberInv, RowsInv, OneOwner
<1>6. MemberOnce'
  BY <1>2, <1>4 DEF MemberInv, RowsInv, MemberOnce
<1>7. RowsOfOrganizations'
  BY <1>2, <1>4 DEF MemberInv, RowsInv, RowsOfOrganizations
<1>8. AccountsFirst'
  <2>1. \A j \in RowIds : memberships'[j].user # Nobody => accounts[memberships'[j].user] # "none"
    BY <1>2 DEF MemberInv, RowsInv, AccountsFirst
  <2>2. \A j \in RowIds : memberships'[j].user \in People \cup {Nobody}
    BY <1>3 DEF Rows
  <2> QED
    BY <1>4, <2>1, <2>2 DEF AccountsFirst, AccountsStay
<1>9. InvitedOnce'
  <2>1. \A j \in RowIds : Pending(j)' <=> memberships'[j].org # NoOrg /\ memberships'[j].user = Nobody
    BY DEF Pending
  <2>2. \A j \in RowIds : j # i => (Pending(j)' <=> Pending(j))
    BY <1>2, <2>1 DEF Pending
  <2> QED
    BY <1>2, <1>4, <2>1, <2>2 DEF MemberInv, RowsInv, InvitedOnce
<1> QED
  BY <1>4, <1>5, <1>6, <1>7, <1>8, <1>9 DEF RowsInv

\* A row is added that is an invitation, or the Owner's of a new organization.
LEMMA RowIsAdded ==
    ASSUME MemberInv, AccountsStay, Len(memberships) < MaxRows,
           NEW row \in Rows, memberships' = Append(memberships, row),
           row.org \in organizations', row.org # NoOrg,
           \/ /\ organizations' = organizations
              /\ row.role # "Owner" /\ row.user = Nobody
              /\ \A j \in RowIds : ~(Pending(j) /\ memberships[j].org = row.org
                                     /\ memberships[j].invited_email = row.invited_email)
           \/ /\ organizations' = organizations \cup {row.org} /\ row.org \notin organizations
              /\ row.role = "Owner" /\ row.user # Nobody /\ accounts[row.user] # "none"
    PROVE  /\ memberships' \in Seq(Rows) /\ Len(memberships') <= MaxRows /\ RowsInv'
           /\ RowIds \subseteq RowIds' /\ Len(memberships) + 1 \in RowIds'
<1> PICK n : n = Len(memberships) + 1
  OBVIOUS
<1>1. /\ Len(memberships) \in Nat /\ RowIds = 1 .. Len(memberships)
      /\ \A j \in RowIds : memberships[j] \in Rows
  BY RowsAreNumbered DEF MemberInv
<1>2. /\ memberships' \in Seq(Rows) /\ Len(memberships') <= MaxRows
      /\ RowIds' = RowIds \cup {n} /\ n \notin RowIds
      /\ memberships'[n] = row
      /\ \A j \in RowIds : memberships'[j] = memberships[j]
  BY Appended DEF MemberInv
<1>3. \A j \in RowIds : memberships[j].org \in organizations \cup {NoOrg}
                        /\ (memberships[j].org = NoOrg => memberships[j].user = Nobody)
  BY DEF MemberInv, RowsInv, RowsOfOrganizations
<1>4. OneOwner'
  <2>1. \A o \in organizations : row.org = o => row.role # "Owner"
    OBVIOUS
  <2>2. \A o \in organizations : OwnersOf(o)' = OwnersOf(o)
    BY <1>2, <2>1 DEF OwnersOf
  <2>3. ASSUME row.org \notin organizations
        PROVE  row.role = "Owner" /\ OwnersOf(row.org)' = {n}
    <3>1. row.role = "Owner"
      BY <2>3
    <3>2. \A j \in RowIds : memberships[j].org # row.org
      BY <1>3, <2>3
    <3> QED
      BY <1>2, <3>1, <3>2 DEF OwnersOf
  <2>4. \A o \in organizations' : o \notin organizations => o = row.org
    OBVIOUS
  <2>5. ASSUME NEW o \in organizations'
        PROVE  Cardinality(OwnersOf(o)') = 1
    <3>1. CASE o \in organizations
      BY <2>2, <3>1 DEF MemberInv, RowsInv, OneOwner
    <3>2. CASE o \notin organizations
      <4>1. OwnersOf(o)' = {n}
        BY <2>3, <2>4, <3>2
      <4> QED
        BY <4>1, FS_Singleton
    <3> QED
      BY <3>1, <3>2
  <2> QED
    BY <2>5 DEF OneOwner
<1>5. MemberOnce'
  <2>1. \A j \in RowIds : row.user # Nobody => memberships[j].org # row.org
    BY <1>3
  <2>2. ASSUME NEW i \in RowIds', NEW j \in RowIds',
               memberships'[i].org = memberships'[j].org, memberships'[i].user = memberships'[j].user,
               memberships'[i].user # Nobody
        PROVE  i = j
    <3>1. CASE i \in RowIds /\ j \in RowIds
      <4>1. memberships'[i] = memberships[i] /\ memberships'[j] = memberships[j]
        BY <1>2, <3>1
      <4> QED
        BY <2>2, <3>1, <4>1 DEF MemberInv, RowsInv, MemberOnce
    <3>2. CASE i = n /\ j = n
      BY <3>2
    <3>3. CASE i = n /\ j \in RowIds
      BY <1>2, <2>1, <2>2, <3>3
    <3>4. CASE i \in RowIds /\ j = n
      BY <1>2, <2>1, <2>2, <3>4
    <3> QED
      BY <1>2, <3>1, <3>2, <3>3, <3>4
  <2> QED
    BY <2>2 DEF MemberOnce
<1>6. RowsOfOrganizations'
  BY <1>2, <1>3 DEF RowsOfOrganizations
<1>7. AccountsFirst'
  <2>1. \A j \in RowIds' : memberships'[j].user # Nobody => accounts[memberships'[j].user] # "none"
    BY <1>2 DEF MemberInv, RowsInv, AccountsFirst
  <2>2. \A j \in RowIds' : memberships'[j].user \in People \cup {Nobody}
    BY <1>1, <1>2 DEF Rows
  <2> QED
    BY <2>1, <2>2 DEF AccountsFirst, AccountsStay
<1>8. InvitedOnce'
  <2>1. \A j \in RowIds' : Pending(j)' <=> memberships'[j].org # NoOrg /\ memberships'[j].user = Nobody
    BY DEF Pending
  <2>2. \A j \in RowIds : Pending(j)' <=> Pending(j)
    BY <1>2, <2>1 DEF Pending
  <2>3. \A j \in RowIds : ~(Pending(n)' /\ Pending(j) /\ memberships[j].org = row.org
                            /\ memberships[j].invited_email = row.invited_email)
    <3>1. Pending(n)' => row.user = Nobody
      BY <1>2, <2>1
    <3> QED
      BY <3>1
  <2>4. ASSUME NEW i \in RowIds', NEW j \in RowIds', Pending(i)', Pending(j)',
               memberships'[i].org = memberships'[j].org,
               memberships'[i].invited_email = memberships'[j].invited_email
        PROVE  i = j
    <3>1. CASE i \in RowIds /\ j \in RowIds
      <4>1. /\ memberships'[i] = memberships[i] /\ memberships'[j] = memberships[j]
            /\ Pending(i) /\ Pending(j)
        BY <1>2, <2>2, <2>4, <3>1
      <4> QED
        BY <2>4, <3>1, <4>1 DEF MemberInv, RowsInv, InvitedOnce
    <3>2. CASE i = n /\ j = n
      BY <3>2
    <3>3. CASE i = n /\ j \in RowIds
      BY <1>2, <2>2, <2>3, <2>4, <3>3
    <3>4. CASE i \in RowIds /\ j = n
      BY <1>2, <2>2, <2>3, <2>4, <3>4
    <3> QED
      BY <1>2, <3>1, <3>2, <3>3, <3>4
  <2> QED
    BY <2>4 DEF InvitedOnce
<1> QED
  BY <1>2, <1>4, <1>5, <1>6, <1>7, <1>8 DEF RowsInv

\* A new account takes all the invitations of its address.
LEMMA InvitesAreLinked ==
    ASSUME MemberInv, AccountsStay, organizations' = organizations,
           NEW p \in People, accounts[p] = "none", accounts'[p] # "none", link_pending_invites(p)
    PROVE  /\ memberships' \in Seq(Rows) /\ Len(memberships') <= MaxRows /\ RowsInv'
           /\ RowIds' = RowIds
<1> DEFINE taken(i) == Pending(i) /\ memberships[i].invited_email = p
<1>1. /\ Len(memberships) \in Nat /\ RowIds = 1 .. Len(memberships)
      /\ memberships \in Seq(Rows) /\ \A j \in RowIds : memberships[j] \in Rows
  BY RowsAreNumbered DEF MemberInv
<1>2. \A row \in Rows : /\ Joined(row, p) \in Rows /\ Joined(row, p).org = row.org
                        /\ Joined(row, p).role = row.role /\ Joined(row, p).user = p
  BY DEF Joined, Rows
<1>3. /\ DOMAIN memberships' = RowIds /\ memberships' = [j \in RowIds |-> memberships'[j]]
      /\ \A j \in RowIds : memberships'[j] = IF taken(j) THEN Joined(memberships[j], p)
                                                         ELSE memberships[j]
  BY DEF link_pending_invites
<1>4. \A j \in RowIds : /\ memberships'[j] \in Rows
                        /\ memberships'[j].org = memberships[j].org
                        /\ memberships'[j].role = memberships[j].role
                        /\ taken(j) => memberships'[j].user = p
                        /\ ~taken(j) => memberships'[j] = memberships[j]
  BY <1>1, <1>2, <1>3
<1>5. memberships' \in Seq(Rows) /\ Len(memberships') <= MaxRows /\ RowIds' = RowIds
  BY <1>3, <1>4, Changed DEF MemberInv
<1>6. p # Nobody /\ \A j \in RowIds : memberships[j].user # p
  BY NullsAreNone DEF MemberInv, RowsInv, AccountsFirst
<1>7. OneOwner'
  <2>1. \A o : OwnersOf(o)' = OwnersOf(o)
    BY <1>4, <1>5 DEF OwnersOf
  <2> QED
    BY <2>1 DEF MemberInv, RowsInv, OneOwner
<1>8. MemberOnce'
  <2>1. ASSUME NEW i \in RowIds, NEW j \in RowIds,
               memberships'[i].org = memberships'[j].org, memberships'[i].user = memberships'[j].user,
               memberships'[i].user # Nobody
        PROVE  i = j
    <3>1. CASE taken(i) /\ taken(j)
      BY <1>4, <2>1, <3>1 DEF MemberInv, RowsInv, InvitedOnce
    <3>2. CASE taken(i) /\ ~taken(j)
      BY <1>4, <1>6, <2>1, <3>2
    <3>3. CASE ~taken(i) /\ taken(j)
      BY <1>4, <1>6, <2>1, <3>3
    <3>4. CASE ~taken(i) /\ ~taken(j)
      BY <1>4, <2>1, <3>4 DEF MemberInv, RowsInv, MemberOnce
    <3> QED
      BY <3>1, <3>2, <3>3, <3>4
  <2> QED
    BY <1>5, <2>1 DEF MemberOnce
<1>9. RowsOfOrganizations'
  BY <1>4, <1>5 DEF MemberInv, RowsInv, RowsOfOrganizations, Pending
<1>10. AccountsFirst'
  <2>1. \A j \in RowIds : memberships'[j].user # Nobody =>
                memberships'[j].user = p \/ accounts[memberships'[j].user] # "none"
    BY <1>4 DEF MemberInv, RowsInv, AccountsFirst
  <2>2. \A j \in RowIds : memberships'[j].user \in People \cup {Nobody}
    BY <1>4 DEF Rows
  <2> QED
    BY <1>5, <2>1, <2>2 DEF AccountsFirst, AccountsStay
<1>11. InvitedOnce'
  <2>1. \A j \in RowIds : Pending(j)' <=> memberships'[j].org # NoOrg /\ memberships'[j].user = Nobody
    BY DEF Pending
  <2>2. \A j \in RowIds : Pending(j)' => Pending(j) /\ memberships'[j] = memberships[j]
    BY <1>4, <1>6, <2>1 DEF Pending
  <2> QED
    BY <1>5, <2>2 DEF MemberInv, RowsInv, InvitedOnce
<1> QED
  BY <1>5, <1>7, <1>8, <1>9, <1>10, <1>11 DEF RowsInv

-----------------------------------------------------------------------------
(* The people.                                                             *)

\* What the rows do not say of the people's types.
PeopleTypes ==
    /\ accounts \in [People -> {"none", "unverified", "verified"}]
    /\ sessions \subseteq {p \in People : accounts[p] = "verified"}
    /\ pages \in [People -> {"elsewhere", "invite", "verify_email", "onboarding", "console"}]
    /\ organizations \subseteq OrgIds
    /\ events \in 0 .. MaxEvents

LEMMA EventIsCounted ==
    ASSUME events \in 0 .. MaxEvents, Event
    PROVE  events' \in 0 .. MaxEvents
BY BoundsAreNumbers DEF Event

LEMMA TypesTogether ==
    ASSUME PeopleTypes', memberships' \in Seq(Rows), Len(memberships') <= MaxRows, RowsInv',
           inbox' \subseteq RowIds'
    PROVE  MemberInv'
BY DEF MemberInv, MemberTypes, PeopleTypes

LEMMA PeopleStay ==
    ASSUME MemberInv, UNCHANGED people, organizations' \subseteq OrgIds, events' \in 0 .. MaxEvents
    PROVE  PeopleTypes' /\ AccountsStay
BY DEF MemberInv, MemberTypes, PeopleTypes, people, AccountsStay

LEMMA RowIsOfOrganization ==
    ASSUME MemberInv, NEW i \in RowIds
    PROVE  /\ memberships[i] \in Rows
           /\ memberships[i].org # NoOrg => memberships[i].org \in organizations
           /\ memberships[i].org = NoOrg => memberships[i].user = Nobody
BY RowsAreNumbered DEF MemberInv, RowsInv, RowsOfOrganizations

LEMMA NullsArePlain == NoRow \in Rows /\ NoOrg \notin OrgIds /\ Nobody \notin People
BY NullsAreNone DEF NoRow, Rows, Roles

-----------------------------------------------------------------------------
(* The team card.                                                          *)

LEMMA InviteMember ==
    ASSUME MemberInv, NEW a \in People, NEW p \in People, NEW role \in {"Admin", "Member"},
           inviteMember(a, p, role)
    PROVE  MemberInv'
<1> PICK o : o = getCurrentUserOrg(a)
  OBVIOUS
<1> PICK row : row = [NoRow EXCEPT !.org = o, !.invited_email = p, !.role = role, !.token = "live"]
  OBVIOUS
<1>1. /\ o # NoOrg /\ has_org_role(o, a) /\ Len(memberships) < MaxRows
      /\ \A i \in RowIds : ~(Pending(i) /\ memberships[i].org = o /\ memberships[i].invited_email = p)
      /\ memberships' = Append(memberships, row)
      /\ InviteEmail(Len(memberships) + 1) /\ Event
      /\ UNCHANGED people /\ organizations' = organizations
  BY DEF inviteMember
<1>2. o \in organizations /\ organizations \subseteq OrgIds
  <2>1. PICK i \in RowIds : memberships[i].org = o
    BY <1>1 DEF has_org_role, RowsOf
  <2> QED
    BY <1>1, <2>1, RowIsOfOrganization DEF MemberInv, MemberTypes
<1>3. /\ row \in Rows /\ row.org = o /\ row.user = Nobody /\ row.role = role
      /\ row.invited_email = p
  BY <1>2 DEF NoRow, Rows, Roles
<1>4. events' \in 0 .. MaxEvents
  BY <1>1, EventIsCounted DEF MemberInv, MemberTypes
<1>5. PeopleTypes' /\ AccountsStay
  BY <1>1, <1>2, <1>4, PeopleStay
<1>6. /\ memberships' \in Seq(Rows) /\ Len(memberships') <= MaxRows /\ RowsInv'
      /\ RowIds \subseteq RowIds' /\ Len(memberships) + 1 \in RowIds'
  <2>1. row.org \in organizations' /\ row.org # NoOrg /\ row.role # "Owner"
    BY <1>1, <1>2, <1>3
  <2>2. \A j \in RowIds : ~(Pending(j) /\ memberships[j].org = row.org
                            /\ memberships[j].invited_email = row.invited_email)
    BY <1>1, <1>3
  <2> QED
    BY <1>1, <1>3, <1>5, <2>1, <2>2, RowIsAdded
<1>7. inbox' \subseteq RowIds'
  BY <1>1, <1>6 DEF InviteEmail, MemberInv, MemberTypes
<1> QED
  BY <1>5, <1>6, <1>7, TypesTogether

LEMMA UpdateMemberRole ==
    ASSUME MemberInv, NEW a \in People, NEW i \in RowIds, NEW role \in {"Admin", "Member"},
           updateMemberRole(a, i, role)
    PROVE  MemberInv'
<1> PICK row : row = [memberships[i] EXCEPT !.role = role]
  OBVIOUS
<1>1. /\ memberships[i].org # NoOrg /\ memberships[i].role # "Owner"
      /\ memberships' = [memberships EXCEPT ![i] = row] /\ Event
      /\ UNCHANGED people /\ organizations' = organizations /\ inbox' = inbox
  BY DEF updateMemberRole, Manageable
<1>2. /\ row \in Rows /\ row.role = role /\ row.org = memberships[i].org
      /\ row.user = memberships[i].user /\ row.invited_email = memberships[i].invited_email
  BY RowIsOfOrganization DEF Rows, Roles
<1>3. PeopleTypes' /\ AccountsStay
  BY <1>1, EventIsCounted, PeopleStay DEF MemberInv, MemberTypes
<1>4. /\ row.role # "Owner" /\ row.org \in organizations \cup {NoOrg}
      /\ row.org = NoOrg => row.user = Nobody
      /\ row.user # Nobody => accounts[row.user] # "none"
  BY <1>2, RowIsOfOrganization DEF MemberInv, RowsInv, AccountsFirst
<1>5. row.user # Nobody => \A j \in RowIds : memberships[j].user = row.user
                           /\ memberships[j].org = row.org => j = i
  BY <1>2 DEF MemberInv, RowsInv, MemberOnce
<1>6. row.user = Nobody /\ row.org # NoOrg =>
                \A j \in RowIds : Pending(j) /\ memberships[j].org = row.org
                    /\ memberships[j].invited_email = row.invited_email => j = i
  BY <1>2 DEF MemberInv, RowsInv, InvitedOnce, Pending
<1>7. /\ memberships' \in Seq(Rows) /\ Len(memberships') <= MaxRows /\ RowsInv'
      /\ RowIds' = RowIds
  BY <1>1, <1>2, <1>3, <1>4, <1>5, <1>6, OneRowChanges
<1> QED
  BY <1>1, <1>3, <1>7, TypesTogether DEF MemberInv, MemberTypes

LEMMA RemoveMember ==
    ASSUME MemberInv, NEW a \in People, NEW i \in RowIds, removeMember(a, i)
    PROVE  MemberInv'
<1>1. /\ memberships[i].role # "Owner"
      /\ memberships' = [memberships EXCEPT ![i] = NoRow] /\ Event
      /\ UNCHANGED people /\ organizations' = organizations /\ inbox' = inbox
  BY DEF removeMember, Manageable
<1>2. PeopleTypes' /\ AccountsStay
  BY <1>1, EventIsCounted, PeopleStay DEF MemberInv, MemberTypes
<1>3. /\ memberships' \in Seq(Rows) /\ Len(memberships') <= MaxRows /\ RowsInv'
      /\ RowIds' = RowIds
  <2>1. NoRow.role # "Owner" /\ NoRow.org = NoOrg /\ NoRow.user = Nobody
    BY DEF NoRow
  <2> QED
    BY <1>1, <1>2, <2>1, NullsArePlain, OneRowChanges
<1> QED
  BY <1>1, <1>2, <1>3, TypesTogether DEF MemberInv, MemberTypes

\* An expired invitation is one still.
LEMMA InvitationExpires ==
    ASSUME MemberInv, NEW i \in RowIds, InviteExpires(i)
    PROVE  MemberInv'
<1> PICK row : row = [memberships[i] EXCEPT !.token = "expired"]
  OBVIOUS
<1>1. /\ Pending(i)
      /\ memberships' = [memberships EXCEPT ![i] = row] /\ Event
      /\ UNCHANGED people /\ organizations' = organizations /\ inbox' = inbox
  BY DEF InviteExpires
<1>2. PeopleTypes' /\ AccountsStay
  BY <1>1, EventIsCounted, PeopleStay DEF MemberInv, MemberTypes
<1>3. /\ row \in Rows /\ row.role = memberships[i].role /\ row.org = memberships[i].org
      /\ row.user = Nobody /\ row.invited_email = memberships[i].invited_email
      /\ row.org \in organizations
  BY <1>1, RowIsOfOrganization DEF Rows, Pending
<1>4. \A j \in RowIds : Pending(j) /\ memberships[j].org = row.org
                    /\ memberships[j].invited_email = row.invited_email => j = i
  BY <1>1, <1>3 DEF MemberInv, RowsInv, InvitedOnce
<1>5. /\ memberships' \in Seq(Rows) /\ Len(memberships') <= MaxRows /\ RowsInv'
      /\ RowIds' = RowIds
  BY <1>1, <1>2, <1>3, <1>4, OneRowChanges
<1> QED
  BY <1>1, <1>2, <1>5, TypesTogether DEF MemberInv, MemberTypes

-----------------------------------------------------------------------------
(* Accounts and sessions.                                                  *)

LEMMA LandingIsAPage ==
    ASSUME NEW p
    PROVE  Landing(p) \in {"onboarding", "console"}
BY DEF Landing

LEMMA SignUpWithEmail ==
    ASSUME MemberInv, NEW p \in People, signUpWithEmail(p)
    PROVE  MemberInv'
<1>1. /\ p \notin sessions /\ pages' = [pages EXCEPT ![p] = "verify_email"]
      /\ sessions' = sessions /\ organizations' = organizations /\ inbox' = inbox
      /\ events' = events
  BY DEF signUpWithEmail
<1>2. CASE accounts[p] = "none"
  <2>1. accounts' = [accounts EXCEPT ![p] = "unverified"] /\ link_pending_invites(p)
    BY <1>2 DEF signUpWithEmail
  <2>2. PeopleTypes' /\ AccountsStay
    BY <1>1, <2>1 DEF MemberInv, MemberTypes, PeopleTypes, AccountsStay
  <2>3. accounts'[p] # "none"
    BY <2>1 DEF MemberInv, MemberTypes
  <2>4. /\ memberships' \in Seq(Rows) /\ Len(memberships') <= MaxRows /\ RowsInv'
        /\ RowIds' = RowIds
    BY <1>1, <1>2, <2>1, <2>2, <2>3, InvitesAreLinked
  <2> QED
    BY <1>1, <2>2, <2>4, TypesTogether DEF MemberInv, MemberTypes
<1>3. CASE accounts[p] # "none"
  <2>1. UNCHANGED <<accounts, memberships>>
    BY <1>3 DEF signUpWithEmail
  <2>2. PeopleTypes' /\ AccountsStay
    BY <1>1, <2>1 DEF MemberInv, MemberTypes, PeopleTypes, AccountsStay
  <2> QED
    BY <1>1, <2>1, <2>2, RowsUntouched, TypesTogether DEF MemberInv, MemberTypes, RowIds
<1> QED
  BY <1>2, <1>3

LEMMA SignInIsTyped ==
    ASSUME MemberInv, NEW p \in People, SignedIn(p),
           accounts' \in [People -> {"none", "unverified", "verified"}], accounts'[p] = "verified",
           \A q \in People : q # p => accounts'[q] = accounts[q],
           organizations' = organizations, events' = events
    PROVE  PeopleTypes' /\ AccountsStay
<1>1. PICK page \in {"onboarding", "console"} : pages' = [pages EXCEPT ![p] = page]
  BY LandingIsAPage DEF SignedIn
<1>2. sessions' = sessions \cup {p}
  BY DEF SignedIn
<1>3. pages' \in [People -> {"elsewhere", "invite", "verify_email", "onboarding", "console"}]
  BY <1>1 DEF MemberInv, MemberTypes
<1>4. \A q \in sessions' : q \in People /\ accounts'[q] = "verified"
  BY <1>2 DEF MemberInv, MemberTypes
<1>5. AccountsStay
  BY DEF AccountsStay
<1> QED
  BY <1>3, <1>4, <1>5 DEF MemberInv, MemberTypes, PeopleTypes

LEMMA VerifiesEmail ==
    ASSUME MemberInv, NEW p \in People, VerifyEmail(p)
    PROVE  MemberInv'
<1>1. /\ accounts' = [accounts EXCEPT ![p] = "verified"] /\ SignedIn(p)
      /\ organizations' = organizations /\ memberships' = memberships /\ inbox' = inbox
      /\ events' = events
  BY DEF VerifyEmail, rows
<1>2. PeopleTypes' /\ AccountsStay
  <2>1. /\ accounts' \in [People -> {"none", "unverified", "verified"}] /\ accounts'[p] = "verified"
        /\ \A q \in People : q # p => accounts'[q] = accounts[q]
    BY <1>1 DEF MemberInv, MemberTypes
  <2> QED
    BY <1>1, <2>1, SignInIsTyped
<1> QED
  BY <1>1, <1>2, RowsUntouched, TypesTogether DEF MemberInv, MemberTypes, RowIds

LEMMA SignInWithEmail ==
    ASSUME MemberInv, NEW p \in People, signInWithEmail(p)
    PROVE  MemberInv'
<1>1. /\ accounts' = accounts /\ accounts[p] = "verified" /\ SignedIn(p)
      /\ organizations' = organizations /\ memberships' = memberships /\ inbox' = inbox
      /\ events' = events
  BY DEF signInWithEmail, rows
<1>2. PeopleTypes' /\ AccountsStay
  BY <1>1, SignInIsTyped DEF MemberInv, MemberTypes
<1> QED
  BY <1>1, <1>2, RowsUntouched, TypesTogether DEF MemberInv, MemberTypes, RowIds

LEMMA SignInWithOAuth ==
    ASSUME MemberInv, NEW p \in People, signInWithOAuth(p)
    PROVE  MemberInv'
<1>1. /\ accounts' = [accounts EXCEPT ![p] = "verified"] /\ SignedIn(p)
      /\ organizations' = organizations /\ inbox' = inbox /\ events' = events
  BY DEF signInWithOAuth
<1>2. /\ accounts' \in [People -> {"none", "unverified", "verified"}] /\ accounts'[p] = "verified"
      /\ \A q \in People : q # p => accounts'[q] = accounts[q]
  BY <1>1 DEF MemberInv, MemberTypes
<1>3. PeopleTypes' /\ AccountsStay
  BY <1>1, <1>2, SignInIsTyped
<1>4. /\ memberships' \in Seq(Rows) /\ Len(memberships') <= MaxRows /\ RowsInv'
      /\ RowIds' = RowIds
  <2>1. CASE accounts[p] = "none"
    <3>1. link_pending_invites(p)
      BY <2>1 DEF signInWithOAuth
    <3> QED
      BY <1>1, <1>2, <1>3, <2>1, <3>1, InvitesAreLinked
  <2>2. CASE accounts[p] # "none"
    <3>1. UNCHANGED memberships
      BY <2>2 DEF signInWithOAuth
    <3> QED
      BY <1>1, <1>3, <3>1, RowsUntouched DEF RowIds
  <2> QED
    BY <2>1, <2>2
<1> QED
  BY <1>1, <1>3, <1>4, TypesTogether DEF MemberInv, MemberTypes

\* One person's session and page change, and no account or row.
LEMMA PageChanges ==
    ASSUME MemberInv, NEW p \in People,
           NEW page \in {"elsewhere", "invite", "onboarding", "console"},
           pages' = [pages EXCEPT ![p] = page], sessions' \subseteq sessions,
           accounts' = accounts, UNCHANGED rows, events' \in 0 .. MaxEvents
    PROVE  MemberInv'
<1>1. organizations' = organizations /\ memberships' = memberships /\ inbox' = inbox
  BY DEF rows
<1>2. PeopleTypes' /\ AccountsStay
  BY <1>1 DEF MemberInv, MemberTypes, PeopleTypes, AccountsStay
<1> QED
  BY <1>1, <1>2, RowsUntouched, TypesTogether DEF MemberInv, MemberTypes, RowIds

LEMMA SignOut ==
    ASSUME MemberInv, NEW p \in People, signOut(p)
    PROVE  MemberInv'
<1>1. events' \in 0 .. MaxEvents
  BY EventIsCounted DEF signOut, MemberInv, MemberTypes
<1> QED
  BY <1>1, PageChanges DEF signOut

LEMMA LayoutLeads ==
    ASSUME MemberInv, NEW p \in People, ConsoleLayout(p)
    PROVE  MemberInv'
<1>1. PICK page \in {"onboarding", "console"} : pages' = [pages EXCEPT ![p] = page]
  BY LandingIsAPage DEF ConsoleLayout
<1> QED
  BY <1>1, PageChanges DEF ConsoleLayout, MemberInv, MemberTypes

LEMMA CompleteOnboarding ==
    ASSUME MemberInv, NEW p \in People, NEW o \in OrgIds, completeOnboarding(p, o)
    PROVE  MemberInv'
<1> PICK row : row = OwnerRow(o, p)
  OBVIOUS
<1>1. /\ p \in sessions /\ o \notin organizations /\ Len(memberships) < MaxRows
      /\ organizations' = organizations \cup {o} /\ memberships' = Append(memberships, row)
      /\ pages' = [pages EXCEPT ![p] = "console"] /\ Event
      /\ UNCHANGED <<accounts, sessions, inbox>>
  BY DEF completeOnboarding
<1>2. row \in Rows /\ row.org = o /\ row.user = p /\ row.role = "Owner"
  BY DEF OwnerRow, NoRow, Rows, Roles
<1>3. PeopleTypes' /\ AccountsStay
  BY <1>1, EventIsCounted DEF MemberInv, MemberTypes, PeopleTypes, AccountsStay
<1>4. row.org # NoOrg /\ row.user # Nobody /\ accounts[row.user] # "none"
  BY <1>1, <1>2, NullsArePlain DEF MemberInv, MemberTypes
<1>5. /\ memberships' \in Seq(Rows) /\ Len(memberships') <= MaxRows /\ RowsInv'
      /\ RowIds \subseteq RowIds'
  BY <1>1, <1>2, <1>3, <1>4, RowIsAdded
<1> QED
  BY <1>1, <1>3, <1>5, TypesTogether DEF MemberInv, MemberTypes

LEMMA AcceptInvite ==
    ASSUME MemberInv, NEW p \in People, NEW i \in RowIds, AcceptInvitePage(p, i)
    PROVE  MemberInv'
<1>1. /\ Pending(i) /\ accounts' = accounts /\ sessions' = sessions /\ organizations' = organizations
      /\ inbox' = inbox /\ events' = events
  BY DEF AcceptInvitePage, InviteFound
<1>2. CASE UNCHANGED memberships /\ (\/ UNCHANGED pages
                                     \/ pages' = [pages EXCEPT ![p] = "invite"])
  <2>1. PeopleTypes' /\ AccountsStay
    BY <1>1, <1>2 DEF MemberInv, MemberTypes, PeopleTypes, AccountsStay
  <2> QED
    BY <1>1, <1>2, <2>1, RowsUntouched, TypesTogether DEF MemberInv, MemberTypes, RowIds
<1>3. CASE /\ p \in sessions /\ \A j \in RowsOf(p) : memberships[j].org # memberships[i].org
           /\ memberships' = [memberships EXCEPT ![i] = Joined(@, p)]
           /\ pages' = [pages EXCEPT ![p] = "console"]
  <2> PICK row : row = Joined(memberships[i], p)
    OBVIOUS
  <2>1. /\ row \in Rows /\ row.org = memberships[i].org /\ row.role = memberships[i].role
        /\ row.user = p /\ p # Nobody /\ row.org \in organizations /\ accounts[p] # "none"
    <3>1. /\ memberships[i] \in Rows
          /\ memberships[i].org # NoOrg => memberships[i].org \in organizations
          /\ memberships[i].org # NoOrg
      BY <1>1, RowIsOfOrganization DEF Pending
    <3>2. /\ row \in Rows /\ row.org = memberships[i].org
          /\ row.role = memberships[i].role /\ row.user = p
      BY <3>1 DEF Joined, Rows
    <3>3. p # Nobody /\ accounts[p] # "none"
      BY <1>3, NullsArePlain DEF MemberInv, MemberTypes
    <3> QED
      BY <3>1, <3>2, <3>3
  <2>2. memberships' = [memberships EXCEPT ![i] = row]
    BY <1>3
  <2>3. \A j \in RowIds : memberships[j].user = row.user /\ memberships[j].org = row.org => j = i
    BY <1>3, <2>1 DEF RowsOf
  <2>4. PeopleTypes' /\ AccountsStay
    BY <1>1, <1>3 DEF MemberInv, MemberTypes, PeopleTypes, AccountsStay
  <2>5. row.org # NoOrg
    BY <2>1, NullsArePlain DEF MemberInv, MemberTypes
  <2>6. /\ memberships' \in Seq(Rows) /\ Len(memberships') <= MaxRows /\ RowsInv'
        /\ RowIds' = RowIds
    BY <1>1, <2>1, <2>2, <2>3, <2>4, <2>5, OneRowChanges
  <2> QED
    BY <1>1, <2>4, <2>6, TypesTogether DEF MemberInv, MemberTypes
<1> QED
  BY <1>2, <1>3 DEF AcceptInvitePage, accept_invite

LEMMA MembersAct ==
    ASSUME MemberInv, MembershipActs
    PROVE  MemberInv'
<1>1. ASSUME NEW p \in People, ComesAndGoes(p)
      PROVE  MemberInv'
  BY <1>1, SignUpWithEmail, VerifiesEmail, SignInWithEmail, SignInWithOAuth, SignOut, LayoutLeads,
     CompleteOnboarding, AcceptInvite DEF ComesAndGoes
<1>2. ASSUME Manages PROVE MemberInv'
  BY <1>2, InviteMember, UpdateMemberRole, RemoveMember DEF Manages
<1> QED
  BY <1>1, <1>2, InvitationExpires DEF MembershipActs

-----------------------------------------------------------------------------
(* The devices.                                                            *)

LEMMA MembersStay ==
    ASSUME MemberInv, UNCHANGED <<people, rows>>, events' \in 0 .. MaxEvents
    PROVE  MemberInv'
<1>1. /\ accounts' = accounts /\ sessions' = sessions /\ pages' = pages
      /\ organizations' = organizations /\ memberships' = memberships /\ inbox' = inbox
  BY DEF people, rows
<1>2. PeopleTypes' /\ AccountsStay
  BY <1>1, PeopleStay DEF MemberInv, MemberTypes
<1> QED
  BY <1>1, <1>2, RowsUntouched, TypesTogether DEF MemberInv, MemberTypes, RowIds

LEMMA KeysAreNumbered == KeyIds \subseteq Nat /\ NoKey \notin KeyIds
BY MaxKeysIsNat DEF KeyIds, NoKey

\* The links a person has are of keys.
LEMMA LinksAreKeys ==
    ASSUME DeviceTypes, NEW i \in 1 .. MaxRows
    PROVE  links[i] \in KeyIds \cup {NoKey}
BY DEF DeviceTypes

LEMMA DeviceIsKnown ==
    ASSUME DeviceTypes, NEW p \in Owners, NEW change \in Devices, Knows(p, change)
    PROVE  devices' \in [Owners -> Devices]
BY DEF DeviceTypes, Knows

LEMMA CommandIsGiven ==
    ASSUME DeviceTypes, NEW p \in Owners, NEW k \in KeyIds \cup {NoKey}, GivesCommand(p, k)
    PROVE  devices' \in [Owners -> Devices]
<1> PICK change : change = [devices[p] EXCEPT !.command = k, !.shell = "posix"]
  OBVIOUS
<1>1. change \in Devices
  BY DEF DeviceTypes, Devices
<1> QED
  BY <1>1, DeviceIsKnown DEF GivesCommand

\* A new key and its link.
LEMMA KeyIsMade ==
    ASSUME DeviceTypes, made < MaxKeys, made' = made + 1
    PROVE  /\ made' \in 0 .. MaxKeys /\ made' \in KeyIds
           /\ live_keys \cup {made'} \subseteq 1 .. made'
BY MaxKeysIsNat DEF DeviceTypes, KeyIds

LEMMA Enrollment ==
    ASSUME MemberInv, DeviceTypes, NEW p \in Owners, requestDeviceEnrollment(p)
    PROVE  MemberInv' /\ DeviceTypes'
<1>1. MemberInv'
  BY MembersStay DEF requestDeviceEnrollment, MemberInv, MemberTypes
<1>2. instance_ready' \in BOOLEAN
  BY DEF requestDeviceEnrollment, DeviceTypes
<1>3. PICK i \in CallerRow(p) :
        \/ /\ links[i] # NoKey /\ GivesCommand(p, links[i]) /\ UNCHANGED <<links, made, live_keys>>
        \/ /\ made < MaxKeys /\ made' = made + 1
           /\ live_keys' = live_keys \cup {made'}
           /\ links' = [links EXCEPT ![i] = made']
           /\ GivesCommand(p, made')
  BY DEF requestDeviceEnrollment
<1>4. i \in 1 .. MaxRows
  BY <1>3, RowsAreNumbered, BoundsAreNumbers DEF CallerRow, RowsOf, MemberInv, MemberTypes
<1>5. CASE links[i] # NoKey /\ GivesCommand(p, links[i]) /\ UNCHANGED <<links, made, live_keys>>
  BY <1>1, <1>2, <1>4, <1>5, LinksAreKeys, CommandIsGiven DEF DeviceTypes
<1>6. CASE /\ made < MaxKeys /\ made' = made + 1
           /\ live_keys' = live_keys \cup {made'}
           /\ links' = [links EXCEPT ![i] = made']
           /\ GivesCommand(p, made')
  <2>1. made' \in 0 .. MaxKeys /\ made' \in KeyIds /\ live_keys' \subseteq 1 .. made'
    BY <1>6, KeyIsMade
  <2>2. devices' \in [Owners -> Devices]
    BY <1>6, <2>1, CommandIsGiven
  <2> QED
    BY <1>1, <1>2, <1>6, <2>1, <2>2 DEF DeviceTypes
<1> QED
  BY <1>3, <1>5, <1>6

LEMMA Regeneration ==
    ASSUME MemberInv, DeviceTypes, NEW p \in Owners, RegenerateLink(p)
    PROVE  MemberInv' /\ DeviceTypes'
<1>1. MemberInv'
  BY MembersStay, EventIsCounted DEF RegenerateLink, MemberInv, MemberTypes
<1>2. instance_ready' \in BOOLEAN /\ made < MaxKeys
  BY DEF RegenerateLink, DeviceTypes
<1>3. PICK i \in CallerRow(p) :
        /\ made' = made + 1
        /\ live_keys' \in {live_keys \cup {made'}, (live_keys \ {links[i]}) \cup {made'}}
        /\ links' = [links EXCEPT ![i] = made']
        /\ GivesCommand(p, made')
  BY DEF RegenerateLink
<1>4. made' \in 0 .. MaxKeys /\ made' \in KeyIds /\ live_keys' \subseteq 1 .. made'
  BY <1>2, <1>3, KeyIsMade
<1>5. devices' \in [Owners -> Devices]
  BY <1>3, <1>4, CommandIsGiven
<1> QED
  BY <1>1, <1>2, <1>3, <1>4, <1>5 DEF DeviceTypes

LEMMA LinkGoes ==
    ASSUME MemberInv, DeviceTypes, NEW i \in 1 .. MaxRows, LinkExpires(i)
    PROVE  MemberInv' /\ DeviceTypes'
<1>1. MemberInv'
  BY MembersStay, EventIsCounted DEF LinkExpires, MemberInv, MemberTypes
<1> QED
  BY <1>1 DEF LinkExpires, DeviceTypes

\* The steps of a person at their device, which change nothing else.
LEMMA OnlyTheDevice ==
    ASSUME MemberInv, DeviceTypes, UNCHANGED <<people, rows, instance_ready, links, made,
    live_keys>>,
           events' \in 0 .. MaxEvents, devices' \in [Owners -> Devices]
    PROVE  MemberInv' /\ DeviceTypes'
BY MembersStay DEF DeviceTypes

LEMMA CommandIsRun ==
    ASSUME MemberInv, DeviceTypes, NEW p \in Owners, ConnectDevicePage(p) \/ FetchScript(p)
    PROVE  MemberInv' /\ DeviceTypes'
<1>1. CASE ConnectDevicePage(p)
  <2> PICK change : change = [devices[p] EXCEPT !.shell = "windows"]
    OBVIOUS
  <2>1. change \in Devices
    BY DEF DeviceTypes, Devices
  <2>2. devices' \in [Owners -> Devices]
    BY <1>1, <2>1, DeviceIsKnown DEF ConnectDevicePage
  <2> QED
    BY <1>1, <2>2, OnlyTheDevice DEF ConnectDevicePage, MemberInv, MemberTypes
<1>2. CASE FetchScript(p)
  <2> PICK change : change = [devices[p] EXCEPT !.script = devices[p].command]
    OBVIOUS
  <2>1. change \in Devices
    BY DEF DeviceTypes, Devices
  <2>2. devices' \in [Owners -> Devices]
    BY <1>2, <2>1, DeviceIsKnown DEF FetchScript
  <2> QED
    BY <1>2, <2>2, OnlyTheDevice DEF FetchScript, MemberInv, MemberTypes
<1> QED
  BY <1>1, <1>2

LEMMA ScriptEnds ==
    ASSUME NEW device \in Devices
    PROVE  /\ Up(device) \in Devices
           /\ \A advice \in {"nothing", "install", "new_terminal", "administrator"} :
                ExitsWith(device, advice) \in Devices
           /\ \A client \in {"absent", "off_path", "installed"} :
                [device EXCEPT !.client = client] \in Devices
<1>1. PICK joined \in BOOLEAN : joined = (device.script \in live_keys)
  BY (device.script \in live_keys) = TRUE \/ (device.script \in live_keys) = FALSE
<1>2. Up(device) = [device EXCEPT !.on_tailnet = joined, !.script = NoKey, !.told = "nothing"]
  BY <1>1 DEF Up
<1>3. Up(device) \in Devices
  BY <1>2 DEF Devices
<1> QED
  BY <1>3 DEF ExitsWith, Devices

LEMMA ScriptIsTyped ==
    ASSUME NEW device \in Devices
    PROVE  posixScript(device) \subseteq Devices /\ windowsScript(device) \subseteq Devices
<1>1. [device EXCEPT !.client = "off_path"] \in Devices /\ [device EXCEPT !.client = "installed"] \in Devices
  BY ScriptEnds
<1>2. /\ Up(device) \in Devices /\ Up([device EXCEPT !.client = "installed"]) \in Devices
      /\ ExitsWith(device, "install") \in Devices /\ ExitsWith(device, "administrator") \in Devices
      /\ ExitsWith([device EXCEPT !.client = "off_path"], "new_terminal") \in Devices
  BY <1>1, ScriptEnds
<1>3. \/ posixScript(device) = {Up(device)} \/ posixScript(device) = {ExitsWith(device, "install")}
      \/ posixScript(device) = {ExitsWith([device EXCEPT !.client = "off_path"], "new_terminal"),
                                Up([device EXCEPT !.client = "installed"])}
  BY DEF posixScript
<1>4. \/ windowsScript(device) = {ExitsWith(device, "administrator")}
      \/ windowsScript(device) = {Up(device)}
      \/ windowsScript(device) = {Up([device EXCEPT !.client = "installed"])}
  BY DEF windowsScript
<1> QED
  BY <1>2, <1>3, <1>4

LEMMA ScriptIsRun ==
    ASSUME MemberInv, DeviceTypes, NEW p \in Owners, enrollmentScript(p)
    PROVE  MemberInv' /\ DeviceTypes'
<1>1. devices[p] \in Devices
  BY DEF DeviceTypes
<1>2. PICK after : /\ after \in IF devices[p].shell = "windows"
                              THEN windowsScript(devices[p]) ELSE posixScript(devices[p])
                   /\ Knows(p, after)
  BY DEF enrollmentScript
<1>3. after \in Devices
  BY <1>1, <1>2, ScriptIsTyped
<1>4. devices' \in [Owners -> Devices]
  BY <1>2, <1>3, DeviceIsKnown
<1> QED
  BY <1>4, OnlyTheDevice DEF enrollmentScript, MemberInv, MemberTypes

LEMMA InstallerFails ==
    ASSUME MemberInv, DeviceTypes, NEW p \in Owners, InstallFails(p)
    PROVE  MemberInv' /\ DeviceTypes'
<1>1. ExitsWith(devices[p], "nothing") \in Devices
  BY ScriptEnds DEF DeviceTypes
<1>2. devices' \in [Owners -> Devices]
  BY <1>1, DeviceIsKnown DEF InstallFails
<1> QED
  BY <1>2, OnlyTheDevice, EventIsCounted DEF InstallFails, MemberInv, MemberTypes

LEMMA AdviceIsFollowed ==
    ASSUME MemberInv, DeviceTypes, NEW p \in Owners, FollowsAdvice(p)
    PROVE  MemberInv' /\ DeviceTypes'
<1>1. devices[p] \in Devices
  BY DEF DeviceTypes
<1>2. PICK elevated \in BOOLEAN :
        elevated = (devices[p].elevated \/ devices[p].told = "administrator")
  OBVIOUS
<1>3. PICK client \in {"absent", "off_path", "installed"} :
        client = IF devices[p].told \in {"install", "new_terminal"} THEN "installed" ELSE devices[p].client
  BY <1>1 DEF Devices
<1> PICK change : change = [devices[p] EXCEPT !.told = "nothing", !.client = client, !.elevated = elevated]
  OBVIOUS
<1>4. change \in Devices
  BY <1>1 DEF Devices
<1>5. Knows(p, change)
  BY <1>2, <1>3 DEF FollowsAdvice
<1>6. devices' \in [Owners -> Devices]
  BY <1>4, <1>5, DeviceIsKnown
<1> QED
  BY <1>6, OnlyTheDevice DEF FollowsAdvice, MemberInv, MemberTypes

LEMMA InstanceComesAndGoes ==
    ASSUME MemberInv, DeviceTypes, InstanceBusy \/ InstanceReady
    PROVE  MemberInv' /\ DeviceTypes'
<1>1. events' \in 0 .. MaxEvents
  BY EventIsCounted DEF InstanceBusy, InstanceReady, MemberInv, MemberTypes
<1>2. MemberInv'
  BY <1>1, MembersStay DEF InstanceBusy, InstanceReady
<1> QED
  BY <1>2 DEF InstanceBusy, InstanceReady, DeviceTypes

LEMMA LinksGoWithRows ==
    ASSUME MemberInv, DeviceTypes, LinksFollowRows
    PROVE  DeviceTypes'
<1>1. \A i \in 1 .. MaxRows : links[i] \in KeyIds \cup {NoKey}
  BY LinksAreKeys
<1>2. links' \in [1 .. MaxRows -> KeyIds \cup {NoKey}]
  BY <1>1 DEF LinksFollowRows
<1>3. live_keys' \subseteq live_keys
  BY DEF LinksFollowRows
<1> QED
  BY <1>2, <1>3 DEF LinksFollowRows, DeviceTypes

-----------------------------------------------------------------------------
(* The inductive step.                                                     *)

LEMMA MembersInit == Init => MemberInv /\ DeviceTypes
<1> SUFFICES ASSUME Init PROVE MemberInv /\ DeviceTypes
  OBVIOUS
<1> PICK row : row = OwnerRow(FirstOrg, Founder)
  OBVIOUS
<1>1. /\ row \in Rows /\ row.org = FirstOrg /\ row.user = Founder /\ row.role = "Owner"
      /\ Founder \in People /\ FirstOrg \in OrgIds /\ Founder # Nobody /\ FirstOrg # NoOrg
  BY FounderIsAPerson, NullsAreNone DEF OwnerRow, NoRow, Rows, Roles
<1>2. /\ memberships = <<row>> /\ organizations = {FirstOrg} /\ inbox = {} /\ events = 0
      /\ sessions = {Founder}
  BY DEF Init, MembershipInit
<1>3. PICK known \in SUBSET People :
        Founder \in known /\ accounts = [p \in People |-> IF p \in known THEN "verified" ELSE "none"]
  BY DEF Init, MembershipInit
<1>4. RowIds = {1} /\ memberships[1] = row /\ Len(memberships) = 1 /\ memberships \in Seq(Rows)
  BY <1>1, <1>2 DEF RowIds
<1>5. MemberTypes
  <2>1. pages \in [People -> {"elsewhere", "invite", "verify_email", "onboarding", "console"}]
    BY DEF Init, MembershipInit
  <2>2. /\ accounts \in [People -> {"none", "unverified", "verified"}]
        /\ sessions \subseteq {p \in People : accounts[p] = "verified"}
    BY <1>1, <1>2, <1>3
  <2>3. Len(memberships) <= MaxRows /\ events \in 0 .. MaxEvents
    BY <1>2, <1>4, BoundsAreNumbers
  <2> QED
    BY <1>1, <1>2, <1>4, <2>1, <2>2, <2>3 DEF MemberTypes
<1>6. OneOwner
  <2>1. OwnersOf(FirstOrg) = {1}
    BY <1>1, <1>4 DEF OwnersOf
  <2> QED
    BY <1>2, <2>1, FS_Singleton DEF OneOwner
<1>7. MemberOnce /\ InvitedOnce
  BY <1>4 DEF MemberOnce, InvitedOnce
<1>8. RowsOfOrganizations /\ AccountsFirst
  BY <1>1, <1>2, <1>3, <1>4 DEF RowsOfOrganizations, AccountsFirst
<1>9. DeviceTypes
  <2>1. \A platform \in Platforms : NewDevice(platform) \in Devices
    BY DEF NewDevice, Devices
  <2>2. PICK platform \in [Owners -> Platforms] : devices = [p \in Owners |-> NewDevice(platform[p])]
    BY DEF Init
  <2>3. devices \in [Owners -> Devices]
    BY <2>1, <2>2
  <2>4. links \in [1 .. MaxRows -> KeyIds \cup {NoKey}]
    BY DEF Init
  <2> QED
    BY <2>3, <2>4, MaxKeysIsNat DEF Init, DeviceTypes
<1> QED
  BY <1>5, <1>6, <1>7, <1>8, <1>9 DEF MemberInv, RowsInv

LEMMA MembersStep == MemberInv /\ DeviceTypes /\ [Next]_vars => MemberInv' /\ DeviceTypes'
<1> SUFFICES ASSUME MemberInv, DeviceTypes, [Next]_vars PROVE MemberInv' /\ DeviceTypes'
  OBVIOUS
<1>1. CASE MembershipActs /\ LinksFollowRows
  BY <1>1, MembersAct, LinksGoWithRows
<1>2. ASSUME NEW p \in Owners, requestDeviceEnrollment(p) \/ RegenerateLink(p) \/ Connects(p)
      PROVE  MemberInv' /\ DeviceTypes'
  <2>1. CASE requestDeviceEnrollment(p)
    BY <2>1, Enrollment
  <2>2. CASE RegenerateLink(p)
    BY <2>2, Regeneration
  <2>3. CASE Connects(p)
    <3>1. CASE ConnectDevicePage(p) \/ CurlScript(p) \/ IrmScript(p)
      BY <3>1, CommandIsRun DEF CurlScript, IrmScript
    <3>2. CASE enrollmentScript(p) \/ InstallFails(p) \/ FollowsAdvice(p)
      BY <3>2, ScriptIsRun, InstallerFails, AdviceIsFollowed
    <3> QED
      BY <2>3, <3>1, <3>2 DEF Connects
  <2> QED
    BY <1>2, <2>1, <2>2, <2>3
<1>3. CASE InstanceBusy \/ InstanceReady
  BY <1>3, InstanceComesAndGoes
<1>4. CASE UNCHANGED vars
  <2>1. UNCHANGED <<people, rows>> /\ events' = events /\ UNCHANGED deviceVars
    BY <1>4 DEF vars
  <2>2. MemberInv'
    BY <2>1, MembersStay DEF MemberInv, MemberTypes
  <2> QED
    BY <2>1, <2>2 DEF deviceVars, DeviceTypes
<1> QED
  BY <1>1, <1>2, <1>3, <1>4, LinkGoes DEF Next

\* Every variable has its type, whatever the order in which people are invited,
\* make an account, follow the link, are removed and come again: an
\* organization keeps its one Owner, though the policy of org_memberships lets
\* an Admin write any row and only the card spares the Owner's, and a person is
\* a member of it once, by the trigger on auth.users or by the link.
THEOREM TypeCorrect == Spec => []TypeOK
<1>1. Init => MemberInv /\ DeviceTypes
  BY MembersInit
<1>2. MemberInv /\ DeviceTypes /\ [Next]_vars => MemberInv' /\ DeviceTypes'
  BY MembersStep
<1>3. MemberInv /\ DeviceTypes => TypeOK
  BY DEF MemberInv, MemberTypes, RowsInv, OneOwner, OwnersOf, MemberOnce, DeviceTypes, TypeOK
<1> QED
  BY <1>1, <1>2, <1>3, PTL DEF Spec
=============================================================================
