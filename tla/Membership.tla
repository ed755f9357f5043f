----------------------------- MODULE Membership -----------------------------
(***************************************************************************)
(* How people come into an organization.  A membership is a row that is    *)
(* pending while it names an invited email, and a member's once it names a *)
(* user.  An invited person without an account is linked to it when the    *)
(* account is created, by a trigger on auth.users; one who has an account  *)
(* has to open the emailed link while signed in.  A person who signs in    *)
(* without a membership is asked to create an organization.                *)
(*                                                                         *)
(* Simplifications, and why each is sound:                                 *)
(*  - A person is their email address.  A link opened with another account *)
(*    changes nothing.                                                     *)
(*  - Member stands for the roles Developer, Billing and Read-only, none of *)
(*    which may change a membership.  An action its actor may not perform  *)
(*    changes no row, and is left out; so is the audit log, which no code  *)
(*    reads back.                                                          *)
(*  - The projects of an organization are left out: nothing here depends   *)
(*    on them.                                                             *)
(*  - Removing a member is one step here; module Tailnet has its steps.    *)
(*                                                                         *)
(* getCurrentUserOrg takes `the first (only, in Phase 1)` membership of a  *)
(* person.  "second_organization" in Faults lets someone who belongs to    *)
(* one organization be invited to another.                                 *)
(***************************************************************************)
EXTENDS Integers, Sequences, FiniteSetsExt

CONSTANTS
    People,
    Founder,      \* has completed onboarding, and owns the first organization
    OrgIds, FirstOrg,
    MaxRows,      \* memberships made in a behaviour
    MaxEvents,    \* invitations, changes, failures and expiries in one
    Faults,
    Nobody, NoOrg

ASSUME FounderIsAPerson == Founder \in People /\ FirstOrg \in OrgIds
ASSUME BoundsAreNumbers == MaxRows \in Nat \ {0} /\ MaxEvents \in Nat
ASSUME NullsAreNone == Nobody \notin People /\ NoOrg \notin OrgIds

VARIABLES
    accounts,       \* auth.users
    sessions,       \* who is signed in
    pages,          \* the page of this flow each person has in front of them
    organizations,
    memberships,    \* in the order of created_at
    inbox,          \* memberships whose invitation has reached its person
    events

people == <<accounts, sessions, pages>>
rows == <<organizations, memberships, inbox>>

-----------------------------------------------------------------------------
Roles == {"Owner", "Admin", "Member"}

NoRow == [org |-> NoOrg, user |-> Nobody, invited_email |-> Nobody, role |-> "Member",
          token |-> "none"]

Rows == [org: OrgIds \cup {NoOrg}, user: People \cup {Nobody},
         invited_email: People \cup {Nobody}, role: Roles, token: {"none", "live", "expired"}]

OwnerRow(o, p) == [NoRow EXCEPT !.org = o, !.user = p, !.role = "Owner"]

RowIds == DOMAIN memberships

\* user_id is null.
Pending(i) == memberships[i].org # NoOrg /\ memberships[i].user = Nobody

RowsOf(p) == {i \in RowIds : memberships[i].user = p}

\* The organization of the oldest membership.
getCurrentUserOrg(p) ==
    IF RowsOf(p) = {} THEN NoOrg ELSE memberships[Min(RowsOf(p))].org

\* has_org_role(o, array['Owner', 'Admin']): the policy on every write.
has_org_role(o, p) ==
    \E i \in RowsOf(p) : memberships[i].org = o /\ memberships[i].role \in {"Owner", "Admin"}

\* Where /console leads.
Landing(p) == IF getCurrentUserOrg(p)' = NoOrg THEN "onboarding" ELSE "console"

\* Some have an account from earlier.
MembershipInit ==
    /\ \E known \in SUBSET People :
          /\ Founder \in known
          /\ accounts = [p \in People |-> IF p \in known THEN "verified" ELSE "none"]
    /\ sessions = {Founder}
    /\ pages = [p \in People |-> IF p = Founder THEN "console" ELSE "elsewhere"]
    /\ organizations = {FirstOrg}
    /\ memberships = <<OwnerRow(FirstOrg, Founder)>>
    /\ inbox = {}
    /\ events = 0

Event == events < MaxEvents /\ events' = events + 1

-----------------------------------------------------------------------------
(* The team card of the settings page.                                     *)

\* send-invite-email: that the mail is not sent is only logged.
InviteEmail(i) == inbox' \in {inbox, inbox \cup {i}}

\* An email is invited once at a time.
inviteMember(a, p, role) ==
    LET o == getCurrentUserOrg(a) IN
    /\ a \in sessions /\ o # NoOrg /\ has_org_role(o, a)
    /\ Len(memberships) < MaxRows
    /\ \A i \in RowIds : ~(Pending(i) /\ memberships[i].org = o /\ memberships[i].invited_email = p)
    /\ getCurrentUserOrg(p) \in {NoOrg, o} \/ "second_organization" \in Faults
    /\ memberships' = Append(memberships,
            [NoRow EXCEPT !.org = o, !.invited_email = p, !.role = role, !.token = "live"])
    /\ InviteEmail(Len(memberships) + 1)
    /\ Event
    /\ UNCHANGED <<people, organizations>>

Manageable_any(a, i) ==
    /\ a \in sessions /\ getCurrentUserOrg(a) # NoOrg
    /\ memberships[i].org # NoOrg
    /\ has_org_role(memberships[i].org, a)

\* The card offers nothing for an Owner; the policy does not tell them apart.
Manageable(a, i) ==
    /\ a \in sessions /\ getCurrentUserOrg(a) # NoOrg
    /\ memberships[i].org # NoOrg
    /\ memberships[i].role # "Owner"
    /\ has_org_role(memberships[i].org, a)

updateMemberRole(a, i, role) ==
    /\ Manageable(a, i)
    /\ memberships[i].role # role
    /\ memberships' = [memberships EXCEPT ![i].role = role]
    /\ Event
    /\ UNCHANGED <<people, organizations, inbox>>

\* A pending row is an invitation, which is withdrawn the same way.
removeMember(a, i) ==
    /\ Manageable(a, i)
    /\ memberships' = [memberships EXCEPT ![i] = NoRow]
    /\ Event
    /\ UNCHANGED <<people, organizations, inbox>>

\* After 7 days.
InviteExpires(i) ==
    /\ Pending(i) /\ memberships[i].token = "live"
    /\ memberships' = [memberships EXCEPT ![i].token = "expired"]
    /\ Event
    /\ UNCHANGED <<people, organizations, inbox>>

-----------------------------------------------------------------------------
(* Accounts.                                                               *)

Joined(row, p) == [row EXCEPT !.user = p, !.invited_email = Nobody, !.token = "none"]

\* The trigger: every invitation of a new user, whether it has expired or not.
link_pending_invites(p) ==
    memberships' = [i \in RowIds |->
        IF Pending(i) /\ memberships[i].invited_email = p
        THEN Joined(memberships[i], p) ELSE memberships[i]]

\* From the sign-up page or the form of an invitation.  For an address that
\* has an account Supabase answers the same and creates nothing.
signUpWithEmail(p) ==
    /\ p \notin sessions /\ pages[p] # "verify_email"
    /\ IF accounts[p] = "none"
       THEN /\ accounts' = [accounts EXCEPT ![p] = "unverified"]
            /\ link_pending_invites(p)
       ELSE UNCHANGED <<accounts, memberships>>
    /\ pages' = [pages EXCEPT ![p] = "verify_email"]
    /\ UNCHANGED <<sessions, organizations, inbox, events>>

SignedIn(p) ==
    /\ sessions' = sessions \cup {p}
    /\ pages' = [pages EXCEPT ![p] = Landing(p)]

\* The link in the verification mail leads to /callback.
VerifyEmail(p) ==
    /\ accounts[p] = "unverified"
    /\ accounts' = [accounts EXCEPT ![p] = "verified"]
    /\ UNCHANGED <<rows, events>>
    /\ SignedIn(p)

signInWithEmail(p) ==
    /\ accounts[p] = "verified" /\ p \notin sessions
    /\ UNCHANGED <<accounts, rows, events>>
    /\ SignedIn(p)

\* The first time it creates the account, with a verified address.
signInWithOAuth(p) ==
    /\ p \notin sessions
    /\ accounts' = [accounts EXCEPT ![p] = "verified"]
    /\ IF accounts[p] = "none" THEN link_pending_invites(p) ELSE UNCHANGED memberships
    /\ SignedIn(p)
    /\ UNCHANGED <<organizations, inbox, events>>

signOut(p) ==
    /\ p \in sessions
    /\ sessions' = sessions \ {p}
    /\ pages' = [pages EXCEPT ![p] = "elsewhere"]
    /\ Event
    /\ UNCHANGED <<accounts, rows>>

\* Any page of the console sends a person without a membership to onboarding.
ConsoleLayout(p) ==
    /\ p \in sessions /\ pages[p] \in {"console", "onboarding"}
    /\ UNCHANGED <<accounts, sessions, rows, events>>
    /\ pages' = [pages EXCEPT ![p] = Landing(p)]

\* The organization and, by a trigger, its Owner.
completeOnboarding(p, o) ==
    /\ p \in sessions /\ pages[p] = "onboarding"
    /\ o \notin organizations /\ Len(memberships) < MaxRows
    /\ organizations' = organizations \cup {o}
    /\ memberships' = Append(memberships, OwnerRow(o, p))
    /\ pages' = [pages EXCEPT ![p] = "console"]
    /\ Event
    /\ UNCHANGED <<accounts, sessions, inbox>>

-----------------------------------------------------------------------------
(* The link of an invitation.                                              *)

\* get_invite_by_token finds nothing once the row is taken or the token has
\* expired.
InviteFound(i) == Pending(i) /\ memberships[i].token = "live"

\* A person is a member of an organization once: the table refuses a second.
accept_invite(p, i) ==
    IF \E j \in RowsOf(p) : memberships[j].org = memberships[i].org
    THEN UNCHANGED <<memberships, pages>>
    ELSE /\ memberships' = [memberships EXCEPT ![i] = Joined(@, p)]
         /\ pages' = [pages EXCEPT ![p] = "console"]

AcceptInvitePage_signed_out(p, i) ==
    /\ i \in inbox /\ InviteFound(i) /\ memberships[i].invited_email = p
    /\ p \notin sessions /\ pages[p] # "invite"
    /\ pages' = [pages EXCEPT ![p] = "invite"]
    /\ UNCHANGED <<accounts, sessions, rows, events>>

\* Signed in, the page itself accepts; otherwise it shows the form to create
\* the account, and a link to sign in.
AcceptInvitePage(p, i) ==
    /\ i \in inbox /\ InviteFound(i) /\ memberships[i].invited_email = p
    /\ \/ p \in sessions /\ accept_invite(p, i)
       \/ /\ p \notin sessions /\ pages[p] # "invite"
          /\ pages' = [pages EXCEPT ![p] = "invite"]
          /\ UNCHANGED memberships
    /\ UNCHANGED <<accounts, sessions, organizations, inbox, events>>

-----------------------------------------------------------------------------
Manages ==
    \E a \in People :
        \/ \E p \in People, role \in {"Admin", "Member"} : inviteMember(a, p, role)
        \/ \E i \in RowIds :
              removeMember(a, i) \/ \E role \in {"Admin", "Member"} : updateMemberRole(a, i, role)

ComesAndGoes(p) ==
    \/ signUpWithEmail(p) \/ VerifyEmail(p) \/ signInWithEmail(p) \/ signInWithOAuth(p)
    \/ signOut(p) \/ ConsoleLayout(p)
    \/ \E o \in OrgIds : completeOnboarding(p, o)
    \/ \E i \in RowIds : AcceptInvitePage(p, i)

MembershipActs ==
    \/ Manages
    \/ \E p \in People : ComesAndGoes(p)
    \/ \E i \in RowIds : InviteExpires(i)

=============================================================================
