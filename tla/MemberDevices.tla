---------------------------- MODULE MemberDevices ----------------------------
(***************************************************************************)
(* How a member connects a device to an instance: the console hands out a  *)
(* command with a link, the link serves a script that holds an auth key,   *)
(* and the script installs the client and joins the tailnet.  What the     *)
(* script can do depends on the platform, and where it cannot go on it     *)
(* says what the person has to do before running the command again.        *)
(*                                                                         *)
(* Simplifications, and why each is sound:                                 *)
(*  - There is one instance, of the first organization, to which all its   *)
(*    members have been granted access.                                    *)
(*  - Each person has one device.  A link serves any number of them, one   *)
(*    like the other.                                                      *)
(*  - A link is made in one step; module Tailnet has the steps of          *)
(*    enroll-device and how they overlap.  A link and its key are valid    *)
(*    for the same 90 days.                                                *)
(*  - Whether the old key is revoked is left open: revokeAuthKey's errors  *)
(*    are only logged.                                                     *)
(***************************************************************************)
EXTENDS Membership

CONSTANTS
    Owners,      \* the people with a device
    Platforms,   \* of the devices in a configuration
    MaxKeys      \* auth keys made in a behaviour

ASSUME OwnersArePeople == Owners \subseteq People
ASSUME MaxKeysIsNat == MaxKeys \in Nat

VARIABLES
    instance_ready,
    links,      \* instance_enrollment_links: by membership, the key its token serves
    made,       \* how many auth keys were made; they are numbered
    live_keys,
    devices     \* each person's device, and what they know about connecting it

deviceVars == <<instance_ready, links, made, live_keys, devices>>
vars == <<people, rows, events, deviceVars>>

-----------------------------------------------------------------------------
NoKey == 0
KeyIds == 1 .. MaxKeys

\* command: the link of the command the person has; shell: for which shell;
\* script: the key in the script that was fetched; told: its last advice.
Devices == [platform: Platforms, client: {"absent", "off_path", "installed"},
            elevated: BOOLEAN, command: KeyIds \cup {NoKey}, shell: {"posix", "windows"},
            script: KeyIds \cup {NoKey},
            told: {"nothing", "install", "new_terminal", "administrator"}, on_tailnet: BOOLEAN]

NewDevice(platform) ==
    [platform |-> platform, client |-> "absent", elevated |-> FALSE, command |-> NoKey,
     shell |-> "posix", script |-> NoKey, told |-> "nothing", on_tailnet |-> FALSE]

Init ==
    /\ MembershipInit
    /\ instance_ready = TRUE
    /\ links = [i \in 1 .. MaxRows |-> NoKey]
    /\ made = 0 /\ live_keys = {}
    /\ \E platform \in [Owners -> Platforms] :
          devices = [p \in Owners |-> NewDevice(platform[p])]

LinksOf(p) == {links[i] : i \in RowsOf(p)} \ {NoKey}
Knows(p, change) == devices' = [devices EXCEPT ![p] = change]

-----------------------------------------------------------------------------
(* The link.                                                               *)

\* enroll-device looks for `the` membership of its caller, and finds none if
\* there are two.
CallerRow(p) == {i \in RowsOf(p) : RowsOf(p) = {i} /\ memberships[i].org = FirstOrg}

\* The command is the POSIX one, whatever the device.
GivesCommand(p, k) == Knows(p, [devices[p] EXCEPT !.command = k, !.shell = "posix"])

\* A link that is there is handed out again; a person whose command works
\* has no need to ask.
requestDeviceEnrollment(p) ==
    /\ p \in sessions /\ instance_ready /\ devices[p].command \notin LinksOf(p)
    /\ \E i \in CallerRow(p) :
        \/ /\ links[i] # NoKey
           /\ GivesCommand(p, links[i])
           /\ UNCHANGED <<links, made, live_keys>>
        \/ /\ links[i] = NoKey /\ made < MaxKeys
           /\ made' = made + 1
           /\ live_keys' = live_keys \cup {made'}
           /\ links' = [links EXCEPT ![i] = made']
           /\ GivesCommand(p, made')
    /\ UNCHANGED <<people, rows, events, instance_ready>>

\* `Generate a new link and retire this one`.
RegenerateLink(p) ==
    /\ p \in sessions /\ instance_ready /\ made < MaxKeys
    /\ \E i \in CallerRow(p) :
        /\ links[i] # NoKey
        /\ made' = made + 1
        /\ live_keys' \in {live_keys \cup {made'}, (live_keys \ {links[i]}) \cup {made'}}
        /\ links' = [links EXCEPT ![i] = made']
        /\ GivesCommand(p, made')
    /\ Event
    /\ UNCHANGED <<people, rows, instance_ready>>

LinkExpires(i) ==
    /\ links[i] # NoKey
    /\ live_keys' = live_keys \ {links[i]}
    /\ links' = [links EXCEPT ![i] = NoKey]
    /\ Event
    /\ UNCHANGED <<people, rows, instance_ready, made, devices>>

\* In a browser the link leads to /connect, which shows the command of each
\* platform and fetches nothing.
ConnectDevicePage(p) ==
    /\ \E i \in 1 .. MaxRows : links[i] = devices[p].command
    /\ devices[p].command # NoKey /\ devices[p].platform = "windows"
    /\ devices[p].shell = "posix"
    /\ Knows(p, [devices[p] EXCEPT !.shell = "windows"])
    /\ UNCHANGED <<people, rows, events, instance_ready, links, made, live_keys>>

\* redeem_instance_enrollment_token: the link as it is now, of a ready instance.
Redeems(k) == instance_ready /\ \E i \in 1 .. MaxRows : links[i] = k

\* A refusal is no script: nothing runs.
FetchScript(p) ==
    /\ devices[p].command # NoKey /\ devices[p].script = NoKey /\ ~devices[p].on_tailnet
    /\ Redeems(devices[p].command)
    /\ Knows(p, [devices[p] EXCEPT !.script = devices[p].command])
    /\ UNCHANGED <<people, rows, events, instance_ready, links, made, live_keys>>

\* curl, piped into sh.
CurlScript(p) ==
    devices[p].shell = "posix" /\ devices[p].platform # "windows" /\ FetchScript(p)

\* irm, piped into iex, of an address of its own.
IrmScript(p) == devices[p].shell = "windows" /\ FetchScript(p)

-----------------------------------------------------------------------------
(* The script.                                                             *)

\* A script that cannot go on ends with what to do.
ExitsWith(device, advice) == [device EXCEPT !.told = advice, !.script = NoKey]

\* `tailscale up`: refused with a key that was revoked since.
Up(device) == [device EXCEPT !.on_tailnet = device.script \in live_keys, !.script = NoKey,
                             !.told = "nothing"]

posixScript_installs(device) ==
    CASE device.client = "installed" -> {Up(device)}
      [] device.platform = "macos" -> {ExitsWith(device, "nothing")}
      [] OTHER -> {ExitsWith([device EXCEPT !.client = "off_path"], "new_terminal"),
                   Up([device EXCEPT !.client = "installed"])}

\* On a Mac the vendor's installer only opens the App Store.  Elsewhere it
\* installs, and the client may still not be on this terminal's PATH.
posixScript(device) ==
    CASE device.client = "installed" -> {Up(device)}
      [] device.platform = "macos" -> {ExitsWith(device, "install")}
      [] OTHER -> {ExitsWith([device EXCEPT !.client = "off_path"], "new_terminal"),
                   Up([device EXCEPT !.client = "installed"])}

windowsScript(device) ==
    CASE ~device.elevated -> {ExitsWith(device, "administrator")}
      [] device.client = "installed" -> {Up(device)}
      [] OTHER -> {Up([device EXCEPT !.client = "installed"])}

\* The key may be revoked between the fetch and this.
enrollmentScript(p) ==
    /\ devices[p].script # NoKey
    /\ \E after \in IF devices[p].shell = "windows"
                    THEN windowsScript(devices[p]) ELSE posixScript(devices[p]) :
            Knows(p, after)
    /\ UNCHANGED <<people, rows, events, instance_ready, links, made, live_keys>>

\* The vendor's installer fails, and with it the script: the shell stops with it,
\* PowerShell at the client it does not find afterwards.
InstallFails(p) ==
    /\ devices[p].script # NoKey /\ devices[p].client # "installed"
    /\ devices[p].platform = "linux" \/ (devices[p].platform = "windows" /\ devices[p].elevated)
    /\ Knows(p, ExitsWith(devices[p], "nothing"))
    /\ Event
    /\ UNCHANGED <<people, rows, instance_ready, links, made, live_keys>>

\* The person does what the script said, and nothing it did not say.
FollowsAdvice(p) ==
    /\ devices[p].told # "nothing"
    /\ Knows(p, [devices[p] EXCEPT
            !.told = "nothing",
            !.client = IF devices[p].told \in {"install", "new_terminal"} THEN "installed" ELSE @,
            !.elevated = @ \/ devices[p].told = "administrator"])
    /\ UNCHANGED <<people, rows, events, instance_ready, links, made, live_keys>>

-----------------------------------------------------------------------------
\* Another operation has the instance for a while.
InstanceBusy ==
    /\ instance_ready
    /\ instance_ready' = FALSE
    /\ Event
    /\ UNCHANGED <<people, rows, links, made, live_keys, devices>>

InstanceReady ==
    /\ ~instance_ready
    /\ instance_ready' = TRUE
    /\ UNCHANGED <<people, rows, events, links, made, live_keys, devices>>

\* The links of a membership go with it; enroll-device has tried to revoke
\* their keys before.
LinksFollowRows ==
    /\ links' = [i \in 1 .. MaxRows |->
            IF i \in RowIds /\ memberships'[i].org = NoOrg THEN NoKey ELSE links[i]]
    /\ live_keys' \in {live_keys, live_keys \ {links[i] : i \in {j \in 1 .. MaxRows : links'[j] # links[j]}}}
    /\ UNCHANGED <<instance_ready, made, devices>>

Connects(p) ==
    \/ ConnectDevicePage(p) \/ CurlScript(p) \/ IrmScript(p)
    \/ enrollmentScript(p) \/ InstallFails(p) \/ FollowsAdvice(p)

Next ==
    \/ MembershipActs /\ LinksFollowRows
    \/ \E p \in Owners : requestDeviceEnrollment(p) \/ RegenerateLink(p) \/ Connects(p)
    \/ \E i \in 1 .. MaxRows : LinkExpires(i)
    \/ InstanceBusy \/ InstanceReady

\* An invited person follows the invitation and opens its link again once
\* signed in; one who was given a command runs it, does what it says and runs
\* it again.  An operation on the instance ends.
Fairness ==
    /\ \A p \in People :
        /\ WF_vars((\E i \in RowIds : AcceptInvitePage(p, i)) /\ UNCHANGED deviceVars)
        /\ WF_vars(pages[p] = "invite" /\ (signUpWithEmail(p) \/ signInWithOAuth(p)) /\ UNCHANGED deviceVars)
        /\ WF_vars((VerifyEmail(p) \/ signInWithEmail(p)) /\ UNCHANGED deviceVars)
    /\ \A p \in Owners :
        /\ WF_vars(ConnectDevicePage(p))
        /\ WF_vars(CurlScript(p) \/ IrmScript(p) \/ enrollmentScript(p))
        /\ WF_vars(FollowsAdvice(p))
    /\ WF_vars(InstanceReady)

Spec == Init /\ [][Next]_vars /\ Fairness

-----------------------------------------------------------------------------
(* Properties.                                                             *)

\* Every variable has its type; an organization keeps its one Owner, which no
\* policy of the table sees to, and a person is a member of it once.
TypeOK ==
    /\ accounts \in [People -> {"none", "unverified", "verified"}]
    /\ sessions \subseteq {p \in People : accounts[p] = "verified"}
    /\ pages \in [People -> {"elsewhere", "invite", "verify_email", "onboarding", "console"}]
    /\ organizations \subseteq OrgIds
    /\ memberships \in Seq(Rows) /\ Len(memberships) <= MaxRows
    /\ inbox \subseteq RowIds
    /\ events \in 0 .. MaxEvents
    /\ instance_ready \in BOOLEAN
    /\ links \in [1 .. MaxRows -> KeyIds \cup {NoKey}]
    /\ live_keys \subseteq 1 .. made /\ made \in 0 .. MaxKeys
    /\ devices \in [Owners -> Devices]
    /\ \A o \in organizations :
            Cardinality({i \in RowIds : memberships[i].org = o /\ memberships[i].role = "Owner"}) = 1
    /\ \A i, j \in RowIds :
            memberships[i].org = memberships[j].org /\ memberships[i].user = memberships[j].user
            /\ memberships[i].user # Nobody => i = j

\* Withdrawn, or 7 days old.
Void(i) == i \in RowIds /\ (memberships[i].org = NoOrg \/ memberships[i].token = "expired")

\* A person whose invitation has arrived ends up in the console of the
\* organization that invited them, whether they had an account, made one or
\* were interrupted in between, and whatever else they were invited to or
\* created meanwhile, unless it is withdrawn or expires first (the two paths:
\* app/(auth)/accept-invite/[token]/page.tsx:37-39).
InviteeGetsIn ==
    \A i \in 1 .. MaxRows, p \in People, o \in OrgIds :
        (/\ i \in inbox /\ InviteFound(i)
         /\ memberships[i].invited_email = p /\ memberships[i].org = o)
        ~> (pages[p] = "console" /\ getCurrentUserOrg(p) = o) \/ Void(i)

\* A person with the command of a link connects their device, whatever the
\* platform and whatever was installed, unless the link goes first: each exit
\* of the script says what makes the next run go further
\* (lib/enrollment-scripts.ts:21-35).
DeviceConnects ==
    \A p \in Owners, k \in KeyIds :
        (devices[p].command = k /\ k \in LinksOf(p)) ~> (devices[p].on_tailnet \/ k \notin LinksOf(p))

=============================================================================
