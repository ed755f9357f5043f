------------------------------ MODULE Console ------------------------------
(***************************************************************************)
(* The customer's browser beside GuestSetup: the form that creates an      *)
(* instance, and the instance's page, with its progress (which polls), its *)
(* actions and its password.  The page is rendered by the server and then  *)
(* lives on its own: what it shows is a copy, which late answers overwrite *)
(* and a refresh renews.                                                   *)
(*                                                                         *)
(* Simplifications, and why each is sound:                                 *)
(*  - One customer, one form and one page; other tabs do nothing.          *)
(*  - What the page shows is the instance's state and the operation's      *)
(*    number and state: stages and clocks come with the same answers.      *)
(*  - An answer that is lost and ignored is a poll that was not made.     *)
(*  - A button is a request; the modal around it has no state that         *)
(*    outlives it.                                                         *)
(*                                                                         *)
(* Faults names, beside GuestSetup's:                                      *)
(*   torn_read    the operation ends between the two reads of a render     *)
(*   acts_again   the customer asks for an operation on a page that has    *)
(*                already refreshed itself at the end of another, or whose *)
(*                poll of another is not answered yet                      *)
(*   reveal_lost  the answer that carries the password is lost             *)
(***************************************************************************)
EXTENDS GuestSetup

CONSTANTS
    MaxSubmits,  \* times the form is submitted
    MaxPolls     \* polls of the page under way at a time

ASSUME ConsoleBounds == MaxSubmits \in Nat /\ MaxPolls \in Nat

VARIABLES
    form,      \* CreateInstanceWizard
    accepted,  \* idempotency keys the control plane has made an instance for
    page,      \* InstanceDetailPage, as the browser shows it
    polls      \* answers on their way to OperationProgress

pageVars == <<form, accepted, page, polls>>
vars == <<guestVars, pageVars>>

-----------------------------------------------------------------------------
Terminal == {"succeeded", "failed"}

(* What an answer or a render says of the operation. *)
Shown(o) == [id |-> o.id, state |-> o.state]

NoPage ==
    [open |-> FALSE, rendering |-> FALSE, state |-> "none",
     operation |-> Shown(NoOperation), refreshed |-> FALSE, fired |-> FALSE, password |-> 0]

FormLeft == [at |-> "left", submits |-> 0, password |-> FALSE]

ConsoleInit ==
    /\ Init
    /\ form = [at |-> "open", submits |-> 0, password |-> FALSE]
    /\ accepted = {}
    /\ page = NoPage
    /\ polls = {}

-----------------------------------------------------------------------------
(* The form.  Its key is made when it is rendered: every submit carries it. *)
IdempotencyKey_per_submit == form.submits
IdempotencyKey == 1

(* Without a key registered the password is the only way in: the form ticks *)
(* it and the server action refuses a request without either.              *)
Submit ==
    /\ form.at = "open" /\ form.submits < MaxSubmits
    /\ \E password \in BOOLEAN :
          /\ password \/ ssh_keys # {}
          /\ form' = [at |-> "sent", submits |-> form.submits + 1, password |-> password]
    /\ UNCHANGED <<guestVars, accepted, page, polls>>

(* request_instance_create: a key that is known is answered with what it    *)
(* made.                                                                   *)
Accept ==
    /\ form.at = "sent"
    /\ accepted' = accepted \cup {IdempotencyKey}
    /\ form' = [form EXCEPT !.at = "answered"]
    /\ IF accepted = {}
       THEN /\ request_instance_create(form.password)
            /\ UNCHANGED <<ssh_keys, console, vault, snippet, worker, tries, events>>
       ELSE UNCHANGED guestVars
    /\ UNCHANGED <<page, polls>>

(* The answer redirects to the instance's page. *)
Redirect ==
    /\ form.at = "answered"
    /\ form' = FormLeft
    /\ page' = [NoPage EXCEPT !.open = TRUE, !.rendering = TRUE]
    /\ UNCHANGED <<guestVars, accepted, polls>>

(* The request or its answer is lost: the form shows an error.             *)
SubmitFails ==
    /\ form.at \in {"sent", "answered"}
    /\ form' = [form EXCEPT !.at = "open"]
    /\ UNCHANGED <<guestVars, accepted, page, polls>>

(* It has tried enough, or sees the instance in the list, and opens it.    *)
OpenPage ==
    /\ ~page.open /\ form.at = "open" /\ instance.state \notin {"none", "gone"}
    /\ form' = FormLeft
    /\ page' = [NoPage EXCEPT !.open = TRUE, !.rendering = TRUE]
    /\ UNCHANGED <<guestVars, accepted, polls>>

-----------------------------------------------------------------------------
(* A render reads the instance and then its latest operation.  The page     *)
(* keeps its state when it is rendered again (OperationProgress takes the   *)
(* operation over), and loses it when it is reloaded.                      *)
StatesRead ==
    {instance.state} \cup
    IF "torn_read" \in Faults /\ operation.state \in Terminal /\ operation.kind \in Kinds
    THEN {"busy"} ELSE {}

Render ==
    /\ page.rendering
    /\ IF instance.state = "gone" THEN page' = NoPage
       ELSE \E state \in StatesRead :
               page' = [page EXCEPT !.rendering = FALSE, !.state = state,
                                    !.operation = Shown(operation)]
    /\ polls' = IF instance.state = "gone" THEN {} ELSE polls
    /\ UNCHANGED <<guestVars, form, accepted>>

Reload ==
    /\ page.open /\ ~page.rendering
    /\ page' = [NoPage EXCEPT !.open = TRUE, !.rendering = TRUE]
    /\ polls' = {}
    /\ Event
    /\ UNCHANGED <<ssh_keys, console, instance, vault, operation, guest, snippet, worker, tries,
                   form, accepted>>

(* The route reads the operation whose number the page shows.              *)
OperationIs(id) ==
    IF id = operation.id THEN Shown(operation)
    ELSE [id |-> id, state |-> operation.ends[id]]

(* OperationProgress polls every three seconds while the operation it shows *)
(* is not at its end, whether the last poll was answered or not.           *)
Poll_until_refreshed ==
    /\ page.open /\ ~page.rendering
    /\ page.operation.state \notin Terminal /\ ~page.refreshed
    /\ Cardinality(polls) < MaxPolls
    /\ instance.state # "gone"
    /\ polls' = polls \cup {OperationIs(page.operation.id)}
    /\ UNCHANGED <<guestVars, form, accepted, page>>

Poll ==
    /\ page.open /\ ~page.rendering
    /\ page.operation.state \notin Terminal
    /\ Cardinality(polls) < MaxPolls
    /\ instance.state # "gone"    \* its operations are gone too, and a 404 is ignored
    /\ polls' = polls \cup {OperationIs(page.operation.id)}
    /\ UNCHANGED <<guestVars, form, accepted, page>>

(* Answers arrive in any order.  The first that is at the end refreshes.   *)
PollAnswered ==
    \E answer \in polls :
        /\ polls' = polls \ {answer}
        /\ page' = [page EXCEPT
               !.operation = answer,
               !.refreshed = @ \/ answer.state \in Terminal,
               !.rendering = @ \/ (answer.state \in Terminal /\ ~page.refreshed)]
        /\ UNCHANGED <<guestVars, form, accepted>>

(* DeletionProgress polls until the instance is not found.                 *)
DeletionPoll ==
    /\ page.open /\ page.state = "deleting" /\ instance.state = "gone"
    /\ page' = NoPage
    /\ polls' = {}
    /\ UNCHANGED <<guestVars, form, accepted>>

-----------------------------------------------------------------------------
(* The actions of the page, which InstanceActions shows while the page does *)
(* not say `deleting'.  A server action that is accepted revalidates the    *)
(* page it was sent from.                                                  *)
MayAct ==
    /\ page.open /\ ~page.rendering /\ page.state # "deleting"
    /\ (~page.refreshed /\ polls = {}) \/ "acts_again" \in Faults
    /\ page' = [page EXCEPT !.rendering = TRUE]

resizeOrSnapshot ==
    /\ MayAct
    /\ \E kind \in Kinds : request_instance_operation(kind)
    /\ UNCHANGED <<ssh_keys, console, vault, snippet, worker, tries, events, form, accepted,
                   polls>>

deleteInstance ==
    /\ MayAct
    /\ request_instance_deletion
    /\ UNCHANGED <<ssh_keys, console, vault, snippet, worker, tries, events, form, accepted,
                   polls>>

(* RevealPasswordButton: fires once, and again only after an error.        *)
revealInstancePassword ==
    /\ page.open /\ page.state = "ready" /\ instance.password /\ ~page.fired
    /\ instance.state \notin {"none", "gone"}
    /\ vault' = 0
    /\ \E lost \in MayHappen("reveal_lost") :
          page' = IF lost THEN page ELSE [page EXCEPT !.fired = TRUE, !.password = vault]
    /\ UNCHANGED <<ssh_keys, console, instance, operation, guest, snippet, worker, tries, events,
                   form, accepted, polls>>

(* SshKeysCard and AddSshKeyModal. *)
KeysChange ==
    /\ mark_org_instances_ssh_dirty \/ \E k \in KeyIds : addSshKey(k) \/ removeSshKey(k)
    /\ UNCHANGED <<vault, operation, guest, snippet, worker, tries, pageVars>>

-----------------------------------------------------------------------------
Browses ==
    \/ Redirect \/ Render \/ Poll \/ PollAnswered \/ DeletionPoll

Acts ==
    \/ Submit \/ Accept \/ SubmitFails \/ OpenPage \/ Reload
    \/ resizeOrSnapshot \/ deleteInstance \/ revealInstancePassword \/ KeysChange

Runs == (Works \/ SyncFails \/ Killed \/ Environment) /\ UNCHANGED pageVars

Rests == UNCHANGED vars

Next == Browses \/ Acts \/ Runs \/ Rests

(* A worker that is not killed goes on with what it has begun (giving up a  *)
(* wait is not promised: only the clock decides that); the browser's timer  *)
(* polls and its requests are answered; the server action marks.           *)
Fairness ==
    /\ WF_vars(SetsUp /\ UNCHANGED <<ssh_keys, console, events, pageVars>>)
    /\ WF_vars(Syncs /\ UNCHANGED <<ssh_keys, console, events, pageVars>>)
    /\ WF_vars(SyncFails /\ ~guest.running /\ UNCHANGED pageVars)
    /\ WF_vars(Environment /\ UNCHANGED pageVars)
    /\ WF_vars(KeysChange /\ console = "mark")
    /\ WF_vars(Render)
    /\ WF_vars(Poll)
    /\ WF_vars(PollAnswered)
    /\ WF_vars(DeletionPoll)

Spec == ConsoleInit /\ [][Next]_vars /\ Fairness

-----------------------------------------------------------------------------
(* Every variable has its type; at most one installation runs in the guest *)
(* at a time, however often its stage is taken up again; and a form makes   *)
(* one instance, however often it is submitted and whatever becomes of its  *)
(* answers.                                                                *)
TypeOK ==
    /\ ssh_keys \subseteq KeyIds /\ console \in {"idle", "mark"}
    /\ instance.state \in InstanceStates
    /\ {vault, tries, guest.password, guest.cipassword, page.password} \subseteq Passwords
    /\ operation.id \in 0 .. MaxOperations /\ operation.stage \in Stages
    /\ guest.block \cup guest.image_keys \cup guest.cikeys \cup worker.listed \subseteq KeyIds
    /\ guest.installs \in 0 .. 1
    /\ worker.at \in ProgramPoints
    /\ page.state \in InstanceStates /\ page.operation.id \in 0 .. MaxOperations
    /\ Cardinality(polls) <= MaxPolls
    /\ form.submits \in 0 .. MaxSubmits /\ events \in 0 .. MaxEvents
    /\ Cardinality(accepted) <= 1

(* A guest's configuration never names a snippet that is not there: Proxmox *)
(* would not start it again, and nobody would know until it is stopped     *)
(* (detachVendorSnippet's comment, index.js:594).                          *)
VmStartable == guest.exists /\ guest.vendor => snippet

(* What a create leaves behind can be found.  The snippet holds the tailnet *)
(* key: it is there only for a create under way, or where a roll-back or a *)
(* teardown threw before it came to the file, and then the row still names *)
(* the guest by whose number the next teardown finds the file.  No         *)
(* instance in use has one, and none that is gone has a guest or a snippet *)
(* (rollBackFailedCreate, index.js:1453).                                  *)
LeftoversFindable ==
    /\ guest.exists => instance.vmid /\ instance.state # "gone"
    /\ snippet =>
          /\ instance.vmid
          /\ instance.state \in {"provisioning", "failed", "deleting", "delete_failed"}

(* The one-time password the page reveals is the guest's: the one stored by *)
(* the last attempt at the stage and the one the guest was given by the    *)
(* attempt that booted it are the same.                                    *)
RevealedPasswordWorks ==
    page.password # 0 /\ guest.exists => guest.password = page.password

(* A resize that has succeeded runs: the guest was booted again with the    *)
(* configuration it was given, though a restart whose task outran its wait *)
(* is not a failure and a running guest may be one that never went down.   *)
ResizeTakesEffect ==
    operation.kind = "resize" /\ operation.state = "succeeded" => guest.running /\ guest.applied

(* The page catches up: what it shows of the instance and of its operation *)
(* is in the end what they are, though answers arrive out of order and the *)
(* page stops asking at the first end it sees.                             *)
PageCatchesUp ==
    <>[](page.open => page.state = instance.state /\ page.operation = Shown(operation))

(* When keys no longer change, a ready guest that runs accepts every key    *)
(* registered, and its managed block holds no key that was removed.        *)
KeysSettle ==
    <>[](instance.state = "ready" /\ guest.running =>
            /\ ssh_keys \subseteq guest.image_keys \cup guest.block
            /\ guest.block \subseteq ssh_keys)

(* A removed key stops working on a ready guest that runs.                 *)
RemovedKeyStopsWorking ==
    <>[](instance.state = "ready" /\ guest.running =>
            guest.image_keys \cup guest.block \subseteq ssh_keys)
=============================================================================
