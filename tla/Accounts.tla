------------------------------- MODULE Accounts -------------------------------
(***************************************************************************)
(* The accounts of an organization: a login in the Cognito user pool and a *)
(* profile in USERS.  Neither store knows of the other, and a request      *)
(* changes them one after the other: creating an account invites the login *)
(* and stores the profile, or deletes the login again; disabling stores    *)
(* the deny first and disables the login next; enabling does the opposite. *)
(* Any of the steps may fail, and a request may die between two.           *)
(*                                                                         *)
(* Cognito is external: it issues a sub with every login, which is also    *)
(* its username, and has one login of an e-mail.  A token outlives the     *)
(* login it was given to.                                                  *)
(*                                                                         *)
(* A profile's write is conditioned on the version that was read and on    *)
(* the organization being as it was read for it, and is one step here.     *)
(***************************************************************************)
EXTENDS Naturals, FiniteSets

CONSTANTS
  Admins, Supervisors,  \* e-mails, by the role they are invited for
  Subs,                 \* what Cognito identifies logins by
  Invocations,          \* Lambda invocations
  MaxVersion            \* bound: writes of a profile

Emails == Admins \cup Supervisors

ASSUME AccountsAssumption == Admins \cap Supervisors = {} /\ MaxVersion \in Nat

VARIABLES
  login,    \* the user pool
  profile,  \* USER# items; version is absent at first, here 0
  org,      \* status of the organization
  job,      \* what each invocation does
  lost      \* the profiles whose creation was not answered

vars == << login, profile, org, job, lost >>

-----------------------------------------------------------------------------
Logins == [state: {"unused", "exists", "deleted"}, email: SUBSET Emails,
           group: BOOLEAN, enabled: BOOLEAN]
NoLogin == [state |-> "unused", email |-> {}, group |-> FALSE, enabled |-> FALSE]

Profiles == [status: {"none", "Active", "Disabled"}, version: Nat]
NoProfile == [status |-> "none", version |-> 0]

Idle == [op |-> "idle"]
Do(i, j) == job' = [job EXCEPT ![i] = j]

\* active_identity: a token of s is accepted
Authorized(s) ==
  profile[s].status = "Active" /\ login[s].group /\ org = "Active"

\* create_account: the platform's operator invites admins, admins supervisors
Invites(e) == e \in Admins \/ \E s \in Subs : login[s].email \subseteq Admins /\ Authorized(s)

OpenOrgSlip == org # "none"

\* relationships.constraints: 'Choose a valid organization'
OpenOrg == org = "Active"

CurrentSlip(j) == TRUE

\* The profile is in the version that was read
Current(j) == profile[j.sub].version = j.before.version

-----------------------------------------------------------------------------
(* POST users, and POST organizations with adminEmail                       *)

CreateOrganization(i, e) ==
  /\ job[i] = Idle /\ org = "none" /\ e \in Admins
  /\ org' = "Active"
  /\ Do(i, [op |-> "found", email |-> e])
  /\ UNCHANGED << login, profile, lost >>

StartCreate(i, e) ==
  /\ \/ job[i] = Idle /\ Invites(e)
     \/ job[i] = [op |-> "found", email |-> e]
  /\ org = "Active"
  /\ Do(i, [op |-> "invite", email |-> e])
  /\ UNCHANGED << login, profile, org, lost >>

\* Who has the e-mail now
Having(e) == {s \in Subs : login[s].state = "exists" /\ login[s].email = {e}}

\* admin_create_user; UsernameExistsException ends the request
Invite(i, s) ==
  /\ job[i].op = "invite" /\ Having(job[i].email) = {}
  /\ login[s].state = "unused"
  /\ login' = [login EXCEPT ![s] = [state |-> "exists", email |-> {job[i].email},
                                    group |-> FALSE, enabled |-> TRUE]]
  /\ Do(i, [op |-> "group", sub |-> s])
  /\ UNCHANGED << profile, org, lost >>

\* admin_add_user_to_group
AddToGroup(i) ==
  /\ job[i].op = "group" /\ login[job[i].sub].state = "exists"
  /\ login' = [login EXCEPT ![job[i].sub].group = TRUE]
  /\ Do(i, [op |-> "create", sub |-> job[i].sub])
  /\ UNCHANGED << profile, org, lost >>

\* The profile is stored; the answer arrives, or is lost and taken for a failure
StoreProfile(i, answered) ==
  LET s == job[i].sub
  IN  /\ job[i].op = "create" /\ OpenOrg /\ profile[s] = NoProfile
      /\ profile' = [profile EXCEPT ![s].status = "Active"]
      /\ lost' = IF answered THEN lost ELSE lost \cup {s}
      /\ Do(i, IF answered THEN Idle ELSE [op |-> "undo", sub |-> s])
      /\ UNCHANGED << login, org >>

MadeSlip(j) ==
  IF j.op \in {"group", "create"} THEN {j.sub}
  ELSE IF j.op = "invite" THEN Having(j.email) ELSE {}

\* What an exception has deleted: "never delete a pre-existing user"
Made(j) == IF j.op \in {"group", "create"} THEN {j.sub} ELSE {}

\* A call fails, or the transaction is refused
Fail(i, s) ==
  /\ s \in Made(job[i])
  /\ Do(i, [op |-> "undo", sub |-> s])
  /\ UNCHANGED << login, profile, org, lost >>

\* admin_delete_user; it may fail as well, see Abandon
Undo(i) ==
  /\ job[i].op = "undo"
  /\ login' = [login EXCEPT ![job[i].sub].state = "deleted"]
  /\ Do(i, Idle)
  /\ UNCHANGED << profile, org, lost >>

-----------------------------------------------------------------------------
(* PUT users: {status} or contact data, and POST users/invitation           *)

\* The writes of a request follow each other: a disabled profile is written
\* twice, of the other requests only an enabling one changes the status.
Write(i, s, op, kind, before, status) ==
  Do(i, [op |-> op, kind |-> kind, sub |-> s, before |-> before,
         after |-> [status |-> status, version |-> before.version + 1]])

UpdatableSlip(s, kind) == kind = "resend" => profile[s].status = "Active"

\* The account is found; resend_invitation wants an active one.  A profile that
\* is not there has no version either, as the put's condition would demand.
Updatable(s, kind) == profile[s].status \in
  IF kind = "resend" THEN {"Active"} ELSE {"Active", "Disabled"}

\* kind is what the request is for
StartUpdate(i, s, kind) ==
  /\ job[i] = Idle /\ profile[s].version < MaxVersion
  /\ Updatable(s, kind)
  /\ CASE kind = "disable" -> Write(i, s, "put", kind, profile[s], "Disabled")
       [] kind = "enable" -> Write(i, s, "login", kind, profile[s], "Active")
       [] OTHER -> Write(i, s, "put", kind, profile[s], profile[s].status)
  /\ UNCHANGED << login, profile, org, lost >>

\* After the deny is stored the login is disabled, and the profile put again
PutProfile(i) ==
  LET j == job[i]
  IN  /\ j.op = "put" /\ OpenOrg /\ Current(j)
      /\ profile' = [profile EXCEPT ![j.sub] = j.after]
      /\ IF j.kind = "disable" THEN Write(i, j.sub, "login", "deny", j.after, "Disabled")
                               ELSE Do(i, Idle)
      /\ UNCHANGED << login, org, lost >>

\* admin_enable_user, or admin_disable_user and admin_user_global_sign_out
SwitchLogin(i) ==
  LET j == job[i]
  IN  /\ j.op = "login" /\ login[j.sub].state = "exists"
      /\ login' = [login EXCEPT ![j.sub].enabled = (j.kind = "enable")]
      /\ Do(i, [j EXCEPT !.op = "put"])
      /\ UNCHANGED << profile, org, lost >>

-----------------------------------------------------------------------------
\* PUT organization {status}; Archived is like Suspended
PutOrganization(status) ==
  /\ org # "none" /\ org' = status
  /\ UNCHANGED << login, profile, job, lost >>

\* A refused request, a failed call, a crash
Abandon(i) ==
  /\ job[i] # Idle
  /\ Do(i, Idle)
  /\ UNCHANGED << login, profile, org, lost >>

Init ==
  /\ login = [s \in Subs |-> NoLogin]
  /\ profile = [s \in Subs |-> NoProfile]
  /\ org = "none" /\ lost = {}
  /\ job = [i \in Invocations |-> Idle]

Creation(i) ==
  \/ \E e \in Emails : CreateOrganization(i, e) \/ StartCreate(i, e)
  \/ \E s \in Subs : Invite(i, s) \/ Fail(i, s)
  \/ AddToGroup(i) \/ Undo(i)
  \/ \E answered \in BOOLEAN : StoreProfile(i, answered)

Update(i) ==
  \/ \E s \in Subs, kind \in {"disable", "enable", "edit", "resend"} :
        StartUpdate(i, s, kind)
  \/ PutProfile(i) \/ SwitchLogin(i)

Next ==
  \/ \E i \in Invocations : Creation(i) \/ Update(i) \/ Abandon(i)
  \/ \E status \in {"Active", "Suspended"} : PutOrganization(status)

Spec == Init /\ [][Next]_vars
-----------------------------------------------------------------------------
(* Properties.                                                             *)

Kinds == {"disable", "deny", "enable", "edit", "resend"}
Jobs == {Idle}
  \cup [op: {"found", "invite"}, email: Emails]
  \cup [op: {"group", "create", "undo"}, sub: Subs]
  \cup [op: {"login", "put"}, kind: Kinds, sub: Subs, before: Profiles,
        after: Profiles]

\* Logins, profiles, the organization and the requests at work have their
\* types; a profile that is not there has no version.
TypeOK ==
  /\ login \in [Subs -> Logins] /\ profile \in [Subs -> Profiles]
  /\ \A s \in Subs : profile[s].status = "none" => profile[s].version = 0
  /\ org \in {"none", "Active", "Suspended"} /\ lost \subseteq Subs
  /\ job \in [Invocations -> Jobs]

\* "A failed Cognito call cannot leave a disabled user authorized", nor can an
\* edit, an invitation or another disabling that read the profile before the
\* deny: a disabled profile becomes active by a request to enable it only, which
\* has read that very deny and has called Cognito.
DenyLasts ==
  [][\A s \in Subs :
       profile[s].status = "Disabled" /\ profile'[s].status = "Active" =>
         \E i \in Invocations :
           /\ job[i].op = "put" /\ job[i].kind = "enable" /\ job[i].sub = s
           /\ job[i].before = profile[s]]_vars

\* "This account was created by this request; never delete a pre-existing user":
\* a profile has its login with its role, whichever creations of the same e-mail
\* were interleaved and undone, unless the answer of its own creation was lost.
LoginKept == \A s \in Subs :
  profile[s].status # "none" /\ s \notin lost =>
    login[s].state = "exists" /\ login[s].group

\* An e-mail has one profile, unless the answer of a creation was lost: two
\* invitations of the same person do not both end in an account.
OneProfile == \A s, t \in Subs :
  /\ s # t /\ login[s].email = login[t].email
  /\ profile[s].status # "none" /\ profile[t].status # "none"
  => s \in lost \/ t \in lost

\* No account of a suspended organization is created or changed, also by a
\* request that found it active.
SuspendedFrozen == [][org = "Suspended" => profile' = profile]_vars
-----------------------------------------------------------------------------
(* The inductive invariant.                                                *)

\* A login that is being created or undone has no profile, and is no other
\* request's
Own(i, j) == j.op \in {"group", "create", "undo"} =>
  /\ profile[j.sub].status # "none" => j.op = "undo" /\ j.sub \in lost
  /\ j.op # "undo" => login[j.sub].state = "exists"
  /\ j.op = "create" => login[j.sub].group
  /\ \A k \in Invocations : k # i /\ job[k].op \in {"group", "create", "undo"} =>
       job[k].sub # j.sub

\* An update has read a profile, and the version it read is stored as it was
Read(j) == j.op \in {"login", "put"} =>
  /\ profile[j.sub].status # "none"
  /\ j.before.version <= profile[j.sub].version
  /\ Current(j) => j.before = profile[j.sub]
  /\ j.after.version = j.before.version + 1
  /\ j.after.status = IF j.kind = "enable" THEN "Active"
                      ELSE IF j.kind \in {"disable", "deny"} THEN "Disabled"
                      ELSE j.before.status

\* A login exists once of an e-mail; one that was never given is new
OneLogin ==
  /\ \A s, t \in Subs :
       /\ s # t /\ login[s].state = "exists" /\ login[t].state = "exists"
       => login[s].email # login[t].email
  /\ \A s \in Subs : login[s].state = "unused" =>
       profile[s].status = "none" /\ s \notin lost /\
       \A i \in Invocations : job[i].op \in {"group", "create", "undo"} => job[i].sub # s

IInv == TypeOK /\ LoginKept /\ OneLogin /\
        \A i \in Invocations : Own(i, job[i]) /\ Read(job[i])
=============================================================================
