---------------------------- MODULE AccountsProofs ----------------------------
(* The inductive invariant of Accounts and its safety properties, for any     *)
(* e-mails, logins and invocations.                                           *)
EXTENDS Accounts, TLAPS

\* The types of a request's fields, by its operation.
LEMMA JobFields ==
  ASSUME NEW j \in Jobs
  PROVE  /\ j.op \in {"found", "invite"} => j.email \in Emails
         /\ j.op \in {"group", "create", "undo"} => j.sub \in Subs
         /\ j.op \in {"login", "put"} =>
              /\ j.sub \in Subs /\ j.kind \in Kinds
              /\ j.before \in Profiles /\ j.after \in Profiles
         /\ j.op \in {"idle", "found", "invite", "group", "create", "undo", "login", "put"}
BY DEF Jobs, Idle

LEMMA InitIInv == Init => IInv
<1> SUFFICES ASSUME Init PROVE IInv
  OBVIOUS
<1>1. \A s \in Subs : profile[s].status = "none" /\ login[s].state = "unused"
  BY DEF Init, NoProfile, NoLogin
<1>2. TypeOK
  BY DEF Init, TypeOK, Logins, NoLogin, Profiles, NoProfile, Jobs
<1>3. \A i \in Invocations : Own(i, job[i]) /\ Read(job[i])
  BY DEF Init, Idle, Own, Read
<1>4. LoginKept
  BY <1>1 DEF LoginKept
<1>5. OneLogin
  BY <1>1 DEF Init, Idle, OneLogin
<1> QED
  BY <1>2, <1>3, <1>4, <1>5 DEF IInv

\* From the jobs after a step to the invariant after it.
LEMMA Together ==
  ASSUME TypeOK', LoginKept', OneLogin',
         \A m \in Invocations : \A q : q = job'[m] => Own(m, q)' /\ Read(q)'
  PROVE  IInv'
<1>1. ASSUME NEW m \in Invocations
      PROVE  Own(m, job[m])' /\ Read(job[m])'
  <2>1. PICK q : q = job'[m]
    OBVIOUS
  <2>2. Own(m, q)' /\ Read(q)'
    BY <2>1
  <2>3. Own(m, job[m])'
    BY <2>1, <2>2 DEF Own
  <2>4. Read(job[m])'
    BY <2>1, <2>2 DEF Read, Current
  <2> QED
    BY <2>3, <2>4
<1> QED
  BY <1>1 DEF IInv

\* Whose login a request is creating or undoing
Making(j) == j.op \in {"group", "create", "undo"}

\* A step that changes only the job of i, to one that makes no other login.
LEMMA JobStep ==
  ASSUME IInv, NEW i \in Invocations, NEW j \in Jobs, Do(i, j),
         UNCHANGED << login, profile, lost >>, org' \in {org, "Active"},
         Making(j) => Making(job[i]) /\ job[i].sub = j.sub,
         Own(i, j), Read(j)
  PROVE  IInv'
<1>1. \A m \in Invocations : job'[m] = IF m = i THEN j ELSE job[m]
  BY DEF Do, IInv, TypeOK
<1>2. TypeOK'
  BY DEF IInv, TypeOK, Do
<1>3. LoginKept'
  BY DEF IInv, LoginKept
<1>4. OneLogin'
  BY <1>1 DEF IInv, OneLogin, Making
<1>5. ASSUME NEW m \in Invocations, NEW q, q = job'[m]
      PROVE  Own(m, q)' /\ Read(q)'
  <2>1. Own(m, q) /\ Read(q)
    BY <1>1, <1>5 DEF IInv
  <2>2. Read(q)'
    BY <2>1 DEF Read, Current
  <2>3. Own(m, q)'
    BY <1>1, <1>5, <2>1 DEF IInv, Own, Making
  <2> QED
    BY <2>2, <2>3
<1> QED
  BY <1>2, <1>3, <1>4, <1>5, Together

LEMMA AbandonStep ==
  ASSUME IInv, NEW i \in Invocations, Abandon(i)
  PROVE  IInv'
<1>1. Idle \in Jobs /\ ~Making(Idle) /\ Own(i, Idle) /\ Read(Idle)
  BY DEF Jobs, Making, Own, Read, Idle
<1> QED
  BY <1>1, JobStep DEF Abandon

LEMMA StartCreateStep ==
  ASSUME IInv, NEW i \in Invocations, NEW e \in Emails, StartCreate(i, e)
  PROVE  IInv'
<1> DEFINE j == [op |-> "invite", email |-> e]
<1>1. j \in Jobs /\ ~Making(j) /\ Own(i, j) /\ Read(j)
  BY DEF Jobs, Making, Own, Read
<1> QED
  BY <1>1, JobStep DEF StartCreate

LEMMA FailStep ==
  ASSUME IInv, NEW i \in Invocations, NEW s \in Subs, Fail(i, s)
  PROVE  IInv'
<1> DEFINE j == [op |-> "undo", sub |-> s]
<1>1. Making(job[i]) /\ job[i].sub = s /\ job[i].op # "undo"
  BY DEF Fail, Made, Making
<1>2. j \in Jobs /\ Read(j)
  BY DEF Jobs, Read
<1>3. Own(i, j)
  BY <1>1 DEF IInv, Own, Making
<1> QED
  BY <1>1, <1>2, <1>3, JobStep DEF Fail

LEMMA CreateOrganizationStep ==
  ASSUME IInv, NEW i \in Invocations, NEW e \in Emails, CreateOrganization(i, e)
  PROVE  IInv'
<1> DEFINE j == [op |-> "found", email |-> e]
<1>1. j \in Jobs /\ ~Making(j) /\ Own(i, j) /\ Read(j)
  BY DEF Jobs, Making, Own, Read
<1> QED
  BY <1>1, JobStep DEF CreateOrganization

LEMMA StartUpdateStep ==
  ASSUME IInv, NEW i \in Invocations, NEW s \in Subs,
         NEW kind \in {"disable", "enable", "edit", "resend"}, StartUpdate(i, s, kind)
  PROVE  IInv'
<1>1. profile[s] \in Profiles /\ profile[s].status # "none"
  BY DEF IInv, TypeOK, StartUpdate, Updatable
<1>2. PICK op \in {"login", "put"}, status \in {"Active", "Disabled"} :
        /\ Write(i, s, op, kind, profile[s], status)
        /\ status = IF kind = "enable" THEN "Active"
                    ELSE IF kind \in {"disable", "deny"} THEN "Disabled"
                    ELSE profile[s].status
  BY <1>1 DEF StartUpdate, Profiles
<1> DEFINE after == [status |-> status, version |-> profile[s].version + 1]
           j == [op |-> op, kind |-> kind, sub |-> s, before |-> profile[s],
                 after |-> after]
<1>3. after \in Profiles
  BY <1>1 DEF Profiles
<1>4. j \in Jobs /\ Do(i, j)
  BY <1>1, <1>2, <1>3 DEF Jobs, Kinds, Write
<1>5. ~Making(j) /\ Own(i, j)
  BY DEF Making, Own
<1>6. Read(j)
  BY <1>1, <1>2 DEF Read, Current, Profiles
<1> HIDE DEF j
<1> QED
  BY <1>4, <1>5, <1>6, JobStep DEF StartUpdate

\* A login changes, but neither its e-mail nor, while it exists, its role.
LEMMA InviteStep ==
  ASSUME IInv, NEW i \in Invocations, NEW s \in Subs, Invite(i, s)
  PROVE  IInv'
<1>1. PICK e : e = job[i].email
  OBVIOUS
<1> DEFINE j == [op |-> "group", sub |-> s]
           w == [state |-> "exists", email |-> {e}, group |-> FALSE, enabled |-> TRUE]
<1>2. e \in Emails /\ w \in Logins /\ j \in Jobs
  BY <1>1, JobFields DEF IInv, TypeOK, Invite, Logins, Jobs
<1>3. /\ login' = [login EXCEPT ![s] = w] /\ Do(i, j)
      /\ UNCHANGED << profile, org, lost >> /\ login[s].state = "unused"
      /\ Having(e) = {}
  BY <1>1 DEF Invite
<1>4. \A t \in Subs : login'[t] = IF t = s THEN w ELSE login[t]
  BY <1>3 DEF IInv, TypeOK
<1>5. \A m \in Invocations : job'[m] = IF m = i THEN j ELSE job[m]
  BY <1>3 DEF Do, IInv, TypeOK
<1>6. profile[s].status = "none" /\ s \notin lost
      /\ \A m \in Invocations : Making(job[m]) => job[m].sub # s
  BY <1>3 DEF IInv, OneLogin, Making
<1>7. w.state = "exists" /\ w.email = {e} /\ j.sub = s /\ j.op = "group"
  OBVIOUS
<1> HIDE DEF w, j
<1>8. TypeOK'
  BY <1>2, <1>3 DEF IInv, TypeOK, Do
<1>9. LoginKept'
  BY <1>3, <1>4, <1>6 DEF IInv, LoginKept
<1>10. OneLogin'
  <2>1. \A t \in Subs : t # s /\ login[t].state = "exists" => login[t].email # {e}
    BY <1>3 DEF Having
  <2>2. \A t, u \in Subs : t # u /\ login'[t].state = "exists" /\ login'[u].state = "exists"
          => login'[t].email # login'[u].email
    BY <2>1, <1>4, <1>7 DEF IInv, OneLogin
  <2>3. ASSUME NEW t \in Subs, login'[t].state = "unused"
        PROVE  profile'[t].status = "none" /\ t \notin lost' /\
               \A m \in Invocations :
                 job'[m].op \in {"group", "create", "undo"} => job'[m].sub # t
    BY <2>3, <1>3, <1>4, <1>5, <1>7 DEF IInv, OneLogin
  <2> QED
    BY <2>2, <2>3 DEF OneLogin
<1>11. ASSUME NEW m \in Invocations, NEW q, q = job'[m]
       PROVE  Own(m, q)' /\ Read(q)'
  <2>1. CASE m = i
    <3>1. q = j
      BY <2>1, <1>5, <1>11
    <3>2. Read(q)'
      BY <3>1, <1>7 DEF Read
    <3>3. Own(m, q)'
      BY <3>1, <2>1, <1>3, <1>4, <1>5, <1>6, <1>7 DEF Own, Making
    <3> QED
      BY <3>2, <3>3
  <2>2. CASE m # i
    <3>1. q = job[m] /\ Own(m, q) /\ Read(q)
      BY <2>2, <1>5, <1>11 DEF IInv
    <3>2. Read(q)'
      BY <3>1, <1>3 DEF Read, Current
    <3>3. Making(q) => q.sub # s /\ q.sub \in Subs
      BY <3>1, <1>6, JobFields DEF IInv, TypeOK, Making
    <3>4. Own(m, q)'
      BY <3>1, <3>3, <1>3, <1>4, <1>5, <1>7 DEF Own, Making
    <3> QED
      BY <3>2, <3>4
  <2> QED
    BY <2>1, <2>2
<1> QED
  BY <1>8, <1>9, <1>10, <1>11, Together

\* A login changes without a new state, e-mail or loss of its role, or is
\* deleted by the request that made it; i's job goes on to j.
LEMMA LoginStep ==
  ASSUME IInv, NEW i \in Invocations, NEW j \in Jobs, Do(i, j),
         NEW s \in Subs, NEW w \in Logins,
         login' = [login EXCEPT ![s] = w], UNCHANGED << profile, org, lost >>,
         w.email = login[s].email, w.state # "unused",
         login[s].state # "unused",
         login[s].group => w.group,
         \/ w.state = login[s].state
         \/ /\ Making(job[i]) /\ job[i].sub = s /\ job[i].op = "undo"
            /\ w.state = "deleted",
         Making(j) => Making(job[i]) /\ job[i].sub = j.sub /\ j.op = "create"
                      /\ j.sub = s /\ w.group /\ job[i].op = "group",
         Read(j)
  PROVE  IInv'
<1>1. \A t \in Subs : login'[t] = IF t = s THEN w ELSE login[t]
  BY DEF IInv, TypeOK
<1>2. \A m \in Invocations : job'[m] = IF m = i THEN j ELSE job[m]
  BY DEF Do, IInv, TypeOK
<1>3. TypeOK'
  BY DEF IInv, TypeOK, Do
<1>4. w.state = login[s].state \/ profile[s].status = "none" \/ s \in lost
  BY DEF IInv, Own, Making
<1>5. LoginKept'
  BY <1>1, <1>4 DEF IInv, LoginKept
<1>6. OneLogin'
  <2>1. \A t, u \in Subs : t # u /\ login'[t].state = "exists" /\ login'[u].state = "exists"
          => login'[t].email # login'[u].email
    BY <1>1 DEF IInv, OneLogin
  <2>2. ASSUME NEW t \in Subs, login'[t].state = "unused"
        PROVE  profile'[t].status = "none" /\ t \notin lost' /\
               \A m \in Invocations :
                 job'[m].op \in {"group", "create", "undo"} => job'[m].sub # t
    BY <2>2, <1>1, <1>2 DEF IInv, OneLogin, Making
  <2> QED
    BY <2>1, <2>2 DEF OneLogin
<1>7. ASSUME NEW m \in Invocations, NEW q, q = job'[m]
      PROVE  Own(m, q)' /\ Read(q)'
  <2>1. CASE m = i
    <3>1. q = j
      BY <2>1, <1>2, <1>7
    <3>2. Read(q)'
      BY <3>1 DEF Read, Current
    <3>3. Own(m, q)'
      BY <3>1, <2>1, <1>1, <1>2 DEF IInv, Own, Making
    <3> QED
      BY <3>2, <3>3
  <2>2. CASE m # i
    <3>1. q = job[m] /\ Own(m, q) /\ Read(q)
      BY <2>2, <1>2, <1>7 DEF IInv
    <3>2. Read(q)'
      BY <3>1 DEF Read, Current
    <3>3. Making(q) => q.sub \in Subs
      BY <3>1, JobFields DEF IInv, TypeOK, Making
    <3>4. Making(q) /\ q.sub = s => w.state = login[s].state
      BY <2>2, <3>1 DEF IInv, Own, Making
    <3>5. Own(m, q)'
      BY <3>1, <3>3, <3>4, <2>2, <1>1, <1>2 DEF IInv, Own, Making
    <3> QED
      BY <3>2, <3>5
  <2> QED
    BY <2>1, <2>2
<1> QED
  BY <1>3, <1>5, <1>6, <1>7, Together

LEMMA AddToGroupStep ==
  ASSUME IInv, NEW i \in Invocations, AddToGroup(i)
  PROVE  IInv'
<1>1. PICK s : s = job[i].sub
  OBVIOUS
<1>2. s \in Subs /\ login[s] \in Logins /\ job[i].op = "group" /\ login[s].state = "exists"
  BY <1>1, JobFields DEF IInv, TypeOK, AddToGroup
<1> DEFINE w == [login[s] EXCEPT !.group = TRUE]
           j == [op |-> "create", sub |-> s]
<1>3. /\ w \in Logins /\ w.email = login[s].email /\ w.state = login[s].state
      /\ w.group
  BY <1>2 DEF Logins
<1>4. j \in Jobs /\ Read(j) /\ Making(j) /\ Making(job[i]) /\ j.sub = s /\ j.op = "create"
  BY <1>2 DEF Jobs, Read, Making
<1>5. login' = [login EXCEPT ![s] = w] /\ Do(i, j) /\ UNCHANGED << profile, org, lost >>
  BY <1>1 DEF AddToGroup
<1> HIDE DEF w, j
<1>6. w.state # "unused" /\ login[s].state # "unused" /\ (login[s].group => w.group)
  BY <1>2, <1>3
<1>7. Making(j) => Making(job[i]) /\ job[i].sub = j.sub /\ j.op = "create"
                   /\ j.sub = s /\ w.group /\ job[i].op = "group"
  BY <1>1, <1>2, <1>3, <1>4
<1>8. w.state = login[s].state
  BY <1>3
<1>9. /\ s \in Subs /\ w \in Logins /\ j \in Jobs /\ Read(j)
      /\ w.email = login[s].email
  BY <1>2, <1>3, <1>4
<1> QED
  BY <1>5, <1>6, <1>7, <1>8, <1>9, LoginStep

LEMMA UndoStep ==
  ASSUME IInv, NEW i \in Invocations, Undo(i)
  PROVE  IInv'
<1>1. PICK s : s = job[i].sub
  OBVIOUS
<1>2. s \in Subs /\ login[s] \in Logins /\ job[i].op = "undo"
  BY <1>1, JobFields DEF IInv, TypeOK, Undo
<1>3. login[s].state # "unused"
  BY <1>1, <1>2 DEF IInv, OneLogin
<1> DEFINE w == [login[s] EXCEPT !.state = "deleted"]
<1>4. /\ w \in Logins /\ w.email = login[s].email /\ w.state = "deleted"
      /\ w.group = login[s].group
  BY <1>2 DEF Logins
<1>5. Idle \in Jobs /\ Read(Idle) /\ ~Making(Idle) /\ Making(job[i])
  BY <1>2 DEF Jobs, Read, Making, Idle
<1>6. login' = [login EXCEPT ![s] = w] /\ Do(i, Idle) /\ UNCHANGED << profile, org, lost >>
  BY <1>1 DEF Undo
<1> HIDE DEF w
<1> QED
  BY <1>1, <1>2, <1>3, <1>4, <1>5, <1>6, LoginStep

LEMMA SwitchLoginStep ==
  ASSUME IInv, NEW i \in Invocations, SwitchLogin(i)
  PROVE  IInv'
<1>1. PICK p : p = job[i]
  OBVIOUS
<1>2. PICK s : s = p.sub
  OBVIOUS
<1>3. p \in Jobs /\ p.op = "login" /\ s \in Subs /\ login[s] \in Logins
      /\ login[s].state = "exists" /\ Read(p)
  BY <1>1, <1>2, JobFields DEF IInv, TypeOK, SwitchLogin
<1> DEFINE w == [login[s] EXCEPT !.enabled = (p.kind = "enable")]
           j == [p EXCEPT !.op = "put"]
<1>4. /\ w \in Logins /\ w.email = login[s].email /\ w.state = login[s].state
      /\ (login[s].group => w.group)
  BY <1>3 DEF Logins
<1>5. /\ j \in Jobs /\ j.op = "put" /\ j.kind = p.kind /\ j.sub = p.sub
      /\ j.before = p.before /\ j.after = p.after
  BY <1>3 DEF Jobs, Idle
<1>6. login' = [login EXCEPT ![s] = w] /\ Do(i, j) /\ UNCHANGED << profile, org, lost >>
  BY <1>1, <1>2 DEF SwitchLogin
<1> HIDE DEF w, j
<1>7. Read(j) /\ ~Making(j)
  BY <1>3, <1>5 DEF Read, Current, Making
<1>8. w.state # "unused" /\ login[s].state # "unused" /\ (login[s].group => w.group)
  BY <1>3, <1>4
<1>9. w.state = login[s].state
  BY <1>4
<1>10. Making(j) => Making(job[i]) /\ job[i].sub = j.sub /\ j.op = "create"
                    /\ j.sub = s /\ w.group /\ job[i].op = "group"
  BY <1>7
<1>11. /\ s \in Subs /\ w \in Logins /\ j \in Jobs /\ Read(j)
       /\ w.email = login[s].email
  BY <1>3, <1>4, <1>5, <1>7
<1> QED
  BY <1>6, <1>8, <1>9, <1>10, <1>11, LoginStep

\* A profile is stored or put: it has a later version, unless it is new, and
\* was not there or was there in the version that was read.
Stored(i, j, s, x) ==
  /\ Do(i, j) /\ profile' = [profile EXCEPT ![s] = x] /\ UNCHANGED << login, org >>
  /\ x.status # "none"
  /\ lost' \subseteq Subs /\ lost \subseteq lost' /\ lost' \subseteq lost \cup {s}
  /\ profile[s].status = "none" \/ x.version > profile[s].version
  /\ \A m \in Invocations : m # i /\ Making(job[m]) /\ job[m].sub = s =>
       job[m].op = "undo" /\ s \in lost'
  /\ s \notin lost' => login[s].state = "exists" /\ login[s].group
  /\ login[s].state # "unused"
  /\ Making(j) => /\ Making(job[i]) /\ job[i].sub = s /\ j.sub = s
                  /\ j.op = "undo" /\ s \in lost'
  /\ Read(j)'

LEMMA ProfileStep ==
  ASSUME IInv, NEW i \in Invocations, NEW j \in Jobs, NEW s \in Subs,
         NEW x \in Profiles, Stored(i, j, s, x)
  PROVE  IInv'
<1> USE DEF Stored
<1>1. \A t \in Subs : profile'[t] = IF t = s THEN x ELSE profile[t]
  BY DEF IInv, TypeOK
<1>2. \A m \in Invocations : job'[m] = IF m = i THEN j ELSE job[m]
  BY DEF Do, IInv, TypeOK
<1>3. TypeOK'
  BY <1>1 DEF IInv, TypeOK, Do
<1>4. LoginKept'
  BY <1>1 DEF IInv, LoginKept
<1>5. OneLogin'
  BY <1>1, <1>2 DEF IInv, OneLogin, Making
<1>6. ASSUME NEW m \in Invocations, NEW q, q = job'[m]
      PROVE  Own(m, q)' /\ Read(q)'
  <2>1. CASE m = i
    <3>1. q = j
      BY <2>1, <1>2, <1>6
    <3>2. Read(q)'
      BY <3>1 DEF Read, Current
    <3>3. Own(m, q)'
      BY <3>1, <2>1, <1>1, <1>2 DEF IInv, Own, Making
    <3> QED
      BY <3>2, <3>3
  <2>2. CASE m # i
    <3>1. q = job[m] /\ Own(m, q) /\ Read(q)
      BY <2>2, <1>2, <1>6 DEF IInv
    <3>2. q \in Jobs
      BY <3>1 DEF IInv, TypeOK
    <3>3. Read(q)'
      <4>1. CASE q.op \notin {"login", "put"}
        BY <4>1 DEF Read
      <4>2. CASE q.op \in {"login", "put"} /\ q.sub # s
        BY <4>2, <3>1, <3>2, <1>1, JobFields DEF Read, Current
      <4>3. CASE q.op \in {"login", "put"} /\ q.sub = s
        <5>1. /\ profile[s].status # "none" /\ q.before.version <= profile[s].version
              /\ q.before.version \in Nat /\ profile[s].version \in Nat /\ x.version \in Nat
          BY <4>3, <3>1, <3>2, JobFields DEF Read, IInv, TypeOK, Profiles
        <5>2. /\ profile'[s] = x /\ x.version > profile[s].version
          BY <5>1, <1>1
        <5>3. q.before.version <= x.version /\ q.before.version # x.version
          BY <5>1, <5>2
        <5> QED
          BY <4>3, <5>2, <5>3, <3>1 DEF Read, Current
      <4> QED
        BY <4>1, <4>2, <4>3
    <3>4. Making(q) => q.sub \in Subs
      BY <3>2, JobFields DEF Making
    <3>5. Own(m, q)'
      BY <3>1, <3>4, <2>2, <1>1, <1>2 DEF Own, Making
    <3> QED
      BY <3>3, <3>5
  <2> QED
    BY <2>1, <2>2
<1> QED
  BY <1>3, <1>4, <1>5, <1>6, Together

LEMMA StoreProfileStep ==
  ASSUME IInv, NEW i \in Invocations, NEW answered \in BOOLEAN, StoreProfile(i, answered)
  PROVE  IInv'
<1>1. PICK s : s = job[i].sub
  OBVIOUS
<1>2. /\ s \in Subs /\ job[i].op = "create" /\ profile[s] = NoProfile
      /\ login[s].state = "exists" /\ login[s].group
      /\ \A m \in Invocations : m # i /\ Making(job[m]) => job[m].sub # s
  BY <1>1, JobFields DEF IInv, TypeOK, StoreProfile, Own, Making
<1> DEFINE x == [NoProfile EXCEPT !.status = "Active"]
           j == IF answered THEN Idle ELSE [op |-> "undo", sub |-> s]
<1>3. x \in Profiles /\ x.status # "none" /\ profile[s].status = "none"
  BY <1>2 DEF Profiles, NoProfile
<1>4. profile' = [profile EXCEPT ![s] = x] /\ UNCHANGED << login, org >> /\ Do(i, j)
  BY <1>1, <1>2 DEF StoreProfile
<1>5. lost' = IF answered THEN lost ELSE lost \cup {s}
  BY <1>1 DEF StoreProfile
<1>6. lost' \subseteq Subs /\ lost \subseteq lost' /\ lost' \subseteq lost \cup {s}
  BY <1>2, <1>5 DEF IInv, TypeOK
<1>7. j \in Jobs /\ Read(j)'
  BY <1>2 DEF Jobs, Read, Idle
<1>8. Making(job[i])
  BY <1>2 DEF Making
<1>9. Making(j) => /\ Making(job[i]) /\ job[i].sub = s /\ j.sub = s
                   /\ j.op = "undo" /\ s \in lost'
  BY <1>1, <1>5, <1>8 DEF Making, Idle
<1>10. login[s].state # "unused"
  BY <1>2
<1>11. PICK y : y = x
  OBVIOUS
<1>12. PICK k : k = j
  OBVIOUS
<1> HIDE DEF x, j
<1>13. s \in Subs /\ y \in Profiles /\ y.status # "none" /\ k \in Jobs
  BY <1>2, <1>3, <1>7, <1>11, <1>12
<1>14. profile' = [profile EXCEPT ![s] = y] /\ UNCHANGED << login, org >> /\ Do(i, k)
  BY <1>4, <1>11, <1>12
<1>15. Read(k)'
  BY <1>7, <1>12 DEF Read, Current
<1>16. Making(k) => /\ Making(job[i]) /\ job[i].sub = s /\ k.sub = s
                    /\ k.op = "undo" /\ s \in lost'
  BY <1>9, <1>12
<1>17. \A m \in Invocations : m # i /\ Making(job[m]) /\ job[m].sub = s =>
         job[m].op = "undo" /\ s \in lost'
  BY <1>2
<1>18. profile[s].status = "none" \/ y.version > profile[s].version
  BY <1>3
<1>19. /\ s \notin lost' => login[s].state = "exists" /\ login[s].group
       /\ login[s].state # "unused"
  BY <1>2
<1>20. Stored(i, k, s, y)
  BY <1>6, <1>13, <1>14, <1>15, <1>16, <1>17, <1>18, <1>19 DEF Stored
<1> QED
  BY <1>13, <1>20, ProfileStep

LEMMA PutProfileStep ==
  ASSUME IInv, NEW i \in Invocations, PutProfile(i)
  PROVE  IInv'
<1>1. PICK p : p = job[i]
  OBVIOUS
<1>2. PICK s : s = p.sub
  OBVIOUS
<1>3. /\ p \in Jobs /\ p.op = "put" /\ s \in Subs /\ Read(p)
      /\ p.kind \in Kinds /\ p.before \in Profiles /\ p.after \in Profiles
  BY <1>1, <1>2, JobFields DEF IInv, TypeOK, PutProfile
<1>4. /\ p.before = profile[s] /\ profile[s].status # "none"
      /\ p.after.version = profile[s].version + 1 /\ profile[s].version \in Nat
      /\ p.after.status # "none" /\ (p.kind = "disable" => p.after.status = "Disabled")
  BY <1>1, <1>2, <1>3 DEF PutProfile, Read, Profiles
<1>5. profile' = [profile EXCEPT ![s] = p.after] /\ UNCHANGED << login, org, lost >>
  BY <1>1, <1>2 DEF PutProfile
<1>6. profile'[s] = p.after
  BY <1>3, <1>5 DEF IInv, TypeOK
<1> DEFINE after == [status |-> "Disabled", version |-> p.after.version + 1]
           deny == [op |-> "login", kind |-> "deny", sub |-> s, before |-> p.after,
                    after |-> after]
<1>7. PICK j : j = IF p.kind = "disable" THEN deny ELSE Idle
  OBVIOUS
<1>8. Do(i, j)
  BY <1>1, <1>2, <1>7 DEF PutProfile, Write
<1>9. after \in Profiles
  BY <1>3 DEF Profiles
<1>10. deny \in Jobs /\ Idle \in Jobs
  BY <1>3, <1>9 DEF Jobs, Kinds
<1>11. Read(deny)'
  BY <1>3, <1>4, <1>6 DEF Read, Current, Profiles
<1>12. ~Making(deny) /\ ~Making(Idle) /\ Read(Idle)'
  BY DEF Making, Read, Idle
<1> HIDE DEF deny
<1>13. j \in Jobs /\ Read(j)' /\ ~Making(j)
  BY <1>7, <1>10, <1>11, <1>12 DEF Read, Current
<1>14. p.after.version > profile[s].version
  BY <1>4
<1>15. \A m \in Invocations : m # i /\ Making(job[m]) /\ job[m].sub = s =>
         job[m].op = "undo" /\ s \in lost'
  BY <1>4, <1>5 DEF IInv, Own, Making
<1>16. /\ s \notin lost' => login[s].state = "exists" /\ login[s].group
       /\ login[s].state # "unused"
  BY <1>3, <1>4, <1>5 DEF IInv, LoginKept, OneLogin
<1>17. lost' \subseteq Subs /\ lost \subseteq lost' /\ lost' \subseteq lost \cup {s}
  BY <1>5 DEF IInv, TypeOK
<1>18. /\ s \in Subs /\ p.after \in Profiles /\ p.after.status # "none"
       /\ UNCHANGED << login, org >>
  BY <1>3, <1>4, <1>5
<1>19. Making(j) => /\ Making(job[i]) /\ job[i].sub = s /\ j.sub = s
                    /\ j.op = "undo" /\ s \in lost'
  BY <1>13
<1>20. Read(j)'
  BY <1>13
<1>21. Stored(i, j, s, p.after)
  BY <1>5, <1>8, <1>14, <1>15, <1>16, <1>17, <1>18, <1>19, <1>20 DEF Stored
<1> QED
  BY <1>13, <1>18, <1>21, ProfileStep

LEMMA QuietStep ==
  ASSUME IInv, UNCHANGED << login, profile, job, lost >>,
         org' \in {"none", "Active", "Suspended"}
  PROVE  IInv'
<1>1. TypeOK' /\ LoginKept' /\ OneLogin'
  BY DEF IInv, TypeOK, LoginKept, OneLogin
<1>2. ASSUME NEW m \in Invocations, NEW q, q = job'[m]
      PROVE  Own(m, q)' /\ Read(q)'
  <2>1. Own(m, q) /\ Read(q)
    BY <1>2 DEF IInv
  <2> QED
    BY <2>1 DEF Own, Read, Current
<1> QED
  BY <1>1, <1>2, Together

LEMMA StepIInv == IInv /\ [Next]_vars => IInv'
<1> SUFFICES ASSUME IInv, [Next]_vars PROVE IInv'
  OBVIOUS
<1>1. ASSUME NEW i \in Invocations, Creation(i)
      PROVE  IInv'
  BY <1>1, CreateOrganizationStep, StartCreateStep, InviteStep, FailStep, AddToGroupStep,
     UndoStep, StoreProfileStep DEF Creation
<1>2. ASSUME NEW i \in Invocations, Update(i)
      PROVE  IInv'
  BY <1>2, StartUpdateStep, PutProfileStep, SwitchLoginStep DEF Update
<1>3. ASSUME NEW status \in {"Active", "Suspended"}, PutOrganization(status)
      PROVE  IInv'
  BY <1>3, QuietStep DEF PutOrganization
<1>4. CASE UNCHANGED vars
  BY <1>4, QuietStep DEF vars, IInv, TypeOK
<1> QED
  BY <1>1, <1>2, <1>3, <1>4, AbandonStep DEF Next

LEMMA Invariant == Spec => []IInv
BY InitIInv, StepIInv, PTL DEF Spec

-----------------------------------------------------------------------------
\* Logins, profiles and requests always have their types.
THEOREM TypeCorrect == Spec => []TypeOK
<1>1. IInv => TypeOK
  BY DEF IInv
<1> QED
  BY <1>1, Invariant, PTL

\* A profile keeps its login and its role, unless its creation's answer was
\* lost.
THEOREM LoginsKept == Spec => []LoginKept
<1>1. IInv => LoginKept
  BY DEF IInv
<1> QED
  BY <1>1, Invariant, PTL

\* An e-mail has one profile, unless a creation's answer was lost.
THEOREM ProfilesOnce == Spec => []OneProfile
<1>1. IInv => OneProfile
  BY DEF IInv, OneProfile, LoginKept, OneLogin
<1> QED
  BY <1>1, Invariant, PTL

\* A disabled profile becomes active by a request to enable it that has read the
\* deny.
THEOREM DeniesLast == Spec => DenyLasts
<1> DEFINE Denied == \A s \in Subs :
       profile[s].status = "Disabled" /\ profile'[s].status = "Active" =>
         \E i \in Invocations :
           /\ job[i].op = "put" /\ job[i].kind = "enable" /\ job[i].sub = s
           /\ job[i].before = profile[s]
<1>1. IInv /\ [Next]_vars => [Denied]_vars
  <2> SUFFICES ASSUME IInv, Next, NEW s \in Subs,
                      profile[s].status = "Disabled", profile'[s].status = "Active"
               PROVE  \E i \in Invocations :
                        /\ job[i].op = "put" /\ job[i].kind = "enable" /\ job[i].sub = s
                        /\ job[i].before = profile[s]
    OBVIOUS
  <2>1. PICK i \in Invocations :
          PutProfile(i) \/ \E answered \in BOOLEAN : StoreProfile(i, answered)
    BY DEF Next, Creation, Update, CreateOrganization, StartCreate, Invite, Fail,
       AddToGroup, Undo, StartUpdate, SwitchLogin, PutOrganization, Abandon
  <2>2. ASSUME NEW answered \in BOOLEAN, StoreProfile(i, answered)
        PROVE  FALSE
    BY <2>2 DEF StoreProfile, NoProfile, IInv, TypeOK
  <2>3. PutProfile(i)
    BY <2>1, <2>2
  <2>4. PICK p : p = job[i]
    OBVIOUS
  <2>5. /\ p.op = "put" /\ Current(p) /\ profile' = [profile EXCEPT ![p.sub] = p.after]
    BY <2>3, <2>4 DEF PutProfile
  <2>6. p.sub = s /\ p.after = profile'[s]
    BY <2>5 DEF IInv, TypeOK
  <2>7. Read(p)
    BY <2>4 DEF IInv
  <2>8. p.before = profile[s] /\ p.kind = "enable"
    BY <2>5, <2>6, <2>7 DEF Read
  <2> QED
    BY <2>4, <2>5, <2>6, <2>8
<1> QED
  BY <1>1, Invariant, PTL DEF Spec, DenyLasts

\* No account of a suspended organization is created or changed.
THEOREM SuspendedStays == Spec => SuspendedFrozen
<1> DEFINE Frozen == org = "Suspended" => profile' = profile
<1>1. [Next]_vars => [Frozen]_vars
  BY DEF Next, Creation, Update, CreateOrganization, StartCreate, Invite, Fail,
     AddToGroup, Undo, StoreProfile, StartUpdate, PutProfile, SwitchLogin,
     PutOrganization, Abandon, OpenOrg
<1> QED
  BY <1>1, PTL DEF Spec, SuspendedFrozen
=============================================================================
