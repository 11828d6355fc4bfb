-------------------------- MODULE PayrollBuildProofs --------------------------
(* The inductive invariant of PayrollBuild, its safety properties and the    *)
(* refinement of Register, for any cycles, pages, invocations and lease.     *)
EXTENDS PayrollBuild, TLAPS

\* A time put into a request is not negative.
LEMMA SampledNat ==
  ASSUME NEW i, NEW t, Sampled(i, t)
  PROVE  t \in Nat /\ t + Lease \in Int
BY TimeAssumption DEF Sampled, Times

\* The types of the fields of a job, by its operation.
LEMMA JobFields ==
  ASSUME TypeOK, NEW i \in Invocations
  PROVE  /\ job[i].op \in {"stage", "extend"} =>
              job[i].cycle \in Cycles /\ job[i].left \subseteq Pages
         /\ job[i].op \in {"claim", "scan", "finish"} => job[i].cycle \in Cycles
         /\ job[i].op = "delete" =>
              job[i].cycle \in Cycles /\ job[i].page \in Pages
<1>1. job[i] \in Jobs
  BY DEF TypeOK
<1> QED
  BY <1>1 DEF Jobs, Idle

\* The initial state satisfies the invariant.
LEMMA InitIInv == Init => IInv
BY DEF Init, IInv, TypeOK, OneHeader, RegisterComplete, CleanedEmpty, Staging,
       Finishing, NoBuild, Builds, States, NoLease, Idle, Jobs

\* A step that only changes jobs keeps the invariant when the new job has its
\* type and is neither staging nor about to finish.
LEMMA JobStep ==
  ASSUME IInv, NEW i \in Invocations, NEW j \in Jobs, Do(i, j),
         UNCHANGED << build, entries, header, history, clock >>,
         j.op \notin {"stage", "extend"},
         j.op = "finish" => entries[j.cycle] = {}
  PROVE  IInv'
<1> USE DEF IInv
<1>1. TypeOK'
  BY DEF TypeOK, Do
<1>2. (OneHeader /\ RegisterComplete /\ CleanedEmpty)'
  BY DEF OneHeader, RegisterComplete, CleanedEmpty
<1>3. \A k \in Invocations : job'[k] = IF k = i THEN j ELSE job[k]
  BY DEF Do, TypeOK
<1>4. Staging'
  BY <1>3 DEF Staging
<1>5. Finishing'
  BY <1>3 DEF Finishing
<1> QED
  BY <1>1, <1>2, <1>4, <1>5

LEMMA BeginStep ==
  ASSUME IInv, NEW i \in Invocations, Begin(i)
  PROVE  IInv'
<1>1. [op |-> "begin", since |-> clock] \in Jobs
  BY DEF Jobs, IInv, TypeOK
<1> QED
  BY <1>1, JobStep DEF Begin

LEMMA StartCleanupStep ==
  ASSUME IInv, NEW i \in Invocations, NEW c \in Cycles, StartCleanup(i, c)
  PROVE  IInv'
<1>1. [op |-> "claim", cycle |-> c, since |-> clock] \in Jobs
  BY DEF Jobs, IInv, TypeOK
<1> QED
  BY <1>1, JobStep DEF StartCleanup

LEMMA ScanStep ==
  ASSUME IInv, NEW i \in Invocations, Scan(i)
  PROVE  IInv'
<1> DEFINE c == job[i].cycle
<1>1. c \in Cycles /\ entries[c] \subseteq Pages /\ clock \in Nat
  BY JobFields DEF Scan, IInv, TypeOK
<1>2. CASE entries[c] = {} /\ Do(i, [op |-> "finish", cycle |-> c, since |-> clock])
  <2>1. [op |-> "finish", cycle |-> c, since |-> clock] \in Jobs
    BY <1>1 DEF Jobs
  <2> QED
    BY <1>2, <2>1, JobStep DEF Scan
<1>3. CASE \E p \in entries[c] :
             Do(i, [op |-> "delete", cycle |-> c, page |-> p, since |-> clock])
  <2>1. PICK p \in entries[c] :
             Do(i, [op |-> "delete", cycle |-> c, page |-> p, since |-> clock])
    BY <1>3
  <2>2. [op |-> "delete", cycle |-> c, page |-> p, since |-> clock] \in Jobs
    BY <1>1 DEF Jobs
  <2> QED
    BY <2>1, <2>2, JobStep DEF Scan
<1> QED
  BY <1>2, <1>3 DEF Scan

LEMMA AbandonStep ==
  ASSUME IInv, NEW i \in Invocations, Abandon(i)
  PROVE  IInv'
<1>1. Idle \in Jobs /\ Idle.op = "idle"
  BY DEF Jobs, Idle
<1> QED
  BY <1>1, JobStep DEF Abandon

LEMMA PutBuildStep ==
  ASSUME IInv, NEW i \in Invocations, NEW c \in Cycles, NEW t, PutBuild(i, c, t)
  PROVE  IInv'
<1> DEFINE j == [op |-> "stage", cycle |-> c, left |-> Pages, since |-> clock]
           b == [state |-> "Building", owner |-> {i}, lease |-> t + Lease]
<1>0. TypeOK /\ t + Lease \in Int
  BY SampledNat DEF PutBuild, IInv
<1>1. \A k \in Invocations : job'[k] = IF k = i THEN j ELSE job[k]
  BY <1>0 DEF PutBuild, Do, TypeOK
<1>2. \A d \in Cycles : build'[d] = IF d = c THEN b ELSE build[d]
  BY <1>0 DEF PutBuild, TypeOK
<1>3. UNCHANGED << entries, header, history, clock >> /\ build[c] = NoBuild
  BY DEF PutBuild
<1>4. TypeOK'
  <2>1. j \in Jobs /\ b \in Builds
    BY <1>0 DEF Jobs, Builds, States, TypeOK
  <2>2. build' = [build EXCEPT ![c] = b] /\ job' = [job EXCEPT ![i] = j]
    BY DEF PutBuild, Do
  <2> HIDE DEF j, b
  <2> QED
    BY <1>0, <1>3, <2>1, <2>2 DEF TypeOK
<1>5. build[c].state = "None" /\ entries[c] = {}
  BY <1>3 DEF NoBuild, IInv, Staging
<1>6. OneHeader'
  BY <1>3 DEF IInv, OneHeader
<1>7. RegisterComplete'
  BY <1>2, <1>3, <1>5 DEF IInv, RegisterComplete
<1>8. CleanedEmpty'
  BY <1>2, <1>3 DEF IInv, CleanedEmpty
<1>9. Staging'
  <2>1. \A d \in Cycles : build'[d].state = "None" => entries'[d] = {}
    BY <1>2, <1>3 DEF IInv, Staging
  <2>2. ASSUME NEW k \in Invocations, job'[k].op \in {"stage", "extend"}
        PROVE  /\ build'[job'[k].cycle].state # "None"
               /\ build'[job'[k].cycle].state = "Building"
                    /\ build'[job'[k].cycle].owner = {k} =>
                    entries'[job'[k].cycle] = Pages \ job'[k].left
    <3>1. CASE k = i
      BY <1>1, <1>2, <1>3, <1>5, <3>1
    <3>2. CASE k # i
      <4>1. job[k].op \in {"stage", "extend"} /\ job'[k] = job[k]
        BY <1>1, <2>2, <3>2
      <4>2. job[k].cycle \in Cycles /\ build[job[k].cycle].state # "None"
        BY <1>0, <4>1, JobFields DEF IInv, Staging
      <4> QED
        BY <1>2, <1>3, <1>5, <4>1, <4>2 DEF IInv, Staging
    <3> QED
      BY <3>1, <3>2
  <2> QED
    BY <2>1, <2>2 DEF Staging
<1>10. Finishing'
  <2>1. ASSUME NEW k \in Invocations, job'[k].op = "finish",
               build'[job'[k].cycle].state = "Cleaning",
               build'[job'[k].cycle].owner = {k}
        PROVE  entries'[job'[k].cycle] = {}
    <3>1. k # i /\ job'[k] = job[k]
      BY <1>1, <2>1
    <3>2. job[k].cycle \in Cycles
      BY <1>0, <2>1, <3>1, JobFields
    <3> QED
      BY <1>2, <1>3, <1>5, <2>1, <3>1, <3>2 DEF IInv, Finishing
  <2> QED
    BY <2>1 DEF Finishing
<1> QED
  BY <1>4, <1>6, <1>7, <1>8, <1>9, <1>10 DEF IInv

LEMMA StagePageStep ==
  ASSUME IInv, NEW i \in Invocations, NEW p \in Pages, NEW t, StagePage(i, p, t)
  PROVE  IInv'
<1> DEFINE c == job[i].cycle
           j == [op |-> "extend", cycle |-> c, left |-> job[i].left \ {p},
                 since |-> clock]
<1>0. TypeOK /\ c \in Cycles /\ job[i].left \subseteq Pages
  BY JobFields DEF StagePage, IInv
<1>1. /\ build[c].state = "Building" /\ build[c].owner = {i}
      /\ job[i].op = "stage" /\ p \in job[i].left
  BY DEF StagePage, LeaseHeld
<1>2. \A k \in Invocations : job'[k] = IF k = i THEN j ELSE job[k]
  BY <1>0 DEF StagePage, Do, TypeOK
<1>3. \A d \in Cycles : entries'[d] = IF d = c THEN entries[c] \cup {p}
                                               ELSE entries[d]
  BY <1>0 DEF StagePage, TypeOK
<1>4. UNCHANGED << build, header, history, clock >>
  BY DEF StagePage
<1>5. TypeOK'
  <2>1. j \in Jobs /\ entries[c] \cup {p} \subseteq Pages
    BY <1>0 DEF Jobs, TypeOK
  <2>2. /\ entries' = [entries EXCEPT ![c] = @ \cup {p}]
        /\ job' = [job EXCEPT ![i] = j]
    BY DEF StagePage, Do
  <2> HIDE DEF j
  <2> QED
    BY <1>0, <1>4, <2>1, <2>2 DEF TypeOK
<1>6. (OneHeader /\ CleanedEmpty)'
  BY <1>1, <1>3, <1>4 DEF IInv, OneHeader, CleanedEmpty
<1>7. RegisterComplete'
  <2>1. c \notin header \cup history
    BY <1>0, <1>1 DEF IInv, RegisterComplete
  <2> QED
    BY <1>0, <1>3, <1>4, <2>1 DEF IInv, RegisterComplete, TypeOK
<1>8. Staging'
  <2>1. \A d \in Cycles : build'[d].state = "None" => entries'[d] = {}
    BY <1>1, <1>3, <1>4 DEF IInv, Staging
  <2>2. ASSUME NEW k \in Invocations, job'[k].op \in {"stage", "extend"}
        PROVE  /\ build'[job'[k].cycle].state # "None"
               /\ build'[job'[k].cycle].state = "Building"
                    /\ build'[job'[k].cycle].owner = {k} =>
                    entries'[job'[k].cycle] = Pages \ job'[k].left
    <3>1. CASE k = i
      <4>1. entries[c] = Pages \ job[i].left
        BY <1>1 DEF IInv, Staging
      <4> QED
        BY <1>0, <1>1, <1>2, <1>3, <1>4, <3>1, <4>1
    <3>2. CASE k # i
      <4>1. job[k].op \in {"stage", "extend"} /\ job'[k] = job[k]
        BY <1>2, <2>2, <3>2
      <4>2. job[k].cycle \in Cycles
        BY <1>0, <4>1, JobFields
      <4> QED
        BY <1>1, <1>3, <1>4, <3>2, <4>1, <4>2 DEF IInv, Staging
    <3> QED
      BY <3>1, <3>2
  <2> QED
    BY <2>1, <2>2 DEF Staging
<1>9. Finishing'
  <2>1. ASSUME NEW k \in Invocations, job'[k].op = "finish",
               build'[job'[k].cycle].state = "Cleaning",
               build'[job'[k].cycle].owner = {k}
        PROVE  entries'[job'[k].cycle] = {}
    <3>1. k # i /\ job'[k] = job[k]
      BY <1>2, <2>1
    <3>2. job[k].cycle \in Cycles
      BY <1>0, <2>1, <3>1, JobFields
    <3> QED
      BY <1>1, <1>3, <1>4, <2>1, <3>1, <3>2 DEF IInv, Finishing
  <2> QED
    BY <2>1 DEF Finishing
<1> QED
  BY <1>5, <1>6, <1>7, <1>8, <1>9 DEF IInv

LEMMA ExtendLeaseStep ==
  ASSUME IInv, NEW i \in Invocations, NEW t, ExtendLease(i, t)
  PROVE  IInv'
<1> DEFINE c == job[i].cycle
           j == [op |-> "stage", cycle |-> c, left |-> job[i].left,
                 since |-> clock]
           b == [build[c] EXCEPT !.lease = t + Lease]
<1>0. TypeOK /\ c \in Cycles /\ job[i].left \subseteq Pages /\ t + Lease \in Int
  BY JobFields, SampledNat DEF ExtendLease, IInv
<1>1. build[c].state = "Building" /\ build[c].owner = {i} /\ job[i].op = "extend"
  BY DEF ExtendLease
<1>2. \A k \in Invocations : job'[k] = IF k = i THEN j ELSE job[k]
  BY <1>0 DEF ExtendLease, Do, TypeOK
<1>3. \A d \in Cycles : build'[d].state = build[d].state
                        /\ build'[d].owner = build[d].owner
  BY <1>0 DEF ExtendLease, TypeOK, Builds
<1>4. UNCHANGED << entries, header, history, clock >>
  BY DEF ExtendLease
<1>5. TypeOK'
  <2>1. j \in Jobs /\ b \in Builds
    BY <1>0 DEF Jobs, TypeOK, Builds
  <2>2. build' = [build EXCEPT ![c] = b] /\ job' = [job EXCEPT ![i] = j]
    BY DEF ExtendLease, Do
  <2> HIDE DEF j, b
  <2> QED
    BY <1>0, <1>4, <2>1, <2>2 DEF TypeOK
<1>6. (OneHeader /\ CleanedEmpty /\ RegisterComplete)'
  BY <1>3, <1>4 DEF IInv, OneHeader, CleanedEmpty, RegisterComplete
<1>7. Staging'
  <2>1. ASSUME NEW k \in Invocations, job'[k].op \in {"stage", "extend"}
        PROVE  /\ job[k].op \in {"stage", "extend"}
               /\ job'[k].cycle = job[k].cycle /\ job'[k].left = job[k].left
    BY <1>1, <1>2, <2>1
  <2>2. \A k \in Invocations : job[k].op \in {"stage", "extend"} =>
          job[k].cycle \in Cycles
    BY <1>0, JobFields
  <2> QED
    BY <1>3, <1>4, <2>1, <2>2 DEF IInv, Staging
<1>8. Finishing'
  <2>1. \A k \in Invocations : job'[k].op = "finish" =>
          job'[k] = job[k] /\ job[k].cycle \in Cycles
    BY <1>0, <1>2, JobFields
  <2> QED
    BY <1>3, <1>4, <2>1 DEF IInv, Finishing
<1> QED
  BY <1>5, <1>6, <1>7, <1>8 DEF IInv

\* A step after which invocation i is idle or scanning: what the others stage
\* or finish is to be shown only for the builds that changed.
LEMMA OthersKeep ==
  ASSUME IInv, NEW i \in Invocations, NEW j \in Jobs, Do(i, j),
         j.op \notin {"stage", "extend", "finish"},
         NEW c \in Cycles,
         \A d \in Cycles : d # c => build'[d] = build[d] /\ entries'[d] = entries[d],
         build[c].state # "None" => build'[c].state # "None",
         build'[c].state # "Building",
         build'[c].state = "Cleaning" => build'[c].owner = {i}
  PROVE  /\ \A k \in Invocations : job'[k].op \in {"stage", "extend"} =>
              /\ build'[job'[k].cycle].state # "None"
              /\ build'[job'[k].cycle].state = "Building"
                   /\ build'[job'[k].cycle].owner = {k} =>
                   entries'[job'[k].cycle] = Pages \ job'[k].left
         /\ Finishing'
<1>1. \A k \in Invocations : job'[k] = IF k = i THEN j ELSE job[k]
  BY DEF Do, IInv, TypeOK
<1>2. ASSUME NEW k \in Invocations, job'[k].op \in {"stage", "extend"}
      PROVE  /\ build'[job'[k].cycle].state # "None"
             /\ build'[job'[k].cycle].state = "Building"
                  /\ build'[job'[k].cycle].owner = {k} =>
                  entries'[job'[k].cycle] = Pages \ job'[k].left
  <2>1. job'[k] = job[k] /\ k # i
    BY <1>1, <1>2
  <2>2. job[k].cycle \in Cycles
    BY <1>2, <2>1, JobFields DEF IInv
  <2> QED
    BY <1>2, <2>1, <2>2 DEF IInv, Staging
<1>3. ASSUME NEW k \in Invocations, job'[k].op = "finish",
             build'[job'[k].cycle].state = "Cleaning",
             build'[job'[k].cycle].owner = {k}
      PROVE  entries'[job'[k].cycle] = {}
  <2>1. job'[k] = job[k] /\ k # i
    BY <1>1, <1>3
  <2>2. job[k].cycle \in Cycles
    BY <1>3, <2>1, JobFields DEF IInv
  <2>3. job[k].cycle # c
    BY <1>3, <2>1
  <2> QED
    BY <1>3, <2>1, <2>2, <2>3 DEF IInv, Finishing
<1> QED
  BY <1>2, <1>3 DEF Finishing

LEMMA PublishStep ==
  ASSUME IInv, NEW i \in Invocations, NEW t, Publish(i, t)
  PROVE  IInv'
<1> DEFINE c == job[i].cycle
           a == [build[c] EXCEPT !.state = "Published"]
           b == [a EXCEPT !.lease = NoLease]
<1>0. /\ TypeOK /\ c \in Cycles /\ Idle \in Jobs /\ Idle.op = "idle"
      /\ header = {} /\ job[i].op = "stage" /\ job[i].left = {}
      /\ build[c].state = "Building" /\ build[c].owner = {i}
  BY JobFields DEF Publish, NoHeader, LeaseHeld, IInv, Jobs, Idle
<1>1. UNCHANGED << entries, history, clock >> /\ header' = {c} /\ Do(i, Idle)
  BY DEF Publish
<1>2. /\ \A d \in Cycles : d # c => build'[d] = build[d]
      /\ build'[c].state = "Published"
  BY <1>0 DEF Publish, TypeOK, Builds
<1>3. entries[c] = Pages
  BY <1>0 DEF IInv, Staging
<1>4. TypeOK'
  <2>0. build[c] \in Builds
    BY <1>0 DEF TypeOK
  <2>1. a \in Builds
    BY <2>0 DEF Builds, States
  <2>3. b \in Builds
    <3> HIDE DEF a
    <3> QED
      BY <2>1 DEF Builds, NoLease
  <2>2. build' = [build EXCEPT ![c] = b]
    BY DEF Publish
  <2> HIDE DEF b
  <2> QED
    BY <1>0, <1>1, <2>2, <2>3 DEF TypeOK, Do
<1>5. c \notin history
  BY <1>0 DEF IInv, RegisterComplete
<1>6. OneHeader'
  BY <1>1, <1>5 DEF OneHeader
<1>7. RegisterComplete'
  BY <1>0, <1>1, <1>2, <1>3 DEF IInv, RegisterComplete, TypeOK
<1>8. CleanedEmpty'
  BY <1>1, <1>2 DEF IInv, CleanedEmpty
<1>9. Staging' /\ Finishing'
  <2>1. \A d \in Cycles : build'[d].state = "None" => entries'[d] = {}
    BY <1>1, <1>2 DEF IInv, Staging
  <2>2. /\ \A k \in Invocations : job'[k].op \in {"stage", "extend"} =>
             /\ build'[job'[k].cycle].state # "None"
             /\ build'[job'[k].cycle].state = "Building"
                  /\ build'[job'[k].cycle].owner = {k} =>
                  entries'[job'[k].cycle] = Pages \ job'[k].left
        /\ Finishing'
    BY <1>0, <1>1, <1>2, OthersKeep
  <2> QED
    BY <2>1, <2>2 DEF Staging
<1> QED
  BY <1>4, <1>6, <1>7, <1>8, <1>9 DEF IInv

LEMMA ClaimStep ==
  ASSUME IInv, NEW i \in Invocations, NEW t, Claim(i, t)
  PROVE  IInv'
<1> DEFINE c == job[i].cycle
           b == [state |-> "Cleaning", owner |-> {i}, lease |-> t + Lease]
           j == [op |-> "scan", cycle |-> c, since |-> clock]
<1>0. TypeOK /\ c \in Cycles /\ t + Lease \in Int /\ build[c].state # "Published"
  BY JobFields, SampledNat DEF Claim, Claimable, IInv
<1>1. UNCHANGED << entries, header, history, clock >> /\ Do(i, j)
  BY DEF Claim
<1>2. build' = [build EXCEPT ![c] = b]
  BY DEF Claim
<1>3. j \in Jobs /\ b \in Builds
  BY <1>0 DEF TypeOK, Jobs, Builds, States
<1>4. /\ \A d \in Cycles : d # c => build'[d] = build[d]
      /\ build'[c].state = "Cleaning" /\ build'[c].owner = {i}
  BY <1>0, <1>2 DEF TypeOK
<1>5. TypeOK'
  <2> HIDE DEF b, j
  <2> QED
    BY <1>0, <1>1, <1>2, <1>3 DEF TypeOK, Do
<1>6. (OneHeader /\ CleanedEmpty /\ RegisterComplete)'
  BY <1>0, <1>1, <1>4 DEF IInv, OneHeader, CleanedEmpty, RegisterComplete
<1>7. Staging' /\ Finishing'
  <2>1. \A d \in Cycles : build'[d].state = "None" => entries'[d] = {}
    BY <1>1, <1>4 DEF IInv, Staging
  <2>2. /\ \A k \in Invocations : job'[k].op \in {"stage", "extend"} =>
             /\ build'[job'[k].cycle].state # "None"
             /\ build'[job'[k].cycle].state = "Building"
                  /\ build'[job'[k].cycle].owner = {k} =>
                  entries'[job'[k].cycle] = Pages \ job'[k].left
        /\ Finishing'
    BY <1>0, <1>1, <1>3, <1>4, OthersKeep
  <2> QED
    BY <2>1, <2>2 DEF Staging
<1> QED
  BY <1>5, <1>6, <1>7 DEF IInv

LEMMA DeletePageStep ==
  ASSUME IInv, NEW i \in Invocations, NEW t, DeletePage(i, t)
  PROVE  IInv'
<1> DEFINE c == job[i].cycle
           b == [build[c] EXCEPT !.lease = t + Lease]
           j == [op |-> "scan", cycle |-> c, since |-> clock]
<1>0. /\ TypeOK /\ c \in Cycles /\ t + Lease \in Int
      /\ build[c].state = "Cleaning" /\ build[c].owner = {i}
  BY JobFields, SampledNat DEF DeletePage, ClaimHeld, IInv
<1>1. UNCHANGED << header, history, clock >> /\ Do(i, j)
  BY DEF DeletePage
<1>2. /\ build' = [build EXCEPT ![c] = b]
      /\ entries' = [entries EXCEPT ![c] = @ \ {job[i].page}]
  BY DEF DeletePage
<1>3. j \in Jobs /\ b \in Builds
  BY <1>0 DEF TypeOK, Jobs, Builds
<1>4. /\ \A d \in Cycles : d # c => build'[d] = build[d] /\ entries'[d] = entries[d]
      /\ build'[c].state = "Cleaning" /\ build'[c].owner = {i}
      /\ entries'[c] \subseteq entries[c]
  BY <1>0, <1>2 DEF TypeOK, Builds
<1>5. TypeOK'
  <2> HIDE DEF b, j
  <2> QED
    BY <1>0, <1>1, <1>2, <1>3 DEF TypeOK, Do
<1>6. (OneHeader /\ CleanedEmpty)'
  BY <1>0, <1>1, <1>4 DEF IInv, OneHeader, CleanedEmpty
<1>7. RegisterComplete'
  <2>1. c \notin header \cup history
    BY <1>0 DEF IInv, RegisterComplete
  <2> QED
    BY <1>0, <1>1, <1>4, <2>1 DEF IInv, RegisterComplete, TypeOK
<1>8. Staging' /\ Finishing'
  <2>1. \A d \in Cycles : build'[d].state = "None" => entries'[d] = {}
    BY <1>4 DEF IInv, Staging
  <2>2. /\ \A k \in Invocations : job'[k].op \in {"stage", "extend"} =>
             /\ build'[job'[k].cycle].state # "None"
             /\ build'[job'[k].cycle].state = "Building"
                  /\ build'[job'[k].cycle].owner = {k} =>
                  entries'[job'[k].cycle] = Pages \ job'[k].left
        /\ Finishing'
    BY <1>0, <1>1, <1>3, <1>4, OthersKeep
  <2> QED
    BY <2>1, <2>2 DEF Staging
<1> QED
  BY <1>5, <1>6, <1>7, <1>8 DEF IInv

LEMMA FinishCleanupStep ==
  ASSUME IInv, NEW i \in Invocations, FinishCleanup(i)
  PROVE  IInv'
<1> DEFINE c == job[i].cycle
           a == [build[c] EXCEPT !.state = "Cleaned"]
           b == [a EXCEPT !.lease = NoLease]
<1>0. /\ TypeOK /\ c \in Cycles /\ Idle \in Jobs /\ Idle.op = "idle"
      /\ build[c].state = "Cleaning" /\ build[c].owner = {i}
      /\ job[i].op = "finish"
  BY JobFields DEF FinishCleanup, ClaimHeld, IInv, Jobs, Idle
<1>1. UNCHANGED << entries, header, history, clock >> /\ Do(i, Idle)
  BY DEF FinishCleanup
<1>2. build' = [build EXCEPT ![c] = b]
  BY DEF FinishCleanup
<1>3. b \in Builds
  <2>0. build[c] \in Builds
    BY <1>0 DEF TypeOK
  <2>1. a \in Builds
    BY <2>0 DEF Builds, States
  <2> HIDE DEF a
  <2> QED
    BY <2>1 DEF Builds, NoLease
<1>4. /\ \A d \in Cycles : d # c => build'[d] = build[d]
      /\ build'[c].state = "Cleaned"
  BY <1>0, <1>2 DEF TypeOK, Builds
<1>5. TypeOK'
  <2> HIDE DEF b
  <2> QED
    BY <1>0, <1>1, <1>2, <1>3 DEF TypeOK, Do
<1>6. entries[c] = {}
  BY <1>0 DEF IInv, Finishing
<1>7. (OneHeader /\ CleanedEmpty /\ RegisterComplete)'
  BY <1>0, <1>1, <1>4, <1>6 DEF IInv, OneHeader, CleanedEmpty, RegisterComplete
<1>8. Staging' /\ Finishing'
  <2>1. \A d \in Cycles : build'[d].state = "None" => entries'[d] = {}
    BY <1>1, <1>4 DEF IInv, Staging
  <2>2. /\ \A k \in Invocations : job'[k].op \in {"stage", "extend"} =>
             /\ build'[job'[k].cycle].state # "None"
             /\ build'[job'[k].cycle].state = "Building"
                  /\ build'[job'[k].cycle].owner = {k} =>
                  entries'[job'[k].cycle] = Pages \ job'[k].left
        /\ Finishing'
    BY <1>0, <1>1, <1>4, OthersKeep
  <2> QED
    BY <2>1, <2>2 DEF Staging
<1> QED
  BY <1>5, <1>7, <1>8 DEF IInv

LEMMA ReopenStep ==
  ASSUME IInv, Reopen
  PROVE  IInv'
<1>1. TypeOK' /\ OneHeader' /\ CleanedEmpty'
  BY DEF IInv, Reopen, TypeOK, OneHeader, CleanedEmpty
<1>2. RegisterComplete'
  BY DEF IInv, Reopen, RegisterComplete
<1>3. Staging' /\ Finishing'
  BY DEF IInv, Reopen, Staging, Finishing
<1> QED
  BY <1>1, <1>2, <1>3 DEF IInv

LEMMA TickStep ==
  ASSUME IInv, Tick
  PROVE  IInv'
<1>1. TypeOK' /\ OneHeader' /\ CleanedEmpty' /\ RegisterComplete'
  BY TimeAssumption
     DEF IInv, Tick, TypeOK, OneHeader, CleanedEmpty, RegisterComplete
<1>2. Staging' /\ Finishing'
  BY DEF IInv, Tick, Staging, Finishing
<1> QED
  BY <1>1, <1>2 DEF IInv

LEMMA StutterStep ==
  ASSUME IInv, UNCHANGED vars
  PROVE  IInv'
BY DEF IInv, vars, TypeOK, OneHeader, RegisterComplete, CleanedEmpty, Staging,
       Finishing

\* The inductive invariant holds in every reachable state.
THEOREM InvariantHolds == Spec => []IInv
<1>1. ASSUME IInv, Next PROVE IInv'
  <2>1. ASSUME NEW i \in Invocations, Generate(i) PROVE IInv'
    BY <1>1, <2>1, BeginStep, PutBuildStep, StagePageStep, ExtendLeaseStep,
       PublishStep DEF Generate
  <2>2. ASSUME NEW i \in Invocations, Cleanup(i) PROVE IInv'
    BY <1>1, <2>2, StartCleanupStep, ClaimStep, ScanStep, DeletePageStep,
       FinishCleanupStep DEF Cleanup
  <2>3. ASSUME NEW i \in Invocations, Abandon(i) PROVE IInv'
    BY <1>1, <2>3, AbandonStep
  <2>4. CASE Reopen
    BY <1>1, <2>4, ReopenStep
  <2>5. CASE Tick
    BY <1>1, <2>5, TickStep
  <2> QED
    BY <1>1, <2>1, <2>2, <2>3, <2>4, <2>5 DEF Next
<1>2. IInv /\ [Next]_vars => IInv'
  BY <1>1, StutterStep
<1> QED
  BY InitIInv, <1>2, PTL DEF Spec

\* No visible or reopened register ever misses an entry.
THEOREM RegistersComplete == Spec => []RegisterComplete
<1>1. IInv => RegisterComplete
  BY DEF IInv
<1> QED
  BY <1>1, InvariantHolds, PTL

\* A finished cleanup leaves no entry, and none appears afterwards.
THEOREM CleanedStaysEmpty == Spec => []CleanedEmpty
<1>1. IInv => CleanedEmpty
  BY DEF IInv
<1> QED
  BY <1>1, InvariantHolds, PTL

\* A build is published for good or cleaned for good, whatever races.
THEOREM BuildsMeetOneFate == Spec => OneFate
<1> DEFINE Fate(c) ==
      /\ build[c].state = "Published" =>
           build'[c] = build[c] /\ entries'[c] = entries[c]
      /\ build[c].state \in {"Cleaning", "Cleaned"} =>
           /\ build'[c].state \in {"Cleaning", "Cleaned"}
           /\ entries'[c] \subseteq entries[c]
<1>1. ASSUME IInv, Next, NEW c \in Cycles PROVE Fate(c)
  <2>0. TypeOK
    BY <1>1 DEF IInv
  <2>1. ASSUME NEW i \in Invocations, Generate(i) PROVE Fate(c)
    <3>1. ASSUME NEW d \in Cycles, NEW t, PutBuild(i, d, t) PROVE Fate(c)
      BY <2>0, <3>1 DEF PutBuild, NoBuild, TypeOK
    <3>2. ASSUME NEW p \in Pages, NEW t, StagePage(i, p, t) PROVE Fate(c)
      BY <2>0, <3>2 DEF StagePage, LeaseHeld, TypeOK
    <3>3. ASSUME NEW t, ExtendLease(i, t) PROVE Fate(c)
      BY <2>0, <3>3 DEF ExtendLease, TypeOK
    <3>4. ASSUME NEW t, Publish(i, t) PROVE Fate(c)
      BY <2>0, <3>4 DEF Publish, LeaseHeld, TypeOK
    <3>5. CASE Begin(i)
      BY <3>5 DEF Begin
    <3> QED
      BY <2>1, <3>1, <3>2, <3>3, <3>4, <3>5 DEF Generate
  <2>2. ASSUME NEW i \in Invocations, Cleanup(i) PROVE Fate(c)
    <3>0. job[i].op = "claim" => job[i].cycle \in Cycles
      BY <2>0, JobFields
    <3>1. ASSUME NEW t, Claim(i, t) PROVE Fate(c)
      <4>1. build[job[i].cycle].state # "Published" /\ UNCHANGED entries
        BY <3>1 DEF Claim, Claimable
      <4>2. c # job[i].cycle => build'[c] = build[c]
        BY <2>0, <3>1 DEF Claim, TypeOK
      <4>3. build'[job[i].cycle].state = "Cleaning"
        BY <2>0, <3>0, <3>1 DEF Claim, TypeOK
      <4> QED
        BY <4>1, <4>2, <4>3
    <3>2. ASSUME NEW t, DeletePage(i, t) PROVE Fate(c)
      <4>1. build[job[i].cycle].state = "Cleaning"
        BY <3>2 DEF DeletePage, ClaimHeld
      <4>2. /\ c # job[i].cycle => build'[c] = build[c] /\ entries'[c] = entries[c]
            /\ build'[c].state = build[c].state
            /\ entries'[c] \subseteq entries[c]
        BY <2>0, <3>2 DEF DeletePage, TypeOK, Builds
      <4> QED
        BY <4>1, <4>2
    <3>3. CASE FinishCleanup(i)
      <4>1. build[job[i].cycle].state = "Cleaning" /\ UNCHANGED entries
        BY <3>3 DEF FinishCleanup, ClaimHeld
      <4>2. /\ c # job[i].cycle => build'[c] = build[c]
            /\ c = job[i].cycle => build'[c].state = "Cleaned"
        BY <2>0, <3>3 DEF FinishCleanup, TypeOK, Builds
      <4> QED
        BY <4>1, <4>2
    <3>4. CASE Scan(i) \/ \E d \in Cycles : StartCleanup(i, d)
      BY <3>4 DEF Scan, StartCleanup
    <3> QED
      BY <2>2, <3>1, <3>2, <3>3, <3>4 DEF Cleanup
  <2>3. ASSUME NEW i \in Invocations, Abandon(i) PROVE Fate(c)
    BY <2>3 DEF Abandon
  <2>4. CASE Reopen \/ Tick
    BY <2>4 DEF Reopen, Tick
  <2> QED
    BY <1>1, <2>1, <2>2, <2>3, <2>4 DEF Next
<1>2. IInv /\ [Next]_vars => [\A c \in Cycles : Fate(c)]_vars
  BY <1>1
<1> QED
  BY <1>2, InvariantHolds, PTL DEF Spec, OneFate

\* A reader sees no register or a complete one, changed by one atomic publish
\* or reopen: PayrollBuild implements Register.
THEOREM ImplementsRegister == Spec => RegisterSpec
<1>1. Init => R!Init
  BY DEF Init, R!Init, visible
<1>2. ASSUME IInv, IInv', Next PROVE [R!Next]_visible
  <2>0. TypeOK /\ RegisterComplete /\ RegisterComplete' /\ OneHeader
    BY <1>2 DEF IInv
  <2>1. ASSUME UNCHANGED header PROVE UNCHANGED visible
    <3>1. \A c \in header : entries[c] = Pages /\ entries'[c] = Pages
      BY <2>0, <2>1 DEF RegisterComplete
    <3> QED
      BY <2>1, <3>1 DEF visible
  <2>2. ASSUME NEW i \in Invocations, NEW t, Publish(i, t) PROVE R!Next
    <3> DEFINE c == job[i].cycle
    <3>1. c \in Cycles /\ header = {} /\ header' = {c}
      BY <2>0, <2>2, JobFields DEF Publish, NoHeader
    <3>2. entries'[c] = Pages
      BY <2>0, <3>1 DEF RegisterComplete
    <3>3. visible = {} /\ visible' = {R!Complete(c)}
      BY <3>1, <3>2 DEF visible, R!Complete
    <3> QED
      BY <3>1, <3>3 DEF R!Next, R!Publish
  <2>3. CASE Reopen
    <3>0. header # {} /\ header' = {}
      BY <2>3 DEF Reopen
    <3>1. visible # {} /\ visible' = {}
      BY <3>0 DEF visible
    <3> QED
      BY <3>1 DEF R!Next, R!Reopen
  <2>4. ASSUME NEW i \in Invocations, Generate(i) PROVE [R!Next]_visible
    <3>1. (\E t \in Times : Publish(i, t)) \/ UNCHANGED header
      BY <2>4, Zenon
         DEF Generate, Begin, PutBuild, StagePage, ExtendLease
    <3> QED
      BY <2>1, <2>2, <3>1
  <2>5. ASSUME NEW i \in Invocations, Cleanup(i) PROVE UNCHANGED header
    BY <2>5, Zenon
       DEF Cleanup, StartCleanup, Claim, Scan, DeletePage, FinishCleanup
  <2>6. ASSUME NEW i \in Invocations, Abandon(i) PROVE UNCHANGED header
    BY <2>6, Zenon DEF Abandon
  <2>7. CASE Tick
    BY <2>1, <2>7 DEF Tick
  <2> QED
    BY <1>2, <2>1, <2>3, <2>4, <2>5, <2>6, <2>7 DEF Next
<1>3. IInv /\ IInv' /\ [Next]_vars => [R!Next]_visible
  BY <1>2 DEF vars, visible
<1> QED
  BY <1>1, <1>3, InvariantHolds, PTL DEF Spec, RegisterSpec, R!Spec
=============================================================================
