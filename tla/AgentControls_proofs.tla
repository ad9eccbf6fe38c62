------------------------ MODULE AgentControls_proofs ------------------------
(***************************************************************************)
(* What the verdicts of the agent controls mean, for any values of their   *)
(* constants: the approval command lines, the command broker, the network  *)
(* boundary, the runtime state, resource budgets, containment and the hook *)
(* failure boundary.                                                       *)
(***************************************************************************)
EXTENDS ApprovalCommands, CommandBroker, NetworkBoundary, RuntimeEvidence,
        ResourceBudget, RogueContainment, HookBoundary, TLAPS

(* Approval command lines.                                                 *)

(* The ledger has a row for everything that was granted, and the copy of   *)
(* the replay state one for everything granted before it.                  *)
GrantRow(g, rows) ==
    \E row \in rows : row.approval = g.doc.id /\ row.digest = CanonicalDigest(g.request)

FieldsOf(d) ==
    [id |-> d.id, names |-> d.names, reviewed |-> d.reviewed, approver |-> d.approver,
     approved |-> d.approved, issued |-> d.issued, expires |-> d.expires]

CommandsInv ==
    /\ hour \in Nat
    /\ asked \in RequestFiles \cup {NoRequest}
    /\ \A d \in signedDocs :
         /\ d.names \in RequestFiles /\ d.issued \in Nat /\ d.expires \in Nat
         /\ d = FieldsOf(d)
    /\ \E S : grants \in Seq(S)
    /\ replayCopy = [rows |-> replayCopy.rows, grants |-> replayCopy.grants]
    /\ replayCopy.grants \in 0..Len(grants)
    /\ \A i \in 1..Len(grants) : GrantRow(grants[i], usedRows)
    /\ \A i \in 1..replayCopy.grants : GrantRow(grants[i], replayCopy.rows)
    /\ GrantedAsReviewed

(* What a single authorization promises                                    *)
GrantSound(g) ==
    /\ g.request = g.doc.reviewed /\ g.doc.approver # g.request.actor
    /\ g.doc.approved /\ g.trusted = "active"
    /\ g.stated \in g.doc.issued..(g.doc.issued + MaxApprovalTtl)

(* The first half of the property, for each grant and for each pair.       *)
LEMMA GrantedByParts ==
    ASSUME DOMAIN grants = 1..Len(grants)
    PROVE  GrantedAsReviewed <=>
             /\ \A i \in 1..Len(grants) : GrantSound(grants[i])
             /\ \A i, j \in 1..Len(grants) : i # j =>
                  grants[i].doc.id # grants[j].doc.id /\ grants[i].request # grants[j].request
             /\ passReport # NoReport =>
                  /\ passReport.doc.approver # asked.actor /\ passReport.doc.names = asked
                  /\ \A i \in 1..replayCopy.grants :
                        grants[i].doc.id # passReport.doc.id /\ grants[i].request # asked
BY DEF GrantedAsReviewed, GrantSound

(* A document bound to a request names that request.                       *)
LEMMA BoundNames ==
    ASSUME NEW d, NEW r \in RequestFiles, d.names \in RequestFiles, DocBound(d, r)
    PROVE  d.names = r /\ d.approver # r.actor
<1>1. d.names.actor = r.actor /\ d.names.session = r.session
  BY DEF DocBound, BindingFields
<1>2. d.names = [actor |-> d.names.actor, session |-> d.names.session]
      /\ r = [actor |-> r.actor, session |-> r.session]
  BY DEF RequestFiles
<1> QED
  BY <1>1, <1>2 DEF DocBound, Independent

(* What is not replayed is neither an approval nor a request of a row.     *)
LEMMA NotGranted ==
    ASSUME NEW d, NEW r, NEW rows, NotReplayed(d, r, rows), NEW g, GrantRow(g, rows)
    PROVE  g.doc.id # d.id /\ g.request # r
BY DEF NotReplayed, GrantRow

(* Steps that change neither requests nor documents nor what was granted.  *)
LEMMA GrantsKept ==
    ASSUME CommandsInv, passReport = NoReport, UNCHANGED <<grants, passReport>>
    PROVE  GrantedAsReviewed'
BY DEF CommandsInv, GrantedAsReviewed

(* What the command line allows is what was reviewed, and is new to the    *)
(* ledger: no earlier grant has its approval or its request.               *)
LEMMA AuthorizedOnce ==
    ASSUME CommandsInv, passReport = NoReport, NEW d \in signedDocs,
           NEW stated \in 0..MaxApprovalTime, AuthorizeSigned(d, stated)
    PROVE  CommandsInv'
<1>0. MaxApprovalTtl \in Nat /\ MaxApprovalTime \in Nat
  BY CommandsAssumption
<1> DEFINE g == [doc |-> d, request |-> asked, stated |-> stated, trusted |-> issuerKey]
           row == [approval |-> d.id, digest |-> CanonicalDigest(asked)]
<1>1. /\ issuerKey = "active" /\ SignatureOk(d) /\ DocBound(d, asked) /\ DocInTime(d, stated)
      /\ NotReplayed(d, asked, usedRows) /\ asked \in RequestFiles
      /\ usedRows' = usedRows \cup {row} /\ grants' = Append(grants, g)
      /\ UNCHANGED <<hour, asked, signedDocs, issuerKey, replayCopy, passReport>>
  BY DEF AuthorizeSigned, EvaluationPassed, KeyTrusted, CommandsInv
<1>2. /\ g.doc = d /\ g.request = asked /\ g.stated = stated /\ g.trusted = issuerKey
      /\ row.approval = d.id /\ row.digest = CanonicalDigest(asked)
  OBVIOUS
<1> HIDE DEF g, row
<1>3. d.names = asked /\ d.approver # asked.actor /\ d.names = d.reviewed
  BY <1>1, BoundNames DEF CommandsInv, SignatureOk
<1>4. stated \in d.issued..(d.issued + MaxApprovalTtl) /\ d.approved
  <2>1. d.issued <= stated /\ stated < d.expires /\ d.expires - d.issued <= MaxApprovalTtl
        /\ d.approved
    BY <1>1 DEF DocInTime
  <2>2. d.issued \in Nat /\ d.expires \in Nat /\ stated \in Int
    BY <1>0 DEF CommandsInv
  <2> QED
    BY <2>1, <2>2, <1>0
<1>5. GrantSound(g)
  BY <1>1, <1>2, <1>3, <1>4 DEF GrantSound
<1>6. PICK S : grants \in Seq(S)
  BY DEF CommandsInv
<1>7. grants \in Seq(S \cup {g}) /\ g \in S \cup {g}
  BY <1>6
<1>8. /\ grants' \in Seq(S \cup {g}) /\ DOMAIN grants' = 1..Len(grants')
      /\ Len(grants) \in Nat /\ Len(grants') = Len(grants) + 1
      /\ \A i \in 1..Len(grants) : grants'[i] = grants[i]
      /\ grants'[Len(grants')] = g
      /\ DOMAIN grants = 1..Len(grants)
  BY <1>1, <1>7
<1>9. \A i \in 1..Len(grants') : i \in 1..Len(grants) \/ i = Len(grants')
  BY <1>8
<1>10. \A i \in 1..Len(grants) :
          grants[i].doc.id # g.doc.id /\ grants[i].request # g.request
  BY <1>1, <1>2, NotGranted DEF CommandsInv
<1>11. /\ \A i \in 1..Len(grants) : GrantSound(grants[i])
       /\ \A i, j \in 1..Len(grants) : i # j =>
            grants[i].doc.id # grants[j].doc.id /\ grants[i].request # grants[j].request
  BY <1>8, GrantedByParts DEF CommandsInv
<1>12. \A i \in 1..Len(grants') : GrantSound(grants'[i])
  BY <1>5, <1>8, <1>9, <1>11
<1>13. \A i, j \in 1..Len(grants') : i # j =>
          grants'[i].doc.id # grants'[j].doc.id /\ grants'[i].request # grants'[j].request
  BY <1>8, <1>9, <1>10, <1>11
<1>14. GrantedAsReviewed'
  BY <1>1, <1>8, <1>12, <1>13 DEF GrantedAsReviewed, GrantSound
<1>15. \A i \in 1..Len(grants') : GrantRow(grants'[i], usedRows')
  BY <1>1, <1>2, <1>8, <1>9 DEF GrantRow, CommandsInv
<1>16. \A i \in 1..replayCopy.grants : GrantRow(grants'[i], replayCopy.rows)
  BY <1>8 DEF CommandsInv
<1>17. replayCopy.grants \in 0..Len(grants')
  BY <1>8 DEF CommandsInv
<1>18. \E T : grants' \in Seq(T)
  BY <1>8
<1> QED
  BY <1>1, <1>14, <1>15, <1>16, <1>17, <1>18 DEF CommandsInv

(* What verify-approval.py passes is in no row of its copy of the replay   *)
(* state, and so was not granted when the copy was made.                   *)
LEMMA PassedUngranted ==
    ASSUME CommandsInv, passReport = NoReport, NEW d \in signedDocs, NEW stated,
           VerifyApproval(d, stated)
    PROVE  CommandsInv'
<1>1. /\ DocBound(d, asked) /\ NotReplayed(d, asked, replayCopy.rows) /\ asked \in RequestFiles
      /\ passReport'.doc = d
      /\ UNCHANGED <<hour, asked, signedDocs, issuerKey, usedRows, replayCopy, grants>>
  BY DEF VerifyApproval, EvaluationPassed, CommandsInv
<1>2. d.names = asked /\ d.approver # asked.actor
  BY <1>1, BoundNames DEF CommandsInv
<1>3. \A i \in 1..replayCopy.grants : grants[i].doc.id # d.id /\ grants[i].request # asked
  BY <1>1, NotGranted DEF CommandsInv
<1>4. GrantedAsReviewed'
  BY <1>1, <1>2, <1>3 DEF GrantedAsReviewed, CommandsInv
<1> QED
  BY <1>1, <1>4 DEF CommandsInv, GrantRow

(* CommandsGrantedAsReviewed: authorize-signed-approval.py allows only     *)
(* what was reviewed, by another, under a trusted key, in time and once,   *)
(* and verify-approval.py passes nothing that its copy of the replay state *)
(* has, for any people, sessions, documents and stated times.              *)
THEOREM CommandsGrantedAsReviewed == CommandsSpec => []GrantedAsReviewed
<1>1. CommandsInit => CommandsInv
  <2> SUFFICES ASSUME CommandsInit PROVE CommandsInv
    OBVIOUS
  <2>1. grants = <<>> /\ <<>> \in Seq({}) /\ Len(<<>>) = 0 /\ DOMAIN <<>> = {}
    BY DEF CommandsInit
  <2>2. replayCopy.rows = {} /\ replayCopy.grants = 0
    BY DEF CommandsInit
  <2>3. GrantedAsReviewed
    BY <2>1 DEF CommandsInit, GrantedAsReviewed
  <2> QED
    BY <2>1, <2>2, <2>3 DEF CommandsInit, CommandsInv
<1>2. CommandsInv /\ [CommandsNext]_commandVars => CommandsInv'
  <2> SUFFICES ASSUME CommandsInv, [CommandsNext]_commandVars PROVE CommandsInv'
    OBVIOUS
  <2>1. CASE UNCHANGED commandVars
    BY <2>1 DEF commandVars, CommandsInv, GrantedAsReviewed, GrantRow
  <2>2. CASE CommandsNext
    <3>0. passReport = NoReport
      BY <2>2 DEF CommandsNext
    <3>1. CASE RevokeIssuer
      BY <3>0, <3>1, GrantsKept DEF RevokeIssuer, CommandsInv, GrantRow
    <3>2. CASE ExportReplay
      <4>1. /\ replayCopy' = [rows |-> usedRows, grants |-> Len(grants)]
            /\ UNCHANGED <<hour, asked, signedDocs, issuerKey, usedRows, grants, passReport>>
        BY <3>2 DEF ExportReplay
      <4>2. /\ replayCopy' = [rows |-> replayCopy'.rows, grants |-> replayCopy'.grants]
            /\ replayCopy'.rows = usedRows /\ replayCopy'.grants = Len(grants)
            /\ Len(grants) \in 0..Len(grants)
        BY <4>1 DEF CommandsInv
      <4>3. GrantedAsReviewed'
        BY <3>0, <4>1, GrantsKept
      <4> QED
        BY <4>1, <4>2, <4>3 DEF CommandsInv, GrantRow
    <3>3. CASE HourPasses
      BY <3>0, <3>3, GrantsKept DEF HourPasses, CommandsInv, GrantRow
    <3>4. ASSUME NEW p \in People, NEW s \in AgentSessions, Propose(p, s) PROVE CommandsInv'
      <4>1. [actor |-> p, session |-> s] \in RequestFiles
        BY DEF RequestFiles
      <4> QED
        BY <4>1, <3>0, <3>4, GrantsKept DEF Propose, CommandsInv, GrantRow
    <3>5. ASSUME NEW r \in RequestFiles, NEW p \in People, NEW answer \in Answers,
                 SignDoc(r, p, answer)
          PROVE  CommandsInv'
      <4> DEFINE new == [id |-> Cardinality(signedDocs) + 1, names |-> r, reviewed |-> r,
                         approver |-> p, approved |-> answer.approved, issued |-> hour,
                         expires |-> hour + answer.ttl]
      <4>1. signedDocs' = signedDocs \cup {new}
            /\ UNCHANGED <<hour, asked, issuerKey, usedRows, replayCopy, grants, passReport>>
        BY <3>5 DEF SignDoc
      <4>2. answer.ttl \in Nat
        <5>1. answer = [approved |-> TRUE, ttl |-> MaxApprovalTtl]
              \/ \E f \in {"approved", "ttl"} :
                   answer = [[approved |-> TRUE, ttl |-> MaxApprovalTtl] EXCEPT
                               ![f] = [approved |-> FALSE, ttl |-> MaxApprovalTtl + 1][f]]
          BY DEF Answers, OneOff
        <5> QED
          BY <5>1, CommandsAssumption
      <4>3. /\ new.names \in RequestFiles /\ new.issued \in Nat /\ new.expires \in Nat
            /\ new = FieldsOf(new)
        BY <4>2 DEF CommandsInv, FieldsOf
      <4> HIDE DEF new
      <4> QED
        BY <4>1, <4>3, <3>0, GrantsKept DEF CommandsInv, GrantRow
    <3>6. ASSUME NEW d \in signedDocs, NEW r \in RequestFiles, EditDoc(d, r)
          PROVE  CommandsInv'
      <4>1. /\ signedDocs' = (signedDocs \ {d}) \cup {[d EXCEPT !.names = r]}
            /\ UNCHANGED <<hour, asked, issuerKey, usedRows, replayCopy, grants, passReport>>
        BY <3>6 DEF EditDoc
      <4> DEFINE edited == [id |-> d.id, names |-> r, reviewed |-> d.reviewed,
                            approver |-> d.approver, approved |-> d.approved,
                            issued |-> d.issued, expires |-> d.expires]
      <4>2. d = FieldsOf(d) /\ d.issued \in Nat /\ d.expires \in Nat
        BY DEF CommandsInv
      <4>3. [FieldsOf(d) EXCEPT !.names = r] = edited
        BY DEF FieldsOf
      <4>4. [d EXCEPT !.names = r] = edited
        BY <4>2, <4>3
      <4>5. /\ edited.names \in RequestFiles /\ edited.issued \in Nat
            /\ edited.expires \in Nat /\ edited = FieldsOf(edited)
        BY <4>2 DEF FieldsOf
      <4> HIDE DEF edited
      <4>6. signedDocs' = (signedDocs \ {d}) \cup {edited}
        BY <4>1, <4>4
      <4>7. \A e \in signedDocs' :
              /\ e.names \in RequestFiles /\ e.issued \in Nat /\ e.expires \in Nat
              /\ e = FieldsOf(e)
        BY <4>5, <4>6 DEF CommandsInv
      <4> QED
        BY <4>1, <4>7, <3>0, GrantsKept DEF CommandsInv, GrantRow
    <3>7. ASSUME NEW d \in signedDocs, NEW stated \in 0..MaxApprovalTime,
                 VerifyApproval(d, stated)
          PROVE  CommandsInv'
      BY <3>0, <3>7, PassedUngranted
    <3>8. ASSUME NEW d \in signedDocs, NEW stated \in 0..MaxApprovalTime,
                 AuthorizeSigned(d, stated)
          PROVE  CommandsInv'
      BY <3>0, <3>8, AuthorizedOnce
    <3> QED
      BY <2>2, <3>1, <3>2, <3>3, <3>4, <3>5, <3>6, <3>7, <3>8 DEF CommandsNext
  <2> QED
    BY <2>1, <2>2
<1>3. CommandsInv => GrantedAsReviewed
  BY DEF CommandsInv
<1> QED
  BY <1>1, <1>2, <1>3, PTL DEF CommandsSpec
-----------------------------------------------------------------------------
(* Command broker.                                                         *)

(* What the engine has resolved: nothing comes of an opaque command.       *)
Resolved(form, r) ==
    /\ r.argv \in Argvs \cup {NoArgv}
    /\ form = "opaque" => r.status # "complete"

(* Everything that was run is a case of the evidence.                      *)
BrokerInv ==
    /\ alias \in Argvs \cup {NoArgv}
    /\ pending # NoCommand => Resolved(pending.form, pending.resolved)
    /\ \E S : cases \in Seq(S)
    /\ \A i \in 1..Len(cases) : Resolved(cases[i].form, cases[i].resolved)
    /\ \A r \in ran : \E i \in 1..Len(cases) :
         /\ r.resolved = cases[i].resolved.argv
         /\ cases[i].observed.decision # "deny"
         /\ r.approved = (IF cases[i].observed.hitl = "none" THEN "nobody"
                          ELSE cases[i].observed.action)
    /\ PassRanWithinPolicy

(* A case that passes and was run, was run as its class demands.           *)
LEMMA PassedCase ==
    ASSUME NEW c, Resolved(c.form, c.resolved), CasePasses(c),
           c.observed.decision # "deny",
           NEW approved,
           approved = (IF c.observed.hitl = "none" THEN "nobody" ELSE c.observed.action)
    PROVE  /\ c.resolved.argv # NoArgv
           /\ IF c.resolved.argv.operation = "status" THEN approved = "nobody"
              ELSE /\ c.resolved.argv.operation = "push"
                   /\ approved = (IF c.resolved.argv.force = "long" THEN "push-force"
                                  ELSE "push")
<1> DEFINE argv == c.resolved.argv
<1>1. c.resolved.status = "complete"
  BY DEF CasePasses, ClassifyCase
<1>2. /\ c.form # "opaque"
      /\ c.observed.decision = ClassifyResolved(argv).decision
      /\ c.observed.action = ClassifyResolved(argv).action
      /\ c.observed.hitl = (IF ClassifyResolved(argv).decision = "require-bound-approval"
                            THEN "one-bound-approval" ELSE "none")
  BY <1>1 DEF CasePasses, ClassifyCase, Resolved
<1>3. argv.operation \in {"status", "push", "unlisted", "none"}
  BY DEF Resolved, Argvs, NoArgv
<1> HIDE DEF argv
<1>4. CASE argv.operation = "status"
  <2>1. ClassifyResolved(argv) = [decision |-> "allow", action |-> "read-only"]
    BY <1>4 DEF ClassifyResolved, PolicyOperation, ReadOnly, HighImpact
  <2>2. approved = "nobody"
    BY <1>2, <2>1
  <2> QED
    BY <1>2, <1>4, <2>2 DEF argv, NoArgv
<1>5. CASE argv.operation = "push"
  <2>1. PolicyOperation(argv) = (IF argv.force = "long" THEN "push-force" ELSE "push")
    BY <1>5 DEF PolicyOperation
  <2>2. ClassifyResolved(argv) =
          [decision |-> "require-bound-approval", action |-> PolicyOperation(argv)]
    BY <1>5, <2>1 DEF ClassifyResolved, ReadOnly, HighImpact
  <2>3. approved = PolicyOperation(argv)
    BY <1>2, <2>2
  <2> QED
    BY <1>2, <1>5, <2>1, <2>3 DEF argv, NoArgv
<1>6. CASE argv.operation \in {"unlisted", "none"}
  <2>1. PolicyOperation(argv) = argv.operation
    BY <1>6 DEF PolicyOperation
  <2>2. ClassifyResolved(argv) = [decision |-> "deny", action |-> "none"]
    BY <1>6, <2>1 DEF ClassifyResolved, ReadOnly, HighImpact
  <2> QED
    BY <1>2, <2>2
<1> QED
  BY <1>3, <1>4, <1>5, <1>6

(* BrokerPassRanWithinPolicy: evidence that passes the broker verifier is  *)
(* of commands that could all be resolved; those that ran as they were     *)
(* resolved were read-only, or approved as the push that the verifier's    *)
(* tables see in them, for any number of commands and any changes of       *)
(* aliases between them.                                                   *)
THEOREM BrokerPassRanWithinPolicy == BrokerSpec => []PassRanWithinPolicy
<1>1. BrokerInit => BrokerInv
  <2> SUFFICES ASSUME BrokerInit PROVE BrokerInv
    OBVIOUS
  <2>1. cases = <<>> /\ <<>> \in Seq({}) /\ Len(<<>>) = 0
    BY DEF BrokerInit
  <2> QED
    BY <2>1 DEF BrokerInit, BrokerInv, PassRanWithinPolicy
<1>2. BrokerInv /\ [BrokerNext]_brokerVars => BrokerInv'
  <2> SUFFICES ASSUME BrokerInv, [BrokerNext]_brokerVars PROVE BrokerInv'
    OBVIOUS
  <2>1. CASE UNCHANGED brokerVars
    BY <2>1 DEF brokerVars, BrokerInv, PassRanWithinPolicy, Resolved
  <2>2. CASE BrokerNext
    <3>0. assessed # "PASS"
      BY <2>2 DEF BrokerNext
    <3>1. ASSUME NEW argv \in Argvs \cup {NoArgv}, SetAlias(argv) PROVE BrokerInv'
      BY <3>0, <3>1 DEF SetAlias, BrokerInv, PassRanWithinPolicy, Resolved
    <3>2. ASSUME NEW form \in CommandForms, NEW argv \in Argvs, Resolve(form, argv)
          PROVE  BrokerInv'
      <4>1. Resolved(form, Resolution(form, argv))
        <5>1. CASE form \in {"direct-argv", "wrapped-argv"}
          BY <5>1 DEF Resolution, Resolved
        <5>2. CASE form = "git-alias" /\ alias # NoArgv
          BY <5>2 DEF Resolution, Resolved, BrokerInv
        <5>3. CASE form = "git-alias" /\ alias = NoArgv
          BY <5>3 DEF Resolution, Resolved
        <5>4. CASE form = "opaque"
          BY <5>4 DEF Resolution, Resolved
        <5> QED
          BY <5>1, <5>2, <5>3, <5>4 DEF CommandForms
      <4>2. /\ pending'.form = form /\ pending'.resolved = Resolution(form, argv)
            /\ UNCHANGED <<alias, cases, ran, assessed>>
        BY <3>2 DEF Resolve
      <4>3. Resolved(pending.form, pending.resolved)'
        BY <4>1, <4>2 DEF Resolved
      <4> QED
        BY <3>0, <4>2, <4>3 DEF BrokerInv, PassRanWithinPolicy, Resolved
    <3>3. ASSUME NEW o \in Observed, Decide(o) PROVE BrokerInv'
      <4> DEFINE c == [form |-> pending.form, resolved |-> pending.resolved, observed |-> o]
                 Run(argv) == [resolved |-> pending.resolved.argv, argv |-> argv,
                               approved |-> IF o.hitl = "none" THEN "nobody" ELSE o.action]
      <4>0. PICK argv \in WhatRuns(pending) :
              ran' = IF o.decision = "deny" THEN ran ELSE ran \cup {Run(argv)}
        BY <3>3 DEF Decide
      <4> DEFINE r == Run(argv)
      <4>1. /\ cases' = Append(cases, c)
            /\ ran' = IF o.decision = "deny" THEN ran ELSE ran \cup {r}
            /\ pending' = NoCommand /\ UNCHANGED <<alias, assessed>>
        BY <3>3, <4>0 DEF Decide
      <4>2. /\ c.form = pending.form /\ c.resolved = pending.resolved /\ c.observed = o
            /\ Resolved(c.form, c.resolved)
            /\ r.resolved = c.resolved.argv
            /\ r.approved = (IF c.observed.hitl = "none" THEN "nobody" ELSE c.observed.action)
        BY <3>3 DEF Decide, BrokerInv
      <4> HIDE DEF c, r
      <4>3. PICK S : cases \in Seq(S)
        BY DEF BrokerInv
      <4>4. cases \in Seq(S \cup {c}) /\ c \in S \cup {c}
        BY <4>3
      <4>5. /\ cases' \in Seq(S \cup {c})
            /\ Len(cases) \in Nat /\ Len(cases') = Len(cases) + 1
            /\ \A i \in 1..Len(cases) : cases'[i] = cases[i]
            /\ cases'[Len(cases) + 1] = c
        BY <4>1, <4>4
      <4>6. \A i \in 1..Len(cases') : i \in 1..Len(cases) \/ i = Len(cases) + 1
        BY <4>5
      <4>7. \A i \in 1..Len(cases') : Resolved(cases'[i].form, cases'[i].resolved)
        BY <4>2, <4>5, <4>6 DEF BrokerInv
      <4>8. ASSUME NEW x \in ran'
            PROVE  \E i \in 1..Len(cases') :
                     /\ x.resolved = cases'[i].resolved.argv
                     /\ cases'[i].observed.decision # "deny"
                     /\ x.approved = (IF cases'[i].observed.hitl = "none" THEN "nobody"
                                      ELSE cases'[i].observed.action)
        <5>1. CASE x \in ran
          <6>1. PICK i \in 1..Len(cases) :
                  /\ x.resolved = cases[i].resolved.argv
                  /\ cases[i].observed.decision # "deny"
                  /\ x.approved = (IF cases[i].observed.hitl = "none" THEN "nobody"
                                   ELSE cases[i].observed.action)
            BY <5>1 DEF BrokerInv
          <6>2. i \in 1..Len(cases') /\ cases'[i] = cases[i]
            BY <4>5
          <6> QED
            BY <6>1, <6>2
        <5>2. CASE o.decision # "deny" /\ x = r
          <6>1. Len(cases) + 1 \in 1..Len(cases')
            BY <4>5
          <6> QED
            BY <4>2, <4>5, <5>2, <6>1
        <5> QED
          BY <4>1, <5>1, <5>2
      <4>9. (\E T : cases \in Seq(T))'
        BY <4>5
      <4> QED
        BY <3>0, <4>1, <4>7, <4>8, <4>9 DEF BrokerInv, PassRanWithinPolicy, Resolved
    <3>4. CASE EvaluateBroker
      <4>1. /\ UNCHANGED <<alias, pending, cases, ran>>
            /\ assessed' = "PASS" => \A i \in DOMAIN cases : CasePasses(cases[i])
        BY <3>4 DEF EvaluateBroker, BrokerVerdict
      <4>2. DOMAIN cases = 1..Len(cases)
        BY DEF BrokerInv
      <4>3. ASSUME assessed' = "PASS", NEW r \in ran
            PROVE  /\ r.resolved # NoArgv
                   /\ r.argv = r.resolved =>
                        IF r.argv.operation = "status" THEN r.approved = "nobody"
                        ELSE /\ r.argv.operation = "push"
                             /\ r.approved = (IF r.argv.force = "long" THEN "push-force"
                                              ELSE "push")
        <5>1. PICK i \in 1..Len(cases) :
                  /\ r.resolved = cases[i].resolved.argv
                  /\ cases[i].observed.decision # "deny"
                  /\ r.approved = (IF cases[i].observed.hitl = "none" THEN "nobody"
                                   ELSE cases[i].observed.action)
          BY DEF BrokerInv
        <5>2. Resolved(cases[i].form, cases[i].resolved) /\ CasePasses(cases[i])
          BY <4>1, <4>2, <4>3 DEF BrokerInv
        <5> QED
          BY <5>1, <5>2, PassedCase
      <4> QED
        BY <4>1, <4>3 DEF BrokerInv, PassRanWithinPolicy, Resolved
    <3> QED
      BY <2>2, <3>1, <3>2, <3>3, <3>4 DEF BrokerNext
  <2> QED
    BY <2>1, <2>2
<1>3. BrokerInv => PassRanWithinPolicy
  BY DEF BrokerInv
<1> QED
  BY <1>1, <1>2, <1>3, PTL DEF BrokerSpec
-----------------------------------------------------------------------------
(* Network boundary.                                                       *)

(* A complete resolution is what DNS gave at its time; one comes first.    *)
EgressInv ==
    /\ second \in Nat
    /\ resolution # NoResolution =>
         /\ resolution.at \in Nat
         /\ resolution.complete => resolution.addresses = resolution.truth
    /\ connection # NoConnection =>
         resolution # NoResolution /\ connection.request \in EgressRequests
    /\ PassedEgressIsBound

(* A document is the wanted one, or has one field of the other.            *)
LEMMA OneOffField ==
    ASSUME NEW w, NEW o, NEW d \in OneOff(w, o)
    PROVE  d = w \/ \E f \in DOMAIN w : d = [w EXCEPT ![f] = o[f]]
BY DEF OneOff

(* Only the policy of the reference is accepted.                           *)
LEMMA AcceptedPolicy ==
    ASSUME NEW p \in BoundaryPolicies, BoundaryPolicyAccepted(p)
    PROVE  /\ p.destinations = {"allowed"} /\ p.ports = {443}
           /\ p.maximumAge = MaxDnsAge
<1> DEFINE w ==
      [network |-> "deny", point |-> "managed-egress-gateway", managed |-> TRUE,
       schemes |-> {"https"}, wildcards |-> FALSE, literals |-> FALSE, escapes |-> {},
       destinations |-> {"allowed"}, ports |-> {443}, maximumAge |-> MaxDnsAge,
       dns |-> {"complete", "all global", "connected in resolution", "bound"}]
    o == [network |-> "allow", point |-> "client", managed |-> FALSE,
          schemes |-> {"http", "https"}, wildcards |-> TRUE, literals |-> TRUE,
          escapes |-> {"proxy"}, destinations |-> {}, ports |-> {80, 443}, maximumAge |-> 0,
          dns |-> {"complete", "all global"}]
<1>1. p = w \/ \E f \in DOMAIN w : p = [w EXCEPT ![f] = o[f]]
  <2>1. BoundaryPolicies = OneOff(w, o)
    BY Zenon DEF BoundaryPolicies
  <2> HIDE DEF w, o
  <2> QED
    BY <2>1, OneOffField
<1>2. /\ {"destinations", "maximumAge"} \subseteq DOMAIN w
      /\ w.destinations = {"allowed"} /\ o.destinations = {}
      /\ w.maximumAge = MaxDnsAge /\ o.maximumAge = 0
  OBVIOUS
<1> HIDE DEF w, o
<1>3. p.destinations \in {{"allowed"}, {}} /\ p.maximumAge \in {MaxDnsAge, 0}
  BY <1>1, <1>2
<1>4. p.destinations # {} /\ p.maximumAge >= 1 /\ p.ports = {443}
  BY DEF BoundaryPolicyAccepted
<1> QED
  BY <1>3, <1>4

(* Only the request without a way around the gateway is routed.            *)
LEMMA RoutedRequest ==
    ASSUME NEW c, NEW p, c.request \in EgressRequests, p.ports = {443}, RouteIsAllowed(c, p)
    PROVE  c.request = EgressRequest
<1> DEFINE o ==
      [profile |-> "broad", scheme |-> "http", port |-> 8443, path |-> "with-dot-segments",
       credentials |-> TRUE, query |-> TRUE, literal |-> TRUE, proxy |-> TRUE,
       socks |-> TRUE, localBind |-> TRUE, socket |-> TRUE]
    r == c.request
<1>1. r = EgressRequest \/ \E f \in DOMAIN EgressRequest : r = [EgressRequest EXCEPT ![f] = o[f]]
  <2>1. r \in OneOff(EgressRequest, o)
    BY DEF EgressRequests
  <2> HIDE DEF o, r
  <2> QED
    BY <2>1, OneOffField
<1> HIDE DEF o
<1>2. SUFFICES ASSUME NEW f \in DOMAIN EgressRequest, r = [EgressRequest EXCEPT ![f] = o[f]]
               PROVE  FALSE
  BY <1>1
<1>3. f \in {"profile", "scheme", "port", "path", "credentials", "query", "literal", "proxy",
             "socks", "localBind", "socket"}
  BY DEF EgressRequest
<1>4. r[f] = o[f]
  BY <1>2
<1>5. /\ r.port \in {443} /\ r.path = "below-prefix"
      /\ r.profile = "destination-specific" /\ r.scheme = "https"
      /\ ~r.credentials /\ ~r.query /\ ~r.literal
      /\ ~r.proxy /\ ~r.socks /\ ~r.localBind /\ ~r.socket
  BY DEF RouteIsAllowed
<1>6. /\ o.port = 8443 /\ o.path = "with-dot-segments" /\ o.profile = "broad"
      /\ o.scheme = "http" /\ o.credentials /\ o.query /\ o.literal /\ o.proxy
      /\ o.socks /\ o.localBind /\ o.socket
  BY DEF o
<1> HIDE DEF r
<1>7. f \notin {"profile", "scheme", "port", "path"}
  BY <1>4, <1>5, <1>6
<1>8. f \notin {"credentials", "query", "literal", "proxy", "socks", "localBind", "socket"}
  BY <1>4, <1>5, <1>6
<1> QED
  BY <1>3, <1>7, <1>8

(* Evidence that passes is of a connection that was bound to a complete    *)
(* and recent resolution.                                                  *)
LEMMA PassedEgress ==
    ASSUME EgressInv, EvaluateEgress
    PROVE  PassedEgressIsBound'
<1>1. PICK p \in BoundaryPolicies :
        /\ connection # NoConnection /\ BoundaryPolicyAccepted(p) /\ resolution.complete
        /\ passed' = [verdict |-> IF RouteIsAllowed(connection, p)
                                     /\ AddressIsAllowed(connection, p)
                                  THEN "PASS" ELSE "FAIL",
                      at |-> second]
        /\ UNCHANGED <<second, dns, resolution, connection>>
  BY DEF EvaluateEgress
<1>2. passed'.at = second
      /\ (passed'.verdict = "PASS" =>
            RouteIsAllowed(connection, p) /\ AddressIsAllowed(connection, p))
  BY <1>1
<1>3. p.destinations = {"allowed"} /\ p.ports = {443} /\ p.maximumAge = MaxDnsAge
  BY <1>1, AcceptedPolicy
<1>4. SUFFICES ASSUME passed'.verdict = "PASS" PROVE PassedEgressIsBound'
  BY DEF PassedEgressIsBound
<1>5. connection.host = "allowed"
  BY <1>2, <1>3, <1>4 DEF RouteIsAllowed
<1>6. connection.request = EgressRequest
  BY <1>1, <1>2, <1>3, <1>4, RoutedRequest DEF EgressInv
<1>7. resolution.addresses = resolution.truth /\ resolution.at \in Nat /\ second \in Nat
  BY <1>1 DEF EgressInv
<1>8. connection.to \in resolution.truth /\ "internal" \notin resolution.truth
  BY <1>2, <1>4, <1>7 DEF AddressIsAllowed, PublicUnicast
<1>9. resolution.at + MaxDnsAge >= second
  BY <1>2, <1>3, <1>4, <1>7, EgressAssumption DEF AddressIsAllowed
<1> QED
  BY <1>1, <1>2, <1>5, <1>6, <1>8, <1>9 DEF PassedEgressIsBound

(* EgressPassedIsBound: evidence that passes the boundary verifier is of a *)
(* connection to an address that the allowed host had, in a resolution     *)
(* without private addresses, for any age and any answers of DNS between   *)
(* resolution and connection.                                              *)
THEOREM EgressPassedIsBound == EgressSpec => []PassedEgressIsBound
<1>1. EgressInit => EgressInv
  BY DEF EgressInit, EgressInv, PassedEgressIsBound, NoEgress
<1>2. EgressInv /\ [EgressNext]_egressVars => EgressInv'
  <2> SUFFICES ASSUME EgressInv, [EgressNext]_egressVars PROVE EgressInv'
    OBVIOUS
  <2>1. CASE UNCHANGED egressVars
    BY <2>1 DEF egressVars, EgressInv, PassedEgressIsBound
  <2>2. CASE EgressNext
    <3>0. passed.verdict # "PASS"
      BY <2>2 DEF EgressNext, NoEgress
    <3>1. ASSUME NEW h, NEW answer, DnsChanges(h, answer) PROVE EgressInv'
      BY <3>0, <3>1 DEF DnsChanges, EgressInv, PassedEgressIsBound
    <3>2. ASSUME NEW h, NEW complete \in BOOLEAN, ResolveHost(h, complete)
          PROVE  EgressInv'
      <4>1. PICK some \in dns[h] :
              resolution' = [host |-> h, complete |-> complete, at |-> second,
                             addresses |-> IF complete THEN dns[h] ELSE {some},
                             truth |-> dns[h]]
        BY <3>2 DEF ResolveHost
      <4>2. /\ resolution'.at = second
            /\ resolution'.complete => resolution'.addresses = resolution'.truth
        BY <4>1
      <4>3. connection = NoConnection /\ UNCHANGED <<second, dns, connection, passed>>
        BY <3>2 DEF ResolveHost
      <4> QED
        BY <3>0, <4>2, <4>3 DEF EgressInv, PassedEgressIsBound
    <3>3. ASSUME NEW h, NEW r \in EgressRequests, NEW bound, Connect(h, r, bound)
          PROVE  EgressInv'
      <4>1. /\ resolution # NoResolution /\ connection'.request = r
            /\ UNCHANGED <<second, dns, resolution, passed>>
        BY <3>3 DEF Connect
      <4> QED
        BY <3>0, <4>1 DEF EgressInv, PassedEgressIsBound
    <3>4. CASE EvaluateEgress
      <4>1. PassedEgressIsBound'
        BY <3>4, PassedEgress
      <4> QED
        BY <4>1, <3>4 DEF EvaluateEgress, EgressInv
    <3>5. CASE EgressTick
      BY <3>0, <3>5 DEF EgressTick, EgressInv, PassedEgressIsBound
    <3> QED
      BY <2>2, <3>1, <3>2, <3>3, <3>4, <3>5 DEF EgressNext
  <2> QED
    BY <2>1, <2>2
<1>3. EgressInv => PassedEgressIsBound
  BY DEF EgressInv
<1> QED
  BY <1>1, <1>2, <1>3, PTL DEF EgressSpec
-----------------------------------------------------------------------------
(* Runtime state.                                                          *)

(* An inventory of an adapter that lists what was reviewed was taken while *)
(* that was installed.                                                     *)
RuntimeInv ==
    /\ runtimeNow \in Nat
    /\ lastReviewed \in [Adapters -> Nat]
    /\ installedNow \in [Adapters -> Installations]
    /\ inventories = [a \in Adapters |-> inventories[a]]
    /\ \A a \in Adapters :
         /\ lastReviewed[a] <= runtimeNow
         /\ installedNow[a] = "as-reviewed" => lastReviewed[a] = runtimeNow
         /\ /\ inventories[a].provider = a /\ inventories[a] # NoListing
            /\ inventories[a].lists = "as-reviewed"
            => /\ inventories[a].at \in Nat
               /\ inventories[a].at <= lastReviewed[a]
    /\ \A e \in auditEvents : e.at \in Nat
    /\ DriftIsNoticed

(* The limits of an accepted policy are those of the reference.            *)
LEMMA AcceptedLimits ==
    ASSUME NEW g \in Settings, RuntimePolicyAccepted(g)
    PROVE  g.inventoryAge = MaxInstalledAge /\ g.eventAge = MaxEventAge
<1> DEFINE w ==
      [inventory |-> "available", audit |-> "available", extensions |-> "deny by default",
       unknownExtensions |-> FALSE, exactRecords |-> TRUE,
       inventoryAge |-> MaxInstalledAge, eventAge |-> MaxEventAge,
       source |-> "managed-endpoint-assessment", plugins |-> "disabled", fields |-> "allowed",
       records |-> "schema, references and reasons only", managed |-> TRUE, owner |-> "root",
       modes |-> "as required", retention |-> "bounded",
       export |-> "organization-security-log"]
    o == [inventory |-> "missing", audit |-> "missing", extensions |-> "allow by default",
          unknownExtensions |-> TRUE, exactRecords |-> FALSE, inventoryAge |-> 0,
          eventAge |-> 0, source |-> "client", plugins |-> "enabled", fields |-> "others",
          records |-> "other fields", managed |-> FALSE, owner |-> "user",
          modes |-> "wider", retention |-> "above the maximum", export |-> "none"]
<1>1. g \in OneOff(w, o)
  BY DEF Settings
<1>2. /\ {"inventoryAge", "eventAge"} \subseteq DOMAIN w
      /\ w.inventoryAge = MaxInstalledAge /\ o.inventoryAge = 0
      /\ w.eventAge = MaxEventAge /\ o.eventAge = 0
  OBVIOUS
<1> HIDE DEF w, o
<1>3. g = w \/ \E f \in DOMAIN w : g = [w EXCEPT ![f] = o[f]]
  BY <1>1 DEF OneOff
<1>4. g.inventoryAge \in {MaxInstalledAge, 0} /\ g.eventAge \in {MaxEventAge, 0}
  BY <1>2, <1>3
<1>5. g.inventoryAge >= 1 /\ g.eventAge >= 1
  BY Zenon DEF RuntimePolicyAccepted
<1> QED
  BY <1>4, <1>5

(* A PASS has an inventory of each adapter that lists what was reviewed,   *)
(* and an event of each decision, young enough.                            *)
LEMMA JudgedRuntime ==
    ASSUME RuntimeInv, JudgeRuntime
    PROVE  DriftIsNoticed'
<1>0. MaxInstalledAge \in Nat /\ MaxEventAge \in Nat
  BY RuntimeAssumption
<1>00. SUFFICES ASSUME runtimeVerdict'.verdict = "PASS" PROVE DriftIsNoticed'
  BY DEF DriftIsNoticed
<1>1. PICK g \in Settings, x \in AuditForms :
        runtimeVerdict' = [verdict |-> Judgement(g, x), at |-> runtimeNow]
  BY DEF JudgeRuntime
<1>2. g.inventoryAge = MaxInstalledAge /\ g.eventAge = MaxEventAge
  <2>1. RuntimePolicyAccepted(g)
    BY <1>00, <1>1 DEF Judgement
  <2> QED
    BY <2>1, AcceptedLimits
<1>4. /\ \A a \in Adapters : inventories[a] # NoListing /\ InventoryMatches(a, g)
      /\ AuditMatches(g) /\ runtimeVerdict'.at = runtimeNow
      /\ UNCHANGED <<lastReviewed, auditEvents>>
  BY <1>00, <1>1 DEF Judgement, JudgeRuntime
<1>5. ASSUME NEW a \in Adapters PROVE lastReviewed[a] + MaxInstalledAge >= runtimeNow
  <2>1. /\ inventories[a].at <= lastReviewed[a] /\ inventories[a].at \in Nat
        /\ runtimeNow - inventories[a].at \in 0..MaxInstalledAge
    BY <1>2, <1>4 DEF InventoryMatches, RuntimeInv, ExpectedExtensions, JudgeRuntime
  <2> QED
    BY <2>1, <1>0 DEF RuntimeInv
<1>6. ASSUME NEW d \in RequiredDecisions
      PROVE  \E e \in auditEvents : e.decision = d /\ e.at + MaxEventAge >= runtimeNow
  <2>1. {e.decision : e \in auditEvents} = RequiredDecisions
        /\ \A e \in auditEvents : runtimeNow - e.at \in 0..MaxEventAge
    BY <1>2, <1>4 DEF AuditMatches
  <2>2. PICK e \in auditEvents : e.decision = d
    BY <2>1
  <2> QED
    BY <2>1, <2>2, <1>0 DEF RuntimeInv
<1> QED
  BY <1>4, <1>5, <1>6 DEF DriftIsNoticed

(* RuntimeDriftIsNoticed: the runtime evidence verifier does not pass an   *)
(* adapter that drifted longer ago than the inventory may be old, nor      *)
(* without recent events of each decision, for any adapters, ages and      *)
(* changes of what is installed.                                           *)
THEOREM RuntimeDriftIsNoticed == RuntimeSpec => []DriftIsNoticed
<1>1. RuntimeInit => RuntimeInv
  BY DEF RuntimeInit, RuntimeInv, DriftIsNoticed, NoRuntimeVerdict, Installations
<1>2. RuntimeInv /\ [RuntimeNext]_runtimeVars => RuntimeInv'
  <2> SUFFICES ASSUME RuntimeInv, [RuntimeNext]_runtimeVars PROVE RuntimeInv'
    OBVIOUS
  <2>1. CASE UNCHANGED runtimeVars
    BY <2>1 DEF runtimeVars, RuntimeInv, DriftIsNoticed
  <2>2. CASE RuntimeNext
    <3>0. runtimeVerdict.verdict # "PASS"
      BY <2>2 DEF RuntimeNext, NoRuntimeVerdict
    <3>1. ASSUME NEW a \in Adapters, NEW what \in Installations, InstallExtension(a, what)
          PROVE  RuntimeInv'
      <4>1. /\ installedNow' = [installedNow EXCEPT ![a] = what]
            /\ lastReviewed' = [lastReviewed EXCEPT ![a] =
                 IF what = "as-reviewed" THEN runtimeNow ELSE lastReviewed[a]]
            /\ UNCHANGED <<runtimeNow, inventories, auditEvents, runtimeVerdict>>
        BY <3>1 DEF InstallExtension, RuntimeInv
      <4>2. /\ installedNow' \in [Adapters -> Installations]
            /\ lastReviewed' \in [Adapters -> Nat]
        BY <4>1 DEF RuntimeInv
      <4>3. ASSUME NEW b \in Adapters
            PROVE  /\ lastReviewed[b] <= lastReviewed'[b] /\ lastReviewed'[b] <= runtimeNow
                   /\ installedNow'[b] = "as-reviewed" => lastReviewed'[b] = runtimeNow
        <5>1. CASE b = a
          BY <5>1, <4>1 DEF RuntimeInv
        <5>2. CASE b # a
          BY <5>2, <4>1 DEF RuntimeInv
        <5> QED
          BY <5>1, <5>2
      <4>4. ASSUME NEW b \in Adapters, inventories[b].provider = b,
                   inventories[b] # NoListing, inventories[b].lists = "as-reviewed"
            PROVE  inventories[b].at \in Nat /\ inventories[b].at <= lastReviewed'[b]
        BY <4>2, <4>3, <4>4 DEF RuntimeInv
      <4> QED
        BY <3>0, <4>1, <4>2, <4>3, <4>4 DEF RuntimeInv, DriftIsNoticed
    <3>2. ASSUME NEW a \in Adapters, NEW from \in Adapters, TakeInventory(a, from)
          PROVE  RuntimeInv'
      <4> DEFINE new == [at |-> runtimeNow, provider |-> from, lists |-> installedNow[from]]
      <4>1. /\ inventories' = [inventories EXCEPT ![a] = new]
            /\ UNCHANGED <<runtimeNow, installs, installedNow, lastReviewed, auditEvents,
                           runtimeVerdict>>
        BY <3>2 DEF TakeInventory
      <4>2. /\ new.at = runtimeNow /\ new.provider = from /\ new.lists = installedNow[from]
        OBVIOUS
      <4> HIDE DEF new
      <4>3. /\ inventories' = [b \in Adapters |-> inventories'[b]]
            /\ \A b \in Adapters : inventories'[b] = IF b = a THEN new ELSE inventories[b]
        BY <4>1 DEF RuntimeInv
      <4>4. ASSUME NEW b \in Adapters, inventories'[b].provider = b,
                   inventories'[b] # NoListing, inventories'[b].lists = "as-reviewed"
            PROVE  inventories'[b].at \in Nat /\ inventories'[b].at <= lastReviewed[b]
        <5>1. CASE b = a
          BY <5>1, <4>2, <4>3, <4>4 DEF RuntimeInv
        <5>2. CASE b # a
          BY <5>2, <4>3, <4>4 DEF RuntimeInv
        <5> QED
          BY <5>1, <5>2
      <4> QED
        BY <3>0, <4>1, <4>3, <4>4 DEF RuntimeInv, DriftIsNoticed
    <3>3. ASSUME NEW decision, HookEvent(decision) PROVE RuntimeInv'
      BY <3>0, <3>3 DEF HookEvent, RuntimeInv, DriftIsNoticed
    <3>4. CASE Rotate
      BY <3>0, <3>4 DEF Rotate, RuntimeInv, DriftIsNoticed
    <3>5. CASE JudgeRuntime
      <4>1. DriftIsNoticed'
        BY <3>5, JudgedRuntime
      <4> QED
        BY <4>1, <3>5 DEF JudgeRuntime, RuntimeInv
    <3>6. CASE RuntimeTick
      <4>1. /\ runtimeNow' = runtimeNow + 1
            /\ lastReviewed' = [a \in Adapters |->
                 IF installedNow[a] = "as-reviewed" THEN runtimeNow + 1 ELSE lastReviewed[a]]
            /\ UNCHANGED <<installs, installedNow, inventories, auditEvents, runtimeVerdict>>
        BY <3>6 DEF RuntimeTick
      <4>2. runtimeNow' \in Nat /\ lastReviewed' \in [Adapters -> Nat]
        BY <4>1 DEF RuntimeInv
      <4>3. \A a \in Adapters :
              /\ lastReviewed[a] <= lastReviewed'[a] /\ lastReviewed'[a] <= runtimeNow'
              /\ installedNow[a] = "as-reviewed" => lastReviewed'[a] = runtimeNow'
        BY <4>1 DEF RuntimeInv
      <4>4. ASSUME NEW b \in Adapters, inventories[b].provider = b,
                   inventories[b] # NoListing, inventories[b].lists = "as-reviewed"
            PROVE  inventories[b].at \in Nat /\ inventories[b].at <= lastReviewed'[b]
        BY <4>2, <4>3, <4>4 DEF RuntimeInv
      <4> QED
        BY <3>0, <4>1, <4>2, <4>3, <4>4 DEF RuntimeInv, DriftIsNoticed
    <3> QED
      BY <2>2, <3>1, <3>2, <3>3, <3>4, <3>5, <3>6 DEF RuntimeNext
  <2> QED
    BY <2>1, <2>2
<1>3. RuntimeInv => DriftIsNoticed
  BY DEF RuntimeInv
<1> QED
  BY <1>1, <1>2, <1>3, PTL DEF RuntimeSpec
-----------------------------------------------------------------------------
(* Resource budgets.                                                       *)

(* The evidence has times and amounts where it is compared.                *)
BudgetTypes ==
    /\ meterNow \in Nat
    /\ used \in [Sessions -> Nat]
    /\ observed \in [Sessions -> [usage : Nat, anomaly : BOOLEAN, at : Int]]
    /\ decidedFor \in [Sessions -> [decision : Decisions, at : Int]]
    /\ applied \in [Sessions -> Int]
    /\ alerted \in [Sessions -> [emitted : Int, delivered : Int]]

BudgetInv == BudgetTypes /\ OverspenderIsStopped

(* Well inside the budget is inside it.                                    *)
LEMMA WarningBelowBudget ==
    ASSUME NEW u \in Nat, u * 100 < Budget * WarningPercent
    PROVE  u <= Budget
<1>1. Budget \in Nat /\ WarningPercent \in 1..99
  BY BudgetAssumption
<1>2. Budget * WarningPercent <= Budget * 100
  BY <1>1
<1>3. Budget * WarningPercent \in Nat
  BY <1>1
<1> QED
  BY <1>1, <1>2, <1>3

(* The expected decision, the enforcement and the alert of one session,    *)
(* taken together, stop an overspender and leave the others alone.         *)
LEMMA MatchedSession ==
    ASSUME BudgetTypes, NEW s \in Sessions,
           DecisionMatches(s), EnforcementMatches(s), AlertMatches(s)
    PROVE  /\ observed[s].usage > Budget \/ observed[s].anomaly =>
                 /\ breaker[s] = "block" /\ applied[s] >= observed[s].at
                 /\ alerted[s].delivered \in alerted[s].emitted..alerted[s].emitted + MaxAlertLatency
           /\ observed[s].usage * 100 < Budget * WarningPercent /\ ~observed[s].anomaly =>
                 breaker[s] = "continue" /\ alerted[s] = NoAlert
<1>0. Budget \in Nat /\ MaxAlertLatency \in Nat /\ WarningPercent \in Nat
  BY BudgetAssumption
<1>1. /\ observed[s].usage \in Nat /\ observed[s].at \in Int /\ decidedFor[s].at \in Int
      /\ applied[s] \in Int /\ alerted[s].emitted \in Int /\ alerted[s].delivered \in Int
  BY DEF BudgetTypes
<1>2. breaker[s] = ExpectedOutcome(observed[s]) /\ applied[s] >= observed[s].at
  BY <1>1 DEF DecisionMatches, EnforcementMatches
<1>3. ASSUME observed[s].usage > Budget \/ observed[s].anomaly
      PROVE  /\ breaker[s] = "block" /\ applied[s] >= observed[s].at
             /\ alerted[s].delivered \in alerted[s].emitted..alerted[s].emitted + MaxAlertLatency
  <2>1. ExpectedOutcome(observed[s]) = "block"
    BY <1>3 DEF ExpectedOutcome
  <2>2. alerted[s].delivered - alerted[s].emitted \in 0..MaxAlertLatency
    BY <2>1 DEF AlertMatches
  <2> QED
    BY <2>1, <2>2, <1>0, <1>1, <1>2
<1>4. ASSUME observed[s].usage * 100 < Budget * WarningPercent, ~observed[s].anomaly
      PROVE  breaker[s] = "continue" /\ alerted[s] = NoAlert
  <2>1. observed[s].usage <= Budget
    BY <1>1, <1>4, WarningBelowBudget
  <2>2. ~(observed[s].usage > Budget)
    BY <2>1, <1>0, <1>1
  <2>3. Budget * WarningPercent \in Nat /\ observed[s].usage * 100 \in Nat
    BY <1>0, <1>1
  <2>4. ~(observed[s].usage * 100 >= Budget * WarningPercent)
    BY <2>3, <1>4
  <2>5. ExpectedOutcome(observed[s]) = "continue"
    BY <2>2, <2>4, <1>4 DEF ExpectedOutcome
  <2> QED
    BY <2>5, <1>2 DEF AlertMatches
<1> QED
  BY <1>3, <1>4

(* BudgetOverspenderIsStopped: the budget verifier passes only when every  *)
(* session over its budget was blocked after it was seen, and alerted in   *)
(* time, and none well inside it was, for any sessions, budget and limits. *)
THEOREM BudgetOverspenderIsStopped == BudgetSpec => []OverspenderIsStopped
<1>1. BudgetInit => BudgetInv
  BY DEF BudgetInit, BudgetInv, BudgetTypes, OverspenderIsStopped, NotObserved, NotDecided,
         NotApplied, NoAlert, Decisions
<1>2. BudgetInv /\ [BudgetNext]_budgetVars => BudgetInv'
  <2> SUFFICES ASSUME BudgetInv, [BudgetNext]_budgetVars PROVE BudgetInv'
    OBVIOUS
  <2>1. CASE UNCHANGED budgetVars
    BY <2>1 DEF budgetVars, BudgetInv, BudgetTypes, OverspenderIsStopped
  <2>2. CASE BudgetNext
    <3>0. budgetVerdict # "PASS" /\ BudgetTypes
      BY <2>2 DEF BudgetNext, BudgetInv
    <3>1. ASSUME NEW s \in Sessions, UseResource(s) PROVE BudgetInv'
      BY <3>0, <3>1 DEF UseResource, BudgetInv, BudgetTypes, OverspenderIsStopped
    <3>2. ASSUME NEW s \in Sessions, EmitAlert(s) PROVE BudgetInv'
      BY <3>0, <3>2 DEF EmitAlert, BudgetInv, BudgetTypes, OverspenderIsStopped
    <3>3. ASSUME NEW s \in Sessions, DeliverAlert(s) PROVE BudgetInv'
      BY <3>0, <3>3 DEF DeliverAlert, BudgetInv, BudgetTypes, OverspenderIsStopped
    <3>4. ASSUME NEW s \in Sessions, NEW anomaly \in BOOLEAN, Observe(s, anomaly)
          PROVE  BudgetInv'
      BY <3>0, <3>4 DEF Observe, BudgetInv, BudgetTypes, OverspenderIsStopped
    <3>5. ASSUME NEW s \in Sessions, NEW d \in Decisions, DecideSession(s, d)
          PROVE  BudgetInv'
      BY <3>0, <3>5 DEF DecideSession, BudgetInv, BudgetTypes, OverspenderIsStopped
    <3>6. ASSUME NEW s \in Sessions, NEW d \in Decisions, ApplyBreaker(s, d)
          PROVE  BudgetInv'
      BY <3>0, <3>6 DEF ApplyBreaker, BudgetInv, BudgetTypes, OverspenderIsStopped
    <3>7. CASE JudgeBudget
      <4>1. /\ UNCHANGED <<meterNow, used, breaker, observed, decidedFor, applied, alerted>>
            /\ budgetVerdict' = "PASS" =>
                 \A s \in Sessions :
                   DecisionMatches(s) /\ EnforcementMatches(s) /\ AlertMatches(s)
        BY <3>7 DEF JudgeBudget, BudgetVerdict
      <4>2. OverspenderIsStopped'
        BY <4>1, <3>0, MatchedSession DEF OverspenderIsStopped
      <4> QED
        BY <4>1, <4>2, <3>0 DEF BudgetInv, BudgetTypes
    <3>8. CASE MeterTick
      BY <3>0, <3>8 DEF MeterTick, BudgetInv, BudgetTypes, OverspenderIsStopped
    <3> QED
      BY <2>2, <3>1, <3>2, <3>3, <3>4, <3>5, <3>6, <3>7, <3>8 DEF BudgetNext
  <2> QED
    BY <2>1, <2>2
<1>3. BudgetInv => OverspenderIsStopped
  BY DEF BudgetInv
<1> QED
  BY <1>1, <1>2, <1>3, PTL DEF BudgetSpec
-----------------------------------------------------------------------------
(* Rogue agent containment.                                                *)

(* The operators number their orders as they issue them: a higher number   *)
(* of the recovery means that it was not issued before the containment.    *)
RogueInv ==
    /\ time \in Nat
    /\ {detectedAt, command.issued, command.ttl, command.sequence, authorization.issued,
        authorization.ttl, recovered.at, plane.at} \subseteq Int
    /\ plane = [stopped |-> plane.stopped, at |-> plane.at, preserved |-> plane.preserved,
                fallback |-> plane.fallback]
    /\ command.issued <= time
    /\ authorization.sequence \in 0..2
    /\ authorization.issued = Unset => authorization.sequence = 0
    /\ authorization.sequence > command.sequence => command.issued <= authorization.issued
    /\ AcceptedContainment

(* Accepted evidence has the two orders in their order, an application of  *)
(* each in its time, two signers, and no authority or retried request left. *)
LEMMA AcceptedEvidence ==
    ASSUME RogueInv, VerifyIncident
    PROVE  AcceptedContainment'
<1> SUFFICES ASSUME verdict' = "ACCEPTED" PROVE AcceptedContainment'
  BY DEF AcceptedContainment
<1>0. {MaxTriggerAge, MaxLatency} \subseteq Nat
  BY RogueAssumption
<1>1. PICK k \in Contracts : IncidentDecisions(k)
  BY DEF VerifyIncident, IncidentVerdict
<1>2. UNCHANGED <<time, detectedAt, command, plane, authority, request, authorization,
                  recovered>>
  BY DEF VerifyIncident
<1>3. /\ command.issued - detectedAt \in 0..MaxTriggerAge
      /\ plane.at - command.issued \in 0..MaxLatency
      /\ authorization.sequence > command.sequence
  BY <1>1 DEF IncidentDecisions, TriggerBound, ContainmentApplied, RecoveryAuthorization
<1>4. plane.at - detectedAt \in 0..MaxTriggerAge + MaxLatency
  BY <1>0, <1>3 DEF RogueInv
<1>5. plane.at <= recovered.at + MaxLatency
  <2>1. recovered.at \in authorization.issued..authorization.issued + authorization.ttl
    BY <1>1 DEF IncidentDecisions, RecoveryApplied
  <2>2. recovered.at >= authorization.issued
    BY <2>1 DEF RogueInv
  <2>3. command.issued <= authorization.issued
    BY <1>3 DEF RogueInv
  <2> QED
    BY <1>0, <1>3, <2>2, <2>3 DEF RogueInv
<1>6. \E i, j \in DOMAIN authorization.signers :
         authorization.signers[i] # authorization.signers[j]
  <2>1. {RoleOf[authorization.signers[i]] : i \in DOMAIN authorization.signers} = RequiredRoles
    BY <1>1 DEF IncidentDecisions, RecoveryAuthorization, RecoverySignaturesValid
  <2>2. PICK i \in DOMAIN authorization.signers :
          RoleOf[authorization.signers[i]] = "incident-commander"
    BY <2>1 DEF RequiredRoles
  <2>3. PICK j \in DOMAIN authorization.signers :
          RoleOf[authorization.signers[j]] = "security-reviewer"
    BY <2>1 DEF RequiredRoles
  <2> QED
    BY <2>2, <2>3
<1>7. /\ \A a \in Authorities : authority[a] = "revoked"
      /\ \A r \in Requests : request[r] # "retried"
  BY <1>1 DEF IncidentDecisions, Revocations, Quarantine
<1> QED
  BY <1>2, <1>4, <1>5, <1>6, <1>7 DEF AcceptedContainment

(* RogueAcceptedContainment: accepted evidence is of a session that was    *)
(* stopped a bounded time after its detection and ran beside its successor *)
(* for a bounded time only, of a recovery by two people, and of nothing    *)
(* left to act, for any limits, number of faults and order of the steps.   *)
THEOREM RogueAcceptedContainment == RogueSpec => []AcceptedContainment
<1>1. RogueInit => RogueInv
  BY DEF RogueInit, RogueInv, AcceptedContainment, Unset
<1>2. RogueInv /\ [RogueNext]_rogueVars => RogueInv'
  <2> SUFFICES ASSUME RogueInv, [RogueNext]_rogueVars PROVE RogueInv'
    OBVIOUS
  <2>1. CASE UNCHANGED rogueVars
    BY <2>1 DEF rogueVars, RogueInv, AcceptedContainment
  <2>2. CASE RogueNext
    <3>0. verdict # "ACCEPTED"
      BY <2>2 DEF RogueNext
    <3>1. CASE Detect
      BY <3>0, <3>1 DEF Detect, RogueInv, AcceptedContainment
    <3>2. ASSUME NEW by \in Operators, NEW ttl \in 0..MaxCommandTtl + 1, NEW exact \in BOOLEAN,
                 IssueContainment(by, ttl, exact)
          PROVE  RogueInv'
      <4>1. /\ command'.issued = time /\ command'.ttl = ttl
            /\ command'.sequence = NextSequence /\ command.issued = Unset
            /\ UNCHANGED <<time, detectedAt, plane, authority, request, authorization,
                           recovered, verdict>>
        BY <3>2 DEF IssueContainment
      <4>2. ttl \in Int
        BY RogueAssumption
      <4>3. NextSequence = (IF authorization.issued = Unset THEN 1 ELSE 2)
        BY <4>1 DEF NextSequence, Unless
      <4>4. ~(authorization.sequence > command'.sequence)
        BY <4>1, <4>3 DEF RogueInv
      <4> QED
        BY <4>1, <4>2, <4>3, <4>4, <3>0 DEF RogueInv, AcceptedContainment
    <3>3. CASE Contain
      <4>1. /\ plane' = [plane EXCEPT !.stopped = TRUE, !.at = time]
            /\ UNCHANGED <<time, detectedAt, command, authority, request, authorization,
                           recovered, verdict, faults>>
        BY <3>3 DEF Contain
      <4>2. plane' = [stopped |-> TRUE, at |-> time, preserved |-> plane.preserved,
                      fallback |-> plane.fallback]
        BY <4>1 DEF RogueInv
      <4>3. /\ plane' = [stopped |-> plane'.stopped, at |-> plane'.at,
                         preserved |-> plane'.preserved, fallback |-> plane'.fallback]
            /\ plane'.at = time
        BY <4>2
      <4> QED
        BY <4>1, <4>3, <3>0 DEF RogueInv, AcceptedContainment
    <3>4. ASSUME NEW a, RevokeAuthority(a) PROVE RogueInv'
      BY <3>0, <3>4 DEF RevokeAuthority, RogueInv, AcceptedContainment
    <3>5. ASSUME NEW r, NEW outcome, Settle(r, outcome) PROVE RogueInv'
      BY <3>0, <3>5 DEF Settle, RogueInv, AcceptedContainment
    <3>6. CASE QuarantineDone
      <4>1. PICK preserved \in {"before", "after"}, fallback \in BOOLEAN :
              plane' = [plane EXCEPT !.preserved = preserved, !.fallback = fallback]
        BY <3>6 DEF QuarantineDone
      <4>2. UNCHANGED <<time, detectedAt, command, authority, request, authorization,
                        recovered, verdict>>
        BY <3>6 DEF QuarantineDone
      <4>3. plane' = [stopped |-> plane.stopped, at |-> plane.at, preserved |-> preserved,
                      fallback |-> fallback]
        BY <4>1 DEF RogueInv
      <4>4. /\ plane' = [stopped |-> plane'.stopped, at |-> plane'.at,
                         preserved |-> plane'.preserved, fallback |-> plane'.fallback]
            /\ plane'.at = plane.at
        BY <4>3
      <4> QED
        BY <4>2, <4>4, <3>0 DEF RogueInv, AcceptedContainment
    <3>7. ASSUME NEW signers \in Signers, NEW ttl \in {0, MaxAuthTtl, MaxAuthTtl + 1},
                 Authorize(signers, ttl)
          PROVE  RogueInv'
      <4>1. /\ authorization.issued = Unset
            /\ authorization'.issued = time /\ authorization'.ttl = ttl
            /\ authorization'.sequence = NextSequence
            /\ UNCHANGED <<time, detectedAt, command, plane, authority, request, recovered,
                           verdict>>
        BY <3>7 DEF Authorize
      <4>2. ttl \in Int /\ time # Unset
        BY RogueAssumption DEF RogueInv, Unset
      <4>3. NextSequence \in 0..2
        BY <4>1 DEF NextSequence, Unless
      <4> QED
        BY <4>1, <4>2, <4>3, <3>0 DEF RogueInv, AcceptedContainment
    <3>8. CASE Recover
      <4>1. /\ recovered'.at = time
            /\ UNCHANGED <<time, detectedAt, command, plane, authority, request, authorization,
                           verdict>>
        BY <3>8 DEF Recover
      <4> QED
        BY <4>1, <3>0 DEF RogueInv, AcceptedContainment
    <3>9. CASE VerifyIncident
      <4>1. AcceptedContainment'
        BY <3>9, AcceptedEvidence
      <4> QED
        BY <4>1, <3>9 DEF VerifyIncident, RogueInv
    <3>10. CASE IncidentTick
      BY <3>0, <3>10 DEF IncidentTick, RogueInv, AcceptedContainment
    <3> QED
      BY <2>2, <3>1, <3>2, <3>3, <3>4, <3>5, <3>6, <3>7, <3>8, <3>9, <3>10 DEF RogueNext
  <2> QED
    BY <2>1, <2>2
<1>3. RogueInv => AcceptedContainment
  BY DEF RogueInv
<1> QED
  BY <1>1, <1>2, <1>3, PTL DEF RogueSpec
-----------------------------------------------------------------------------
(* Hook failure boundary.                                                  *)

(* A case of the campaign, as the scenario of that product made it         *)
CaseOf(c, product, class) ==
    /\ c.product = product /\ c.class = class
    /\ c.enforced = gateway.mandatory /\ c.recorded = gateway.audits
    /\ c.decision = (IF Lets(c.hook.permit) THEN "allow" ELSE "deny")
    /\ (Lets(c.hook.permit) \/ (c.hook.continues /\ product \in aroundIt)) => c.effect

BoundaryInv ==
    /\ aroundIt \subseteq Products
    /\ scenarios \subseteq Products \X ScenarioClasses
    /\ \A c \in campaign :
         \E product \in Products, class \in ScenarioClasses : CaseOf(c, product, class)
    /\ PassedGatewayHolds

(* What a gateway asks for, when it denied a permit of each kind.          *)
LEMMA DeniedPermit ==
    /\ ~Lets("missing") => "permit" \in gateway.checks
    /\ ~Lets("invalid") => gateway.checks \cap {"issuer", "request"} # {}
    /\ ~Lets("old") => "request" \in gateway.checks
BY DEF Lets, Issuer, Binding

(* What the passed cases of a complete assessment say of the gateway: each *)
(* product has had its call stopped while its hook had failed.             *)
LEMMA PassedCampaign ==
    ASSUME BoundaryInv, AssessBoundary("complete"), assessment'.result = "PASS"
    PROVE  /\ gateway.mandatory /\ gateway.audits /\ aroundIt = {}
           /\ \A c \in campaign :
                /\ c.hook.permit = "missing" => "permit" \in gateway.checks
                /\ c.hook.permit = "invalid" => gateway.checks \cap {"issuer", "request"} # {}
                /\ c.hook.permit = "old" => "request" \in gateway.checks
<1>1. /\ campaign # {} /\ Covered
      /\ \A c \in campaign : CasePassed(c)
  BY DEF AssessBoundary, BoundaryResult
<1>2. PICK p \in Products : \E c \in campaign : c.product = p
  BY <1>1 DEF BoundaryInv, CaseOf
<1>3. ASSUME NEW product \in Products
      PROVE  gateway.mandatory /\ gateway.audits /\ product \notin aroundIt
  <2>1. "not-started" \in {c.class : c \in {x \in campaign : x.product = product}}
    BY <1>1 DEF Covered, ScenarioClasses, FailureStates
  <2>2. PICK c \in campaign : c.product = product /\ c.class = "not-started"
    BY <2>1
  <2>3. DeniedBeforeEffect(c)
    BY <1>1, <2>2 DEF CasePassed, CompletedAllow
  <2>4. /\ c.enforced /\ c.recorded /\ ~c.effect
    BY <2>3 DEF DeniedBeforeEffect, CommonGateway
  <2>5. c.hook.continues
    BY <2>2, <2>3 DEF DeniedBeforeEffect, FailureStates
  <2>6. /\ c.enforced = gateway.mandatory /\ c.recorded = gateway.audits
        /\ (c.hook.continues /\ product \in aroundIt) => c.effect
    BY <2>2 DEF BoundaryInv, CaseOf
  <2>7. gateway.mandatory /\ gateway.audits
    BY <2>4, <2>6, Zenon
  <2> QED
    BY <2>4, <2>5, <2>6, <2>7
<1>4. ASSUME NEW c \in campaign, c.hook.permit \in {"missing", "invalid", "old"}
      PROVE  ~Lets(c.hook.permit)
  <2>1. c.decision = "deny"
    BY <1>1, <1>4 DEF CasePassed, CompletedAllow, DeniedBeforeEffect
  <2>2. c.decision = (IF Lets(c.hook.permit) THEN "allow" ELSE "deny")
    BY DEF BoundaryInv, CaseOf
  <2> QED
    BY <2>1, <2>2
<1>5. ASSUME NEW c \in campaign
      PROVE  /\ c.hook.permit = "missing" => "permit" \in gateway.checks
             /\ c.hook.permit = "invalid" => gateway.checks \cap {"issuer", "request"} # {}
             /\ c.hook.permit = "old" => "request" \in gateway.checks
  BY <1>4, DeniedPermit
<1> QED
  BY <1>2, <1>3, <1>5 DEF BoundaryInv

(* BoundaryPassedGatewayHolds: a complete campaign that the boundary       *)
(* verifier passes is of a mandatory, recording gateway that no product    *)
(* has a way around, and that checks what stops each kind of bad permit    *)
(* the campaign presented, for any products and whatever goes wrong in the *)
(* scenarios.                                                              *)
THEOREM BoundaryPassedGatewayHolds == BoundarySpec => []PassedGatewayHolds
<1>1. BoundaryInit => BoundaryInv
  BY DEF BoundaryInit, BoundaryInv, PassedGatewayHolds, NoAssessment
<1>2. BoundaryInv /\ [BoundaryNext]_boundaryVars => BoundaryInv'
  <2> SUFFICES ASSUME BoundaryInv, [BoundaryNext]_boundaryVars PROVE BoundaryInv'
    OBVIOUS
  <2>1. CASE UNCHANGED boundaryVars
    BY <2>1 DEF boundaryVars, BoundaryInv, PassedGatewayHolds, CaseOf, Lets
  <2>2. CASE BoundaryNext
    <3>0. assessment.result # "PASS"
      BY <2>2 DEF BoundaryNext, NoAssessment
    <3>1. ASSUME NEW s \in scenarios, NEW permit \in Presented(s[2]), NEW odd \in Oddities,
                 Provoke(s[1], s[2], permit, odd)
          PROVE  BoundaryInv'
      <4> DEFINE h == Happened(s[2], permit, odd)
                 let == Lets(h.permit)
                 new == [product |-> s[1], class |-> s[2], hook |-> h,
                         reachable |-> odd # "no-gateway", enforced |-> gateway.mandatory,
                         decision |-> IF let THEN "allow" ELSE "deny",
                         recorded |-> gateway.audits,
                         effect |-> let \/ (h.continues /\ s[1] \in aroundIt)]
      <4>1. s[1] \in Products /\ s[2] \in ScenarioClasses
        BY DEF BoundaryInv
      <4>2. /\ campaign' = campaign \cup {new}
            /\ scenarios' = scenarios \ {<<s[1], s[2]>>}
            /\ UNCHANGED <<gateway, aroundIt, assessment>>
        BY <3>1 DEF Provoke
      <4> HIDE DEF h
      <4>3. CaseOf(new, s[1], s[2])
        BY DEF CaseOf
      <4> HIDE DEF new, let
      <4>4. \A c : \A product, class : CaseOf(c, product, class)' = CaseOf(c, product, class)
        BY <4>2 DEF CaseOf, Lets
      <4>5. \A c \in campaign' :
              \E product \in Products, class \in ScenarioClasses : CaseOf(c, product, class)'
        BY <4>1, <4>2, <4>3, <4>4 DEF BoundaryInv
      <4> QED
        BY <3>0, <4>2, <4>5 DEF BoundaryInv, PassedGatewayHolds
    <3>2. ASSUME NEW some, LeaveOut(some) PROVE BoundaryInv'
      BY <3>0, <3>2 DEF LeaveOut, BoundaryInv, PassedGatewayHolds, CaseOf, Lets
    <3>3. ASSUME NEW scope, AssessBoundary(scope) PROVE BoundaryInv'
      <4>1. /\ assessment'.scope = scope
            /\ UNCHANGED <<gateway, aroundIt, scenarios, campaign, oddities>>
        BY <3>3 DEF AssessBoundary
      <4>2. PassedGatewayHolds'
        BY <3>3, <4>1, PassedCampaign DEF PassedGatewayHolds
      <4> QED
        BY <4>1, <4>2 DEF BoundaryInv, CaseOf, Lets
    <3> QED
      BY <2>2, <3>1, <3>2, <3>3 DEF BoundaryNext
  <2> QED
    BY <2>1, <2>2
<1>3. BoundaryInv => PassedGatewayHolds
  BY DEF BoundaryInv
<1> QED
  BY <1>1, <1>2, <1>3, PTL DEF BoundarySpec
=============================================================================
