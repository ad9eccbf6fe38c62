---------------------------- MODULE CommandBroker ----------------------------
(***************************************************************************)
(* The command broker of a coding agent and the verdict on its evidence    *)
(* (verify-command-broker.py).  A command arrives in some form; the engine *)
(* resolves it to an argv with the Git alias of that moment, the broker    *)
(* decides, and runs the command, with the approval it asked for: what was *)
(* resolved, or what the alias has become since.                           *)
(* The broker may decide anything: the verifier must notice.               *)
(***************************************************************************)
EXTENDS Integers, Sequences, FiniteSets, Documents

CONSTANT MaxCommands  \* bound: commands handled
ASSUME BrokerAssumption == MaxCommands \in Nat

CommandForms == {"direct-argv", "wrapped-argv", "git-alias", "opaque"}

(* An argv: its operation, and how it asks for a forced push: not at all,   *)
(* in a long spelling (--force, --force=..., --force-with-lease and         *)
(* --force-with-lease=...), or in one of Git's others (-f, a +refspec).     *)
Argvs == [operation: {"status", "push", "unlisted"}, force: {"none", "long", "other"}]
NoArgv == [operation |-> "none", force |-> "none"]

ReadOnly == {"status"}
HighImpact == {"push", "push-force"}   \* operation = its action class

VARIABLES
    alias,      \* what the Git alias of the workspace stands for, or NoArgv
    pending,    \* the command that the engine has resolved, or NoCommand
    cases,      \* the evidence: one case per command
    ran,        \* what the broker ran: [resolved, argv, approved]
    assessed    \* "PASS", "FAIL" or "ERROR", or "none" before

brokerVars == <<alias, pending, cases, ran, assessed>>

NoCommand == [form |-> "none"]

BrokerInit ==
    /\ alias = NoArgv /\ pending = NoCommand
    /\ cases = <<>> /\ ran = {} /\ assessed = "none"

(* The workspace's configuration changes at any time.                      *)
SetAlias(argv) ==
    /\ alias' = argv
    /\ UNCHANGED <<pending, cases, ran, assessed>>

(* classify_case: what the evidence of a form must say of its resolution   *)
Resolution(form, argv) ==
    CASE form \in {"direct-argv", "wrapped-argv"} -> [status |-> "complete", argv |-> argv]
      [] form = "git-alias" /\ alias # NoArgv -> [status |-> "complete", argv |-> alias]
      [] form = "git-alias" /\ alias = NoArgv -> [status |-> "unresolved", argv |-> NoArgv]
      [] form = "opaque" -> [status |-> "opaque", argv |-> NoArgv]

Resolve(form, argv) ==
    /\ pending = NoCommand /\ Len(cases) < MaxCommands
    /\ pending' = [form |-> form, resolved |-> Resolution(form, argv)]
    /\ UNCHANGED <<alias, cases, ran, assessed>>

(* the operation that the tables are asked for: only the long spellings    *)
(* make it another one                                                     *)
PolicyOperation(argv) ==
    IF argv.operation = "push" /\ argv.force = "long" THEN "push-force" ELSE argv.operation

(* plausible mistake: the flag is not looked at                            *)
FlaglessClassification(argv) ==
    CASE argv.operation \in ReadOnly -> [decision |-> "allow", action |-> "read-only"]
      [] argv.operation \in HighImpact ->
           [decision |-> "require-bound-approval", action |-> argv.operation]
      [] OTHER -> [decision |-> "deny", action |-> "none"]

(* classify_resolved                                                       *)
ClassifyResolved(argv) ==
    CASE argv.operation \in ReadOnly -> [decision |-> "allow", action |-> "read-only"]
      [] PolicyOperation(argv) \in HighImpact ->
           [decision |-> "require-bound-approval", action |-> PolicyOperation(argv)]
      [] OTHER -> [decision |-> "deny", action |-> "none"]

ClassifyCase(c) ==
    IF c.resolved.status = "complete" THEN ClassifyResolved(c.resolved.argv)
    ELSE [decision |-> "deny", action |-> "none"]

Observed ==
    [decision: {"allow", "require-bound-approval", "deny"},
     action: {"read-only", "push", "push-force", "none"},
     hitl: {"none", "one-bound-approval"}]

(* The argv that runs: an alias may be read again by Git.                   *)
WhatRuns(c) ==
    {c.resolved.argv} \cup (IF c.form = "git-alias" THEN {alias} ELSE {})

(* The broker decides and acts: what it runs unasked, or after the one      *)
(* approval, is under that action class.                                    *)
Decide(o) ==
    /\ pending # NoCommand
    /\ cases' = Append(cases, [form |-> pending.form, resolved |-> pending.resolved,
                               observed |-> o])
    /\ \E argv \in WhatRuns(pending) :
         ran' = IF o.decision = "deny" THEN ran
                ELSE ran \cup {[resolved |-> pending.resolved.argv, argv |-> argv,
                                approved |-> IF o.hitl = "none" THEN "nobody"
                                             ELSE o.action]}
    /\ pending' = NoCommand
    /\ UNCHANGED <<alias, assessed>>

(* evaluate: one expected classification for each case                     *)
CasePasses(c) ==
    LET expected == ClassifyCase(c) IN
    /\ c.observed.decision = expected.decision
    /\ c.observed.action = expected.action
    /\ c.observed.hitl = (IF expected.decision = "require-bound-approval"
                          THEN "one-bound-approval" ELSE "none")

(* require_policy: a policy that is not exactly this is an ERROR           *)
BrokerPolicies == OneOff(
    [default |-> "deny", wrapper |-> "env-assignments-only", readOnly |-> "none",
     highImpact |-> "one-bound-approval", unknown |-> "deny-without-prompt",
     opaque |-> "all five forms", scenarios |-> "all eleven"],
    [default |-> "allow", wrapper |-> "any", readOnly |-> "one-bound-approval",
     highImpact |-> "none", unknown |-> "one-bound-approval",
     opaque |-> "four forms", scenarios |-> "ten"])
BrokerPolicyAccepted(p) ==
    /\ p.default = "deny" /\ p.wrapper = "env-assignments-only"
    /\ p.readOnly = "none" /\ p.highImpact = "one-bound-approval"
    /\ p.unknown = "deny-without-prompt"
    /\ p.opaque = "all five forms" /\ p.scenarios = "all eleven"

(* require_case: what cannot be read as a case is an ERROR                 *)
CaseWellFormed(c) ==
    /\ c.form \in CommandForms /\ c.resolved.status \in {"complete", "unresolved", "opaque"}
    /\ c.observed \in Observed

BrokerVerdict(p) ==
    IF ~BrokerPolicyAccepted(p) \/ \E i \in DOMAIN cases : ~CaseWellFormed(cases[i])
    THEN "ERROR"
    ELSE IF \A i \in DOMAIN cases : CasePasses(cases[i]) THEN "PASS" ELSE "FAIL"

EvaluateBroker ==
    /\ assessed = "none" /\ pending = NoCommand /\ cases # <<>>
    /\ assessed' \in {BrokerVerdict(p) : p \in BrokerPolicies}
    /\ UNCHANGED <<alias, pending, cases, ran>>

BrokerNext ==
    /\ assessed = "none"
    /\ \/ \E argv \in Argvs \cup {NoArgv} : SetAlias(argv)
       \/ \E form \in CommandForms, argv \in Argvs : Resolve(form, argv)
       \/ \E o \in Observed : Decide(o)
       \/ EvaluateBroker

BrokerSpec == BrokerInit /\ [][BrokerNext]_brokerVars
-----------------------------------------------------------------------------
(* PassRanWithinPolicy: when the evidence passes, nothing was run that the   *)
(* engine could not resolve; and what ran as it was resolved was read-only  *)
(* when nobody was asked, and a push otherwise, under the one approval: of  *)
(* a forced push when it is asked for in a long spelling, of an ordinary    *)
(* push when it is not, which includes a push forced by -f or a +refspec.   *)
(* It says nothing of an alias that was changed between the resolution and  *)
(* the run: the evidence has only the resolution.                           *)
PassRanWithinPolicy ==
    assessed = "PASS" =>
        \A r \in ran :
            /\ r.resolved # NoArgv
            /\ r.argv = r.resolved =>
                 IF r.argv.operation = "status" THEN r.approved = "nobody"
                 ELSE /\ r.argv.operation = "push"
                      /\ r.approved = (IF r.argv.force = "long" THEN "push-force" ELSE "push")
=============================================================================
