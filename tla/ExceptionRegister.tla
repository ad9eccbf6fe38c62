-------------------------- MODULE ExceptionRegister --------------------------
(***************************************************************************)
(* The register of time-bound security exceptions and the verdict on it    *)
(* (time-bound-security-exceptions/scripts/verify.py).  Exception files    *)
(* are written, renewed and removed in a directory while somebody declares *)
(* a register of their digests; the verifier is given both later, with an  *)
(* evaluation time.  The digest of a file is its content.                  *)
(***************************************************************************)
EXTENDS Integers, FiniteSets, Documents

CONSTANTS
    ExceptionFiles,   \* names of files in the exceptions directory
    MaxExceptionLife, \* max_lifetime_days
    MaxRegisterAge,   \* max_register_age_minutes
    MaxRegisterTime,  \* bound: the clock stops here
    MaxEdits          \* bound: changes of the directory

ASSUME RegisterAssumption ==
    {MaxExceptionLife, MaxRegisterAge, MaxRegisterTime, MaxEdits} \subseteq Nat

VARIABLES
    today,
    directory,   \* file -> its exception, or NoExceptionFile
    register,    \* the declared register, or NoRegister
    edits,       \* bound: what of MaxEdits is used up
    registerVerdict

registerVars == <<today, directory, register, edits, registerVerdict>>

NoExceptionFile == [id |-> "none"]
NoRegister == [at |-> -1]
NoVerdict == [verdict |-> "none"]

RegisterInit ==
    /\ today = 0
    /\ directory = [f \in ExceptionFiles |-> NoExceptionFile]
    /\ register = NoRegister /\ edits = 0 /\ registerVerdict = NoVerdict

(* The people behind an exception: owner, risk reviewer and approver       *)
People == {"three", "own reviewer", "own approver"}

(* A file is written, or written anew; scope says whether it names one     *)
(* check of one control for one target.                                    *)
WriteException(f, e) ==
    /\ edits < MaxEdits /\ edits' = edits + 1
    /\ directory' = [directory EXCEPT ![f] = e]
    /\ UNCHANGED <<today, register, registerVerdict>>

RemoveExceptionFile(f) ==
    /\ directory[f] # NoExceptionFile /\ edits < MaxEdits /\ edits' = edits + 1
    /\ directory' = [directory EXCEPT ![f] = NoExceptionFile]
    /\ UNCHANGED <<today, register, registerVerdict>>

(* The register is declared, all of the directory or not.                  *)
DeclareRegister(complete, forgotten) ==
    /\ register' = [at |-> today, complete |-> complete,
                    entries |-> [f \in ExceptionFiles |->
                        IF f \in forgotten THEN NoExceptionFile ELSE directory[f]]]
    /\ UNCHANGED <<today, directory, edits, registerVerdict>>

RegisterTick ==
    /\ today < MaxRegisterTime /\ today' = today + 1
    /\ UNCHANGED <<directory, register, edits, registerVerdict>>

-----------------------------------------------------------------------------
Exceptions == {f \in ExceptionFiles : directory[f] # NoExceptionFile}

(* load_json, load_yaml, parse_timestamp, reject_sensitive_content: an ERROR *)
RegisterForms == Forms({"object", "times", "sensitive"})
RegisterReadable(x) == x.object /\ x.times = "with a timezone" /\ ~x.sensitive

(* load_policy: what is demanded of the caller's policy                    *)
RegisterPolicies == OneOff(
    [fields |-> "the interface's", limits |-> "positive", window |-> "below the lifetime",
     approval |-> "independent", review |-> "independent", targets |-> "named"],
    [fields |-> "more", limits |-> "zero", window |-> "above the lifetime",
     approval |-> "any", review |-> "any", targets |-> "none"])

RegisterPolicyAccepted(p) ==
    /\ p.fields = "the interface's" /\ p.limits = "positive"
    /\ p.window = "below the lifetime"
    /\ p.approval = "independent" /\ p.review = "independent" /\ p.targets = "named"

(* plausible mistake: only the registered files are compared               *)
RegisteredFilesMatch(r) ==
    /\ r.at >= 0 /\ r.complete
    /\ today - r.at \in 0..MaxRegisterAge
    /\ \A f \in ExceptionFiles : r.entries[f] # NoExceptionFile => directory[f] = r.entries[f]

(* verify_register: complete, in time, the same files with the same bytes; *)
(* anything else is an ERROR                                               *)
RegisterMatches(r) ==
    /\ r.at >= 0 /\ r.complete
    /\ today - r.at \in 0..MaxRegisterAge
    /\ directory = r.entries

(* evaluate_exception                                                      *)
ExceptionIssues(e) ==
    \/ ~e.exact
    \/ e.people # "three"
    \/ e.expires <= e.created
    \/ e.expires - e.created > MaxExceptionLife
    \/ e.created > today

ExceptionState(e) ==
    IF ExceptionIssues(e) THEN "INVALID"
    ELSE IF e.expires <= today THEN "EXPIRED" ELSE "IN FORCE"

(* run: duplicate identifiers are an ERROR                                 *)
DistinctIds ==
    \A f, g \in Exceptions : directory[f].id = directory[g].id => f = g

RegisterAnswer(p, x) ==
    IF ~RegisterReadable(x) \/ ~RegisterPolicyAccepted(p) \/ ~RegisterMatches(register)
       \/ ~DistinctIds
    THEN "ERROR"
    ELSE IF \A f \in Exceptions : ExceptionState(directory[f]) = "IN FORCE" THEN "PASS"
    ELSE "FAIL"

EvaluateRegister ==
    /\ registerVerdict' \in
         {[verdict |-> RegisterAnswer(p, x), at |-> today,
           files |-> {directory[f] : f \in Exceptions}, declared |-> register.at] :
             p \in RegisterPolicies, x \in RegisterForms}
    /\ UNCHANGED <<today, directory, register, edits>>

ExceptionContents ==
    [id: {"EXC-1", "EXC-2"}, exact: {TRUE}, people: {"three"}, created: 0..MaxRegisterTime,
     expires: 0..MaxRegisterTime + MaxExceptionLife]
      \cup [id: {"EXC-1"}, exact: BOOLEAN, people: People, created: {0},
            expires: {MaxExceptionLife}]

RegisterNext ==
    /\ registerVerdict = NoVerdict
    /\ \/ \E f \in ExceptionFiles, e \in ExceptionContents : WriteException(f, e)
       \/ \E f \in ExceptionFiles : RemoveExceptionFile(f)
       \/ \E complete \in BOOLEAN, forgotten \in SUBSET ExceptionFiles :
            DeclareRegister(complete, forgotten)
       \/ EvaluateRegister \/ RegisterTick

RegisterSpec == RegisterInit /\ [][RegisterNext]_registerVars
-----------------------------------------------------------------------------
(* PassedExceptionsAreBounded: when a register passes, each exception in   *)
(* the directory, however it was renewed, added or exchanged since the     *)
(* register was declared, is in force at that moment, has three people     *)
(* behind it and ends within the maximum lifetime from now; no two have    *)
(* one identifier, and the declaration is recent.                          *)
PassedExceptionsAreBounded ==
    registerVerdict.verdict = "PASS" =>
        /\ registerVerdict.at - registerVerdict.declared \in 0..MaxRegisterAge
        /\ registerVerdict.files = {register.entries[f] : f \in ExceptionFiles} \ {NoExceptionFile}
        /\ \A e \in registerVerdict.files :
              /\ e.people = "three" /\ e.exact
              /\ e.expires > registerVerdict.at
              /\ e.expires <= registerVerdict.at + MaxExceptionLife
        /\ \A e, f \in registerVerdict.files : e.id = f.id => e = f
=============================================================================
