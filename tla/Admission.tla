------------------------------ MODULE Admission ------------------------------
(***************************************************************************)
(* Who is let in and what may run: crates/auth, the handshake of the       *)
(* coordinator, the token and policy files of the worker's connect loop,   *)
(* and crates/policy.                                                      *)
(*                                                                         *)
(* All of it is decided by files that operators edit while the programs    *)
(* run.  The coordinator reads its token files once, when it starts; a     *)
(* worker reads its token file before, and its policy file after, each     *)
(* handshake; agentctl reads its token file once in each invocation.       *)
(***************************************************************************)
EXTENDS Naturals

CONSTANTS
    Token,      \* the contents of a token file, trimmed
    Bad,        \* a file that is missing, empty or does not parse
    Unset,      \* an option that was not given, and the token nobody sends
    Down,       \* the configuration of a coordinator that does not run
    Command,    \* the first words of commands, and the entries of policy lists
    NameOf,     \* NameOf[c]: the file name of the path c
    Policy,     \* bound: the contents of policy files
    Edits       \* bound: how often some file is edited

Role == {"worker", "client"}
Option == {"shared", "worker", "client"}
TokenFile == Token \cup {Bad, Unset}
Lists == [mode : {"allow_all", "deny_all"}, allow : SUBSET Command, deny : SUBSET Command]

ASSUME TokenAssumption == Bad \notin Token /\ Unset \notin Token /\ Bad # Unset
ASSUME DownAssumption == Down \notin [Role -> Token \cup {Unset}]
ASSUME NameOfAssumption == NameOf \in [Command -> Command]
ASSUME PolicyAssumption == Policy \subseteq Lists /\ Bad \notin Lists /\ Unset \notin Lists
ASSUME EditsAssumption == Edits \in Nat

VARIABLES
    (* on disk *)
    option,     \* option[o]: the file behind a token option of the coordinator
    tokenFile,  \* tokenFile[r]: the token file of the worker, of agentctl
    policyFile, \* the policy file of the worker
    edits,      \* how often a file has been edited
    (* the coordinator *)
    auth,       \* its AuthConfig, or Down
    seen,       \* its token files as they were when it started
    (* the worker's connect loop, and an invocation of agentctl *)
    pc,         \* pc[r]: "out", "asking", "in", or "listening" for tasks
    token,      \* token[r]: the token it asks, or asked, to be let in with
    policy,     \* the ConfigPolicy of the worker's session
    read,       \* the policy file as the session read it
    ran         \* the last process started: its command, and read at that time

diskVars == <<option, tokenFile, policyFile, edits>>
authVars == <<auth, seen>>
workVars == <<policy, read, ran>>
admissionVars == <<diskVars, authVars, pc, token, workVars>>

AllowAll == [mode |-> "allow_all", allow |-> {}, deny |-> {}]

TypeOK ==
    /\ option \in [Option -> TokenFile]
    /\ tokenFile \in [Role -> TokenFile]
    /\ policyFile \in Policy \cup {Bad, Unset}
    /\ edits \in Nat
    /\ auth \in [Role -> Token \cup {Unset}] \cup {Down}
    /\ seen \in [Option -> TokenFile]
    /\ pc \in [Role -> {"out", "asking", "in", "listening"}]
    /\ token \in [Role -> Token \cup {Unset}]
    /\ policy \in Policy \cup {AllowAll}
    /\ read \in Policy \cup {Unset}
    /\ ran \in [command : Command, under : Policy \cup {Unset}] \cup {Unset}

Init ==
    /\ option \in [Option -> TokenFile]
    /\ tokenFile \in [Role -> TokenFile]
    /\ policyFile \in Policy \cup {Bad, Unset}
    /\ edits = 0
    /\ auth = Down
    /\ seen = option
    /\ pc = [r \in Role |-> "out"]
    /\ token = [r \in Role |-> Unset]
    /\ policy = AllowAll
    /\ read = Unset
    /\ ran = Unset

------------------------------------------------------------------------------
(* Operators edit, create and remove files; options stay what they are *)

Edit ==
    /\ edits < Edits
    /\ edits' = edits + 1
    /\ \/ /\ \E o \in Option, new \in Token \cup {Bad} :
                option[o] # Unset /\ option' = [option EXCEPT ![o] = new]
          /\ UNCHANGED <<tokenFile, policyFile>>
       \/ /\ \E r \in Role, new \in Token \cup {Bad} :
                tokenFile[r] # Unset /\ tokenFile' = [tokenFile EXCEPT ![r] = new]
          /\ UNCHANGED <<option, policyFile>>
       \/ /\ policyFile # Unset
          /\ policyFile' \in Policy \cup {Bad}
          /\ UNCHANGED <<option, tokenFile>>
    /\ UNCHANGED <<authVars, pc, token, workVars>>

------------------------------------------------------------------------------
(* AuthConfig *)

Readable(files) == \A o \in Option : files[o] # Bad

\* Mutant of FromFiles: a worker's file is not overridden by, but overrides, the rest.
FromSharedFirst(files) ==
    [r \in Role |-> IF files["shared"] # Unset THEN files["shared"] ELSE files[r]]

\* The token of a role is that of its own file, else of the shared one.
FromFiles(files) ==
    [r \in Role |-> IF files[r] # Unset THEN files[r] ELSE files["shared"]]

Enabled(config) == \E r \in Role : config[r] # Unset

\* authenticate_request and ensure_role: once one role has a token, both need one.
LetsIn(config, r, presented) ==
    \/ ~Enabled(config)
    \/ /\ presented # Unset
       /\ config[r] # Unset
       /\ presented = config[r]

------------------------------------------------------------------------------
(* The coordinator *)

\* Mutant of Start: a token file that cannot be read is not noticed.
StartAnyway ==
    /\ auth = Down
    /\ auth' = FromFiles(option)
    /\ seen' = option
    /\ UNCHANGED <<diskVars, pc, token, workVars>>

\* A token file that cannot be read keeps it from starting.
Start ==
    /\ auth = Down
    /\ Readable(option)
    /\ auth' = FromFiles(option)
    /\ seen' = option
    /\ UNCHANGED <<diskVars, pc, token, workVars>>

\* Its sessions end.  A worker that had still to read its policy file would read it, and
\* find its connection gone: that reading is left out.
Stop ==
    /\ auth # Down
    /\ auth' = Down
    /\ pc' = [r \in Role |-> IF pc[r] \in {"in", "listening"} THEN "out" ELSE pc[r]]
    /\ UNCHANGED <<diskVars, seen, token, workVars>>

------------------------------------------------------------------------------
(* The worker's loop, and agentctl *)

\* Each attempt reads the token file again.
ReadToken(r) ==
    /\ pc[r] = "out"
    /\ tokenFile[r] # Bad
    /\ token' = [token EXCEPT ![r] = tokenFile[r]]
    /\ pc' = [pc EXCEPT ![r] = "asking"]
    /\ UNCHANGED <<diskVars, authVars, workVars>>

\* Mutant of Ask: a worker that is refused asks again with the same token.
AskAgain(r) ==
    /\ pc[r] = "asking"
    /\ auth # Down /\ LetsIn(auth, r, token[r])
    /\ pc' = [pc EXCEPT ![r] = "in"]
    /\ UNCHANGED <<diskVars, authVars, token, workVars>>

\* The handshake.  An attempt that fails ends agentctl, and leaves the worker to its
\* backoff and the next attempt.
Ask(r) ==
    /\ pc[r] = "asking"
    /\ pc' = [pc EXCEPT ![r] =
                IF auth # Down /\ LetsIn(auth, r, token[r]) THEN "in" ELSE "out"]
    /\ UNCHANGED <<diskVars, authVars, token, workVars>>

\* A session ends.  run_worker comes to its policy file, whatever becomes of the
\* connection: it awaits nothing but room for its registration.
Leave(r) ==
    /\ pc[r] = IF r = "worker" THEN "listening" ELSE "in"
    /\ pc' = [pc EXCEPT ![r] = "out"]
    /\ UNCHANGED <<diskVars, authVars, token, workVars>>

\* Mutant of LoadPolicy: a policy, once read, is kept for the sessions to come.
LoadPolicyOnce ==
    /\ pc["worker"] = "in"
    /\ IF policyFile = Bad
       THEN pc' = [pc EXCEPT !["worker"] = "out"] /\ UNCHANGED <<policy, read>>
       ELSE /\ pc' = [pc EXCEPT !["worker"] = "listening"]
            /\ policy' = IF policyFile = Unset \/ policy # AllowAll THEN policy ELSE policyFile
            /\ read' = policyFile
    /\ UNCHANGED <<diskVars, authVars, token, ran>>

\* The policy file is read when the worker is registered already; when it does not
\* parse, the worker gives the session up and begins again.
LoadPolicy ==
    /\ pc["worker"] = "in"
    /\ IF policyFile = Bad
       THEN pc' = [pc EXCEPT !["worker"] = "out"] /\ UNCHANGED <<policy, read>>
       ELSE /\ pc' = [pc EXCEPT !["worker"] = "listening"]
            /\ policy' = IF policyFile = Unset THEN AllowAll ELSE policyFile
            /\ read' = policyFile
    /\ UNCHANGED <<diskVars, authVars, token, ran>>

------------------------------------------------------------------------------
(* ConfigPolicy *)

MatchesAny(command, list) == \E entry \in list : command = entry \/ NameOf[command] = entry

\* authorize: the deny list comes first, whatever the mode.
Authorize(config, command) ==
    /\ ~MatchesAny(command, config.deny)
    /\ config.mode = "allow_all" \/ MatchesAny(command, config.allow)

StartTask(command) ==
    /\ pc["worker"] = "listening"
    /\ Authorize(policy, command)
    /\ ran' = [command |-> command, under |-> read]
    /\ UNCHANGED <<diskVars, authVars, pc, token, policy, read>>

------------------------------------------------------------------------------
Next ==
    \/ Edit
    \/ Start \/ Stop
    \/ \E r \in Role : ReadToken(r) \/ Ask(r) \/ Leave(r)
    \/ LoadPolicy
    \/ \E command \in Command : StartTask(command)

Spec == Init /\ [][Next]_admissionVars

\* The worker's loop goes round: it backs off for at most 30 seconds.
FairSpec ==
    /\ Spec
    /\ WF_admissionVars(ReadToken("worker"))
    /\ WF_admissionVars(Ask("worker"))
    /\ WF_admissionVars(LoadPolicy)

------------------------------------------------------------------------------
\* The token a role needs, as the options are documented: its own file overrides the
\* shared one.  Unset: nobody needs one, or nobody has the role.
Open(files) == \A o \in Option : files[o] = Unset
Needed(files, r) == IF files[r] = Unset THEN files["shared"] ELSE files[r]

Entitled(files, r, presented) ==
    Open(files) \/ (presented # Unset /\ presented = Needed(files, r))

\* Whoever has a session asked with the token its role needs, as the files said when the
\* coordinator started.  A file that is bad never opens the coordinator to everyone,
\* a role without a token is closed once the other has one, and no session outlives
\* the coordinator that let it in.
SessionsAreEntitled ==
    \A r \in Role : pc[r] \in {"in", "listening"} =>
        auth # Down /\ Readable(seen) /\ Entitled(seen, r, token[r])

\* A process was started only if the policy file, as its session read it, neither denies
\* the command nor the name of its file, and allows one of them when the mode is to
\* deny; and the file in force is that of the session, not of an earlier one.
ProcessesArePermitted ==
    ran # Unset /\ ran.under # Unset =>
        LET names == {ran.command, NameOf[ran.command]} IN
        /\ names \cap ran.under.deny = {}
        /\ ran.under.mode = "deny_all" => names \cap ran.under.allow # {}

\* The worker's files are good, and its token is the one the running coordinator wants.
Ready ==
    /\ auth # Down
    /\ tokenFile["worker"] # Bad
    /\ Entitled(seen, "worker", tokenFile["worker"])
    /\ policyFile # Bad

\* A worker whose files are, or have become, good comes to listen for tasks, however
\* often it was refused before: no restart of the worker is needed.
ReadyWorkerListens == Ready ~> pc["worker"] = "listening" \/ ~Ready
=============================================================================
