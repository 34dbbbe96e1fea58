--------------------------- MODULE AdmissionProofs ---------------------------
(***************************************************************************)
(* Who has a session was entitled to it, and what was started was          *)
(* permitted, for any tokens, commands and policies and however often the  *)
(* files are edited.  The inductive invariant ties what a program holds to *)
(* the files as they were when it read them.                               *)
(***************************************************************************)
EXTENDS Admission, TLAPS

\* The coordinator's tokens are those of files it could read.
AuthIsRead == auth # Down => auth = FromFiles(seen) /\ Readable(seen)

\* A session is with a coordinator that let it in.
SessionsAreLetIn ==
    \A r \in Role : pc[r] \in {"in", "listening"} => auth # Down /\ LetsIn(auth, r, token[r])

\* The worker that listens keeps to the file its session read.
PolicyIsRead ==
    pc["worker"] = "listening" => policy = IF read = Unset THEN AllowAll ELSE read

AdmissionInv ==
    TypeOK /\ AuthIsRead /\ SessionsAreLetIn /\ PolicyIsRead /\ ProcessesArePermitted

\* What from_files makes of files that could be read is a configuration.
LEMMA FromFilesTyped ==
    ASSUME NEW files \in [Option -> TokenFile], Readable(files)
    PROVE  FromFiles(files) \in [Role -> Token \cup {Unset}]
BY DEF FromFiles, Readable, Option, Role, TokenFile

\* The handshake admits those who have the token the documented options ask for.
LEMMA AdmittedIsEntitled ==
    ASSUME NEW files \in [Option -> TokenFile], NEW r \in Role, NEW presented,
           LetsIn(FromFiles(files), r, presented)
    PROVE  Entitled(files, r, presented)
<1>1. FromFiles(files)[r] = Needed(files, r)
  BY DEF FromFiles, Needed
<1>2. CASE ~Enabled(FromFiles(files))
  <2>1. FromFiles(files)["worker"] = Unset /\ FromFiles(files)["client"] = Unset
    BY <1>2 DEF Enabled, Role
  <2>2. Open(files)
    BY <2>1 DEF FromFiles, Open, Option, Role
  <2>. QED BY <2>2 DEF Entitled
<1>3. CASE Enabled(FromFiles(files))
  BY <1>1, <1>3 DEF LetsIn, Entitled
<1>. QED BY <1>2, <1>3

\* What the policy lets pass is on no deny list, and on the allow list where one counts.
LEMMA AuthorizedIsPermitted ==
    ASSUME NEW config, NEW command, Authorize(config, command), config.mode # "allow_all"
    PROVE  {command, NameOf[command]} \cap config.allow # {}
BY DEF Authorize, MatchesAny

\* Nobody is in, and nothing was read, at first ...
LEMMA AdmissionInit == Init => AdmissionInv
BY DEF Init, AdmissionInv, TypeOK, AuthIsRead, SessionsAreLetIn, PolicyIsRead,
       ProcessesArePermitted

\* The files change under the programs, not what the programs hold.
LEMMA EditKeeps ==
    ASSUME AdmissionInv, Edit
    PROVE  AdmissionInv'
<1>. USE DEF AdmissionInv
<1>1. TypeOK'
  BY EditsAssumption DEF Edit, TypeOK, TokenFile, authVars, workVars
<1>2. UNCHANGED <<auth, seen, pc, token, policy, read, ran>>
  BY DEF Edit, authVars, workVars
<1>. QED BY <1>1, <1>2
         DEF AuthIsRead, SessionsAreLetIn, PolicyIsRead, ProcessesArePermitted

\* The coordinator starts with nobody inside, and takes everybody with it.
LEMMA CoordinatorKeeps ==
    ASSUME AdmissionInv, Start \/ Stop
    PROVE  AdmissionInv'
<1>. USE DEF AdmissionInv
<1>1. CASE Start
  <2>1. auth' = FromFiles(option) /\ seen' = option /\ Readable(option) /\ auth = Down
    BY <1>1 DEF Start
  <2>2. UNCHANGED <<option, tokenFile, policyFile, edits, pc, token, policy, read, ran>>
    BY <1>1 DEF Start, diskVars, workVars
  <2>3. FromFiles(option) \in [Role -> Token \cup {Unset}]
    BY <2>1, FromFilesTyped DEF TypeOK
  <2>4. TypeOK'
    BY <2>1, <2>2, <2>3 DEF TypeOK
  <2>5. SessionsAreLetIn'
    BY <2>1, <2>2 DEF SessionsAreLetIn
  <2>. QED BY <2>1, <2>2, <2>4, <2>5 DEF AuthIsRead, PolicyIsRead, ProcessesArePermitted
<1>2. CASE Stop
  <2>1. TypeOK'
    BY <1>2 DEF Stop, TypeOK, diskVars, workVars
  <2>2. \A r \in Role : pc'[r] \notin {"in", "listening"}
    BY <1>2 DEF Stop, TypeOK
  <2>3. "worker" \in Role
    BY DEF Role
  <2>4. auth' = Down /\ UNCHANGED ran
    BY <1>2 DEF Stop, workVars
  <2>. QED BY <2>1, <2>2, <2>3, <2>4
           DEF AuthIsRead, SessionsAreLetIn, PolicyIsRead, ProcessesArePermitted
<1>. QED BY <1>1, <1>2

\* A session begins when the coordinator lets it in, and not before.
LEMMA SessionKeeps ==
    ASSUME AdmissionInv, NEW r \in Role, ReadToken(r) \/ Ask(r) \/ Leave(r)
    PROVE  AdmissionInv'
<1>. USE DEF AdmissionInv
<1>1. UNCHANGED <<option, tokenFile, policyFile, edits, auth, seen, policy, read, ran>>
  BY DEF ReadToken, Ask, Leave, diskVars, authVars, workVars
<1>2. TypeOK'
  <2>1. CASE ReadToken(r)
    <3>1. tokenFile[r] \in Token \cup {Unset}
      BY <2>1 DEF ReadToken, TypeOK, TokenFile
    <3>. QED BY <1>1, <2>1, <3>1 DEF ReadToken, TypeOK
  <2>2. CASE Ask(r) \/ Leave(r)
    BY <1>1, <2>2 DEF Ask, Leave, TypeOK
  <2>. QED BY <2>1, <2>2
<1>3. SessionsAreLetIn'
  <2>1. CASE ReadToken(r)
    BY <1>1, <2>1 DEF ReadToken, SessionsAreLetIn, TypeOK
  <2>2. CASE Ask(r)
    BY <1>1, <2>2 DEF Ask, SessionsAreLetIn, TypeOK, authVars
  <2>3. CASE Leave(r)
    BY <1>1, <2>3 DEF Leave, SessionsAreLetIn, TypeOK
  <2>. QED BY <2>1, <2>2, <2>3
<1>4. pc'["worker"] = "listening" => pc["worker"] = "listening"
  BY DEF ReadToken, Ask, Leave, TypeOK, Role
<1>. QED BY <1>1, <1>2, <1>3, <1>4 DEF AuthIsRead, PolicyIsRead, ProcessesArePermitted

\* The policy of a session is the file the session reads.
LEMMA LoadPolicyKeeps ==
    ASSUME AdmissionInv, LoadPolicy
    PROVE  AdmissionInv'
<1>. USE DEF AdmissionInv
<1>1. UNCHANGED <<option, tokenFile, policyFile, edits, auth, seen, token, ran>>
  BY DEF LoadPolicy, diskVars, authVars
<1>2. /\ pc["worker"] = "in" /\ "worker" \in Role
      /\ \A r \in Role \ {"worker"} : pc'[r] = pc[r]
      /\ pc'["worker"] \in {"out", "listening"}
  BY DEF LoadPolicy, TypeOK, Role
<1>3. TypeOK'
  BY <1>1, PolicyAssumption DEF LoadPolicy, TypeOK
<1>4. SessionsAreLetIn'
  BY <1>1, <1>2 DEF SessionsAreLetIn
<1>5. PolicyIsRead'
  BY <1>2 DEF LoadPolicy, TypeOK, PolicyIsRead
<1>. QED BY <1>1, <1>3, <1>4, <1>5 DEF AuthIsRead, ProcessesArePermitted

\* A process is started under the policy of the session.
LEMMA StartTaskKeeps ==
    ASSUME AdmissionInv, NEW command \in Command, StartTask(command)
    PROVE  AdmissionInv'
<1>. USE DEF AdmissionInv
<1>1. UNCHANGED <<option, tokenFile, policyFile, edits, auth, seen, pc, token, policy, read>>
  BY DEF StartTask, diskVars, authVars
<1>2. ran' = [command |-> command, under |-> read] /\ Authorize(policy, command)
  BY DEF StartTask
<1>3. TypeOK'
  BY <1>1, <1>2 DEF TypeOK
<1>4. ProcessesArePermitted'
  <2>. SUFFICES ASSUME read # Unset
                PROVE  /\ {command, NameOf[command]} \cap read.deny = {}
                       /\ read.mode = "deny_all" =>
                              {command, NameOf[command]} \cap read.allow # {}
    BY <1>2 DEF ProcessesArePermitted
  <2>1. policy = read
    BY DEF PolicyIsRead, StartTask
  <2>2. {command, NameOf[command]} \cap policy.deny = {}
    BY <1>2 DEF Authorize, MatchesAny
  <2>3. policy.mode = "deny_all" => {command, NameOf[command]} \cap policy.allow # {}
    BY <1>2, AuthorizedIsPermitted
  <2>. QED BY <2>1, <2>2, <2>3
<1>. QED BY <1>1, <1>3, <1>4 DEF AuthIsRead, SessionsAreLetIn, PolicyIsRead

\* ... and each step keeps what is held to what was read.
LEMMA AdmissionInductive == AdmissionInv /\ [Next]_admissionVars => AdmissionInv'
<1>. SUFFICES ASSUME AdmissionInv, [Next]_admissionVars PROVE AdmissionInv'
  OBVIOUS
<1>1. CASE Next
  BY <1>1, EditKeeps, CoordinatorKeeps, SessionKeeps, LoadPolicyKeeps, StartTaskKeeps DEF Next
<1>2. CASE UNCHANGED admissionVars
  BY <1>2
     DEF admissionVars, diskVars, authVars, workVars, AdmissionInv, TypeOK, AuthIsRead,
         SessionsAreLetIn, PolicyIsRead, ProcessesArePermitted
<1>. QED BY <1>1, <1>2

------------------------------------------------------------------------------
\* Everything the programs hold was read from a file: a token that is not Bad, and a
\* policy that parses.  A file that is missing or broken is never in force.
THEOREM AdmissionTyped == Spec => []TypeOK
<1>1. AdmissionInv => TypeOK
  BY DEF AdmissionInv
<1>. QED BY <1>1, AdmissionInit, AdmissionInductive, PTL DEF Spec

\* Whoever has a session asked with the token its role needs, as the files said when the
\* coordinator started.
THEOREM SessionsEntitled == Spec => []SessionsAreEntitled
<1>1. ASSUME AdmissionInv PROVE SessionsAreEntitled
  <2>. SUFFICES ASSUME NEW r \in Role, pc[r] \in {"in", "listening"}
                PROVE  auth # Down /\ Readable(seen) /\ Entitled(seen, r, token[r])
    BY DEF SessionsAreEntitled
  <2>1. auth # Down /\ LetsIn(auth, r, token[r])
    BY <1>1 DEF AdmissionInv, SessionsAreLetIn
  <2>2. auth = FromFiles(seen) /\ Readable(seen)
    BY <1>1, <2>1 DEF AdmissionInv, AuthIsRead
  <2>3. seen \in [Option -> TokenFile]
    BY <1>1 DEF AdmissionInv, TypeOK
  <2>. QED BY <2>1, <2>2, <2>3, AdmittedIsEntitled
<1>. QED BY <1>1, AdmissionInit, AdmissionInductive, PTL DEF Spec

\* What was started is permitted by the policy file as its session read it.
THEOREM ProcessesPermitted == Spec => []ProcessesArePermitted
<1>1. AdmissionInv => ProcessesArePermitted
  BY DEF AdmissionInv
<1>. QED BY <1>1, AdmissionInit, AdmissionInductive, PTL DEF Spec
=============================================================================
