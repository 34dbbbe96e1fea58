----------------------------- MODULE MCAdmission -----------------------------
(***************************************************************************)
(* A small instance of Admission.                                          *)
(***************************************************************************)
EXTENDS Admission

CONSTANTS a, b

TwoTokens == {a, b}
Commands == {"rm", "/bin/rm", "python"}
FileNames == [c \in Commands |-> IF c = "/bin/rm" THEN "rm" ELSE c]

\* One policy denies a name, one a path, one allows what it also denies.
Policies ==
    {[mode |-> "allow_all", allow |-> {}, deny |-> {"rm"}],
     [mode |-> "allow_all", allow |-> {}, deny |-> {"/bin/rm"}],
     [mode |-> "deny_all", allow |-> {"rm", "python"}, deny |-> {"/bin/rm"}]}
=============================================================================
