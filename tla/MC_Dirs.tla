------------------------------- MODULE MC_Dirs -------------------------------
(***************************************************************************)
(* Model-checking instantiation of Dirs.  A path is the list of tokens     *)
(* strtok_r leaves of the string, so the paths the processes pass are      *)
(* defined here; d names directories and f regular files.                  *)
(***************************************************************************)
EXTENDS Dirs, TLC

CONSTANTS p1, p2

Rel(t) == [abs |-> FALSE, toks |-> t]
Abs(t) == [abs |-> TRUE, toks |-> t]

\* Paths whose directory part names directories only and whose last token
\* is a real name: "d", "/d", "d/d" for mkdir; "f", "/d/f", "../f" for
\* create; "f", "/d/f" for remove.
TreeMkdir == {Rel(<<"d">>), Abs(<<"d">>), Rel(<<"d", "d">>)}
TreeCreate == {Rel(<<"f">>), Abs(<<"d", "f">>), Rel(<<"..", "f">>)}
TreeRemove == {Rel(<<"f">>), Abs(<<"d", "f">>)}
\* chdir to "d", "..", "/" and "."; open "f", "." and "/d".
TreeChdir == {Rel(<<"d">>), Rel(<<"..">>), Abs(<<>>), Rel(<<".">>)}
TreeOpen == {Rel(<<"f">>), Rel(<<".">>), Abs(<<"d">>)}

\* rmdir of "/d".
RmdirRemove == {Abs(<<"d">>)}
=============================================================================
