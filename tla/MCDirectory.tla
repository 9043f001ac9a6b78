---------------------------- MODULE MCDirectory ----------------------------
(* root, super_admin, runs the directory.  ben reports to her and cem to    *)
(* ben; dan may be hired below cem, and cem may come to be hr_admin.        *)
EXTENDS Directory, TLC

CONSTANTS root, ben, cem, dan

Symmetry == Permutations(WriteCalls) \cup Permutations(GrantCalls)

Account0(role, manager) ==
    [role |-> role, active |-> TRUE, manager |-> manager, removed |-> FALSE]

MCStaff == [u \in Users |->
    CASE u = root -> Account0("super_admin", None)
      [] u = ben -> Account0("supervisor", root)
      [] u = cem -> Account0("supervisor", ben)
      [] OTHER -> None]

MCNewcomers == {<<dan, cem>>}
MCEdits == {<<ben, dan, TRUE>>, <<cem, root, TRUE>>, <<cem, ben, FALSE>>}
MCGrants == {<<cem, "hr_admin">>, <<cem, "employee">>, <<cem, "owner">>}

\* Each puts one of the two below the other.
LoopEdits == {<<ben, cem, TRUE>>, <<cem, root, TRUE>>, <<cem, ben, TRUE>>}
==============================================================================
