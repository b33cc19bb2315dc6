--------------------------- MODULE MCFileAccess ---------------------------
(* A small host: a workspace with the agent's own package in it, the       *)
(* configuration directory with the skills, and a directory besides.       *)
EXTENDS FileAccess

W == <<"w">>
D == <<"w", "d">>
I == <<"w", "i">>
X == <<"x">>
C == <<"c">>
S == <<"c", "s">>
M == <<"m">>
Q == <<"x", "q">>
Below(p, name) == Append(p, name)

Folders == {W, D, I, X, C, S}
Files == {Below(D, "f"), Below(I, "f"), Below(X, "f"), Below(X, "k"), Below(C, "f"), Below(S, "f")}
Slots == {Below(W, "l"), Below(D, "n"), Below(X, "n"), Below(S, "n"), Q, M, <<"skills">>}
MCTree == [p \in Folders \cup Files \cup Slots |->
             IF p \in Folders THEN Folder ELSE IF p \in Files THEN AFile ELSE Nothing]

MCVirtual ==
  DOMAIN MCTree \cup {Below(<<"skills">>, n) : n \in {"f", "n"}} \cup {Below(M, n) : n \in {"f", "n"}}
  \cup {Below(Below(W, "l"), n) : n \in {"f", "n"}} \cup {Below(Q, "f")}

MCSkillsRoot == <<"skills">>
MCInstall == {I}
MCSecrets == {Below(X, "k")}
MCLinkAt == {Below(W, "l"), Below(<<"skills">>, "n")}
MCLinkTo == {D, X, C, I, Below(I, "f"), Below(X, "k")}

Mount(dest, src, ro, modes) == [dest |-> dest, src |-> src, ro |-> ro, modes |-> modes]
ReadOnly  == {Mount(D, D, TRUE, Modes), Mount(M, W, TRUE, Modes), Mount(M, Below(D, "f"), TRUE, Modes),
              Mount(X, X, TRUE, {"full"}), Mount(Q, D, TRUE, Modes)}
ReadWrite == {Mount(M, X, FALSE, Modes), Mount(W \o <<"l">>, X, FALSE, Modes), Mount(X, X, FALSE, Modes),
              Mount(M, I, FALSE, Modes), Mount(M, C, FALSE, Modes)}
\* One mount, or a read-only and a writable one that share a place or a source.
Related(a, b) == Meets(a.dest, b.dest) \/ Meets(a.src, b.src)
MCMountLists ==
  {<<>>} \cup {<<m>> : m \in ReadOnly \cup ReadWrite}
  \cup {<<p[1], p[2]>> : p \in {q \in ReadOnly \X ReadWrite : Related(q[1], q[2])}}
============================================================================
