----------------------------- MODULE FileAccess -----------------------------
(***************************************************************************)
(* What file tools and commands may touch (agent/sandbox.py and            *)
(* sandbox_mounts.py): the mount table, the routes of the file tools, the  *)
(* Bubblewrap mounts of a command, and the change of the filesystem mode.  *)
(* File tools run in the agent's own process and find their way through    *)
(* WorkspaceCompositeBackend; commands see what bwrap mounted.  Two pieces *)
(* of code, one policy.                                                    *)
(*                                                                         *)
(* A path is a sequence of names, <<>> is /.  Contents are not kept; a     *)
(* link leads to an absolute path.  Listing and searching are not here,    *)
(* nor is a user mount inside a protected directory.                       *)
(***************************************************************************)
EXTENDS Naturals, Sequences, SequencesExt, FiniteSetsExt

CONSTANTS
  Workspace, SkillsDir, SkillsRoot, ConfigDir, \* paths; SkillsRoot is /skills
  Install,    \* agent_install_paths
  Secrets,    \* protected_files outside the configuration directory
  Tree,       \* what is on the host at first: path -> [kind, to]
  Virtual,    \* paths the agent names
  MountLists, \* extra mounts: read-only ones first, each [dest, src, ro, modes]
  LinkAt, LinkTo, \* links a command may make
  Steps       \* bound on the operations

VARIABLES
  host,    \* path -> [kind : none, dir, file, link; to]
  mounts,  \* of the configuration
  mode, points, routes, \* published: the mounts of the next sandbox, and the tools' routes
  sandbox, \* the running sandbox: its mounts, the directories that were made anew for
           \* them, and what of the host at its start is still there
  steps

vars == <<host, mounts, mode, points, routes, sandbox, steps>>

Modes  == {"restricted", "full"}
Nothing == [kind |-> "none", to |-> <<>>]
Folder  == [kind |-> "dir", to |-> <<>>]
AFile   == [kind |-> "file", to |-> <<>>]
NoSandbox == [args |-> <<>>, mirrored |-> {}, entries |-> {}]

-----------------------------------------------------------------------------
(* Paths. *)

Within(p, root) == IsPrefix(root, p)
Parent(p) == Front(p)
Proper(p) == {SubSeq(p, 1, n) : n \in 1..(Len(p) - 1)}
Deepest(S) == CHOOSE m \in S : \A o \in S : Len(o.dest) <= Len(m.dest)

Rest(p, root) == SubSeq(p, Len(root) + 1, Len(p))

At(h, p) == IF p = <<>> THEN Folder ELSE IF p \in DOMAIN h THEN h[p] ELSE Nothing
Exists(h, p) == At(h, p).kind # "none"

\* Path.resolve, with links to links.
Follow(h, p) ==
  LET links == {n \in 1..Len(p) : At(h, SubSeq(p, 1, n)).kind = "link"} IN
  IF links = {} THEN p
  ELSE LET n == Min(links) IN At(h, SubSeq(p, 1, n)).to \o SubSeq(p, n + 1, Len(p))
Real(h, p) == Follow(h, Follow(h, p))

-----------------------------------------------------------------------------
(* The mount table of mode m: _mount_points and the checks of _validate_config. *)

Point(dest, src, ro, file) == [dest |-> dest, src |-> src, ro |-> ro, file |-> file]

Applies(m) == SelectSeq(mounts, LAMBDA x : m \in x.modes)
Points(m) ==
  <<Point(Workspace, Workspace, FALSE, FALSE)>>
  \o [i \in DOMAIN Applies(m) |->
        LET x == Applies(m)[i] IN Point(x.dest, x.src, x.ro, At(Tree, x.src).kind = "file")]
  \o <<Point(SkillsRoot, SkillsDir, FALSE, FALSE)>>

\* Mutant: a mount may be hidden by a later one.
VisibleAny(ps) == \A i, j \in DOMAIN ps : i < j => ps[i].dest # ps[j].dest
Visible(ps) == \A i, j \in DOMAIN ps : i < j => ~Within(ps[i].dest, ps[j].dest)

\* A nested mount shows what the mount around it shows there.
Aligned(ps) ==
  \A j \in DOMAIN ps :
    LET around == {ps[i] : i \in {k \in 1..(j - 1) : Within(ps[j].dest, ps[k].dest)}}
    IN around # {} =>
         LET p == Deepest(around) IN
         ~p.file /\ ps[j].src = Real(host, p.src \o Rest(ps[j].dest, p.dest))

\* _mount_args
Placeable(x) ==
  x.dest # Workspace /\ ~Within(x.dest, SkillsRoot) /\ ~Within(SkillsRoot, x.dest)

\* _validate_full_access
Meets(p, q) == Within(p, q) \/ Within(q, p)
KeepsProtection(x) ==
  /\ Within(x.src, ConfigDir) => Within(x.src, SkillsDir)
  /\ x.dest \notin {ConfigDir} \cup Secrets
  /\ ~x.ro => \A i \in Install : ~Meets(x.src, i) /\ ~Meets(x.dest, i)

Valid(m) ==
  /\ Visible(Points(m)) /\ Aligned(Points(m))
  /\ \A i \in DOMAIN Applies(m) :
       /\ Placeable(Applies(m)[i]) /\ Exists(host, Applies(m)[i].src)
       /\ m = "full" => KeepsProtection(Applies(m)[i])

-----------------------------------------------------------------------------
(* The routes of the file tools: _route_state, _get_backend_and_key. *)

Full == mode = "full"
PointSet(m) == {Points(m)[i] : i \in DOMAIN Points(m)}
Route(dest, src, kind) == [dest |-> dest, src |-> src, kind |-> kind]

HiddenRoutes  == {Route(p, p, "denied") : p \in {ConfigDir} \cup Secrets}
InstallRoutes == {Route(p, p, "ro") : p \in Install}
MountRoutes(m) ==
  {Route(p.dest, p.src, IF p.file THEN IF p.ro THEN "rofile" ELSE "file"
                        ELSE IF p.ro THEN "ro" ELSE "rw") : p \in PointSet(m)}
Dests(R) == {r.dest : r \in R}

\* A later entry replaces one with the same key.
RoutesOf(m) ==
  IF m # "full" THEN MountRoutes(m)
  ELSE HiddenRoutes
       \cup {r \in InstallRoutes : r.dest \notin Dests(HiddenRoutes)}
       \cup {r \in MountRoutes(m) : r.dest \notin Dests(HiddenRoutes \cup InstallRoutes)}

Default == IF Full THEN Route(<<>>, <<>>, "rw") ELSE Route(<<>>, <<>>, "denied")
RouteOf(v) ==
  LET found == {r \in routes : Within(v, r.dest)} IN
  IF found = {} THEN Default ELSE Deepest(found)

\* _resolve_path of the backend: a path that leads out of the mount is refused.
Place(r, v) == Real(host, r.src \o Rest(v, r.dest))
Resolves(r, v) ==
  /\ r.kind # "denied"
  /\ IF r.kind \in {"file", "rofile"} THEN v = r.dest ELSE Within(Place(r, v), r.src)

-----------------------------------------------------------------------------
(* _protection_error, in full-access. *)

TouchesHidden(h, write) ==
  \E p \in {ConfigDir} \cup Secrets : Within(h, p) \/ (write /\ Within(p, h))
TouchesInstall(h) == \E p \in Install : Meets(h, p)

Protected(v, write) ==
  /\ Full /\ Resolves(RouteOf(v), v)
  /\ LET h == Place(RouteOf(v), v) IN
     /\ ~(Within(v, SkillsRoot) /\ Within(h, SkillsDir))
     /\ TouchesHidden(h, write) \/ (write /\ TouchesInstall(h))

-----------------------------------------------------------------------------
(* _more_specific_mount: the mount nested in the one that was named. *)

Nested(route, h) ==
  {p \in points : /\ p.dest # route.dest /\ Within(p.dest, route.dest)
                        /\ p.src # route.src /\ Within(p.src, route.src)
                        /\ Within(h, p.src)}

ReadOnlyNested(v, h) ==
  LET named == {p \in points : Within(v, p.dest)} IN
  /\ named # {}
  /\ LET N == Nested(Deepest(named), h) IN
     N # {} /\ (CHOOSE p \in N : \A o \in N : Len(o.src) <= Len(p.src)).ro

\* _mutation_plan: the path on the host that v may change.
MayChange(v) ==
  LET r == RouteOf(v) IN
  /\ ~Protected(v, TRUE) /\ Resolves(r, v)
  /\ ~ReadOnlyNested(v, Place(r, v))
  /\ r.kind \in {"rw", "file"}

-----------------------------------------------------------------------------
(* What a command sees: BubblewrapBackend.sandbox_args, later mounts on top. *)

Mask(p) == Route(p, <<>>, "none")
BwrapArgs(m) ==
  (IF m = "full" THEN <<Route(<<>>, <<>>, "rw")>> ELSE <<>>)
  \o [i \in DOMAIN Points(m) |->
        Route(Points(m)[i].dest, Points(m)[i].src, IF Points(m)[i].ro THEN "ro" ELSE "rw")]
  \o (IF m = "full"
      THEN SetToSeq({Route(p, p, "ro") : p \in Install})
           \o SetToSeq({Mask(p) : p \in {ConfigDir} \cup Secrets})
      ELSE <<>>)

\* _full_access_created_dirs: what is mounted where the host has nothing.
Created(m) == IF m = "full" THEN {p.dest : p \in {q \in PointSet(m) : ~Exists(host, q.dest)}} ELSE {}
\* _mirror_host_directory: the root and each directory around a created one is a new
\* directory, with a mount of its own for every entry the host's has at that time.
Mirrored(m) == IF m = "full" THEN {<<>>} \cup UNION {Proper(c) : c \in Created(m)} ELSE {}
\* What came into such a directory later is the sandbox's own there and not the host's, and
\* so is an entry that the host removed: the mount of it stays.
Scratch(v) ==
  \E p \in {SubSeq(v, 1, n) : n \in DOMAIN v} :
    Parent(p) \in sandbox.mirrored /\ p \notin sandbox.entries

\* A place that only commands reach.
Own(v) == <<"tmpfs">> \o v
Seen(v) ==
  LET A == sandbox.args
      over == {i \in DOMAIN A : Within(v, A[i].dest)}
  IN IF over = {} THEN Mask(v)
     ELSE LET r == A[Max(over)] IN
          IF r.kind = "none" THEN Mask(v)
          ELSE IF r.dest = <<>> /\ Scratch(v) THEN Route(v, Own(v), "scratch")
          ELSE Route(v, r.src \o Rest(v, r.dest), r.kind)

-----------------------------------------------------------------------------
(* File tools. *)

Count == steps > 0 /\ steps' = steps - 1
Config == <<mounts, mode, points, routes, sandbox>>

\* read and download_files
MayRead(v) == ~Protected(v, FALSE) /\ Resolves(RouteOf(v), v)

\* write and upload_files of a new file; edit changes the contents of an old one.
Write(v) ==
  LET h == Place(RouteOf(v), v) IN
  /\ Count /\ MayChange(v)
  /\ h \in DOMAIN host /\ ~Exists(host, h) /\ At(host, Parent(h)).kind = "dir"
  /\ host' = [host EXCEPT ![h] = AFile] /\ UNCHANGED Config

\* _deletion_removes_mount_source
RemovesMount(h) == \E p \in points : Within(p.src, h)

\* delete: the last component is not followed.
Entry(v) == Real(host, RouteOf(v).src \o Rest(Parent(v), RouteOf(v).dest)) \o <<Last(v)>>
IsLink(h) == At(host, h).kind = "link"
MayDelete(v) ==
  LET r == RouteOf(v) IN
  /\ v # <<>> /\ ~Protected(v, TRUE)
  /\ r.kind = "rw" /\ v # r.dest /\ v \notin Dests(points)
  /\ Within(Parent(Entry(v)), r.src) /\ ~ReadOnlyNested(v, Parent(Entry(v)))
  /\ Exists(host, Entry(v))
  /\ IsLink(Entry(v)) \/ (Resolves(r, v) /\ ~RemovesMount(Entry(v)))

\* What goes with h.
Removed(h) == {p \in DOMAIN host : p = h \/ (~IsLink(h) /\ Within(p, h))}
Delete(v) ==
  /\ Count /\ MayDelete(v)
  /\ host' = [p \in DOMAIN host |-> IF p \in Removed(Entry(v)) THEN Nothing ELSE host[p]]
  /\ sandbox' = [sandbox EXCEPT !.entries = @ \ Removed(Entry(v))]
  /\ UNCHANGED <<mounts, mode, points, routes>>

-----------------------------------------------------------------------------
(* Commands, and the mode. *)

\* pool.run: a sandbox is started where there is none.
StartSandbox ==
  /\ sandbox = NoSandbox
  /\ sandbox' = [args |-> BwrapArgs(mode), mirrored |-> Mirrored(mode),
                 entries |-> {p \in DOMAIN host : Exists(host, p)}]
  /\ UNCHANGED <<host, mounts, mode, points, routes, steps>>

\* A command makes a file or a link.
Command(v, node) ==
  LET s == Seen(v) IN
  /\ sandbox # NoSandbox /\ Count
  /\ s.kind = "rw" /\ s.src = Real(host, s.src)
  /\ s.src \in DOMAIN host /\ ~Exists(host, s.src) /\ At(host, Parent(s.src)).kind = "dir"
  /\ host' = [host EXCEPT ![s.src] = node]
  /\ UNCHANGED Config

\* apply_sandbox_mode: the routes are made, the sandboxes stopped, the mode published.
Publish(m) == mode' = m /\ points' = PointSet(m) /\ routes' = RoutesOf(m)
ApplySandboxMode ==
  /\ Count
  /\ \E m \in Modes \ {mode} :
       /\ Valid(m) /\ Publish(m) /\ sandbox' = NoSandbox
  /\ UNCHANGED <<host, mounts>>

-----------------------------------------------------------------------------
\* The agent starts in a mode whose mounts are valid.
Init ==
  /\ host = Tree /\ mounts \in MountLists /\ mode \in Modes
  /\ sandbox = NoSandbox /\ steps = Steps
  /\ Valid(mode) /\ points = PointSet(mode) /\ routes = RoutesOf(mode)

Next ==
  \/ \E v \in Virtual : Write(v) \/ Delete(v)
  \/ StartSandbox \/ ApplySandboxMode
  \/ \E v \in Virtual : Command(v, AFile)
  \/ \E v \in LinkAt, t \in LinkTo : Command(v, [kind |-> "link", to |-> t])

Spec == Init /\ [][Next]_vars

-----------------------------------------------------------------------------
\* What of the host no command of the running sandbox reaches at its path, because it sees
\* a directory of its own there; the file tools reach the host's.
Apart(p) == Seen(p).kind = "scratch"

\* On a path without links, a file tool that reads or changes reaches the very file a
\* command reaches there, and may change it only where a command may; but for what is apart.
Plain(v) == Place(RouteOf(v), v) = RouteOf(v).src \o Rest(v, RouteOf(v).dest)
SameView ==
  sandbox # NoSandbox =>
  \A v \in Virtual : Plain(v) /\ ~Apart(v) =>
    LET s == Seen(v)
        same == s.src = Place(RouteOf(v), v)
    IN /\ MayRead(v) => s.kind # "none" /\ same
       /\ MayChange(v) => s.kind = "rw" /\ same

\* Through no link, alias or nested mount do file tools reach what commands may not see,
\* or change or remove what commands may only read; but for what is apart.
ToolsLikeCommands ==
  sandbox # NoSandbox =>
  LET seen  == {Seen(v) : v \in Virtual}
      read  == {s.src : s \in {t \in seen : t.kind # "none"}}
      write == {s.src : s \in {t \in seen : t.kind = "rw"}}
  IN \A v \in Virtual :
       LET h == Place(RouteOf(v), v) IN
       /\ MayRead(v) /\ Exists(host, h) => h \in read \/ Apart(h)
       /\ MayChange(v) /\ h \in DOMAIN host => h \in write \/ Apart(h)
       /\ MayDelete(v) => \A p \in Removed(Entry(v)) : Exists(host, p) => p \in write \/ Apart(p)

\* A mount that is in use keeps its source.
MountsStay == \A p \in points : Exists(host, p.src)

\* In full-access / is the host's: no command writes to a directory of its own where the
\* file tools write to the host's.
WritesLand == sandbox # NoSandbox => \A v \in Virtual : MayChange(v) => ~Apart(v)

\* File tools and commands see and may change the same files, and neither removes what a
\* mount is made of.  It is not so for what comes into, or goes from, the directories that
\* the sandbox made anew (Apart); WritesLand, which is violated, says that these are none.
OneView == SameView /\ ToolsLikeCommands /\ MountsStay
=============================================================================
