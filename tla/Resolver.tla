------------------------------ MODULE Resolver ------------------------------
(***************************************************************************)
(* resolver.open: from the path of a request to an open file under the       *)
(* document root.  The code asks the file system several times, once for     *)
(* each name while it follows links; the tree may change between any two of  *)
(* its system calls.                                                         *)
(* A path is a sequence of characters.  A place is the sequence of names     *)
(* that leads to it from the root; one that starts with Up is outside.       *)
(***************************************************************************)
EXTENDS Integers, Sequences, FiniteSets, SequencesExt

CONSTANTS
    Slash, Dot,   \* two characters
    Trimmed,      \* the characters Windows drops from the end of a name
    Forbidden,    \* the bytes checkPath refuses anywhere: control, special, no text
    Devices,      \* the stems of reserved names, in every spelling
    Index,        \* the name index.html
    Up,           \* the name ".."
    MaxLinks      \* how many links are followed before it is given up

ASSUME ResolverAssumption ==
    /\ Slash # Dot /\ Dot \in Trimmed
    /\ MaxLinks \in Nat

VARIABLES
    tree,     \* tree[p]: what is at place p
    rpc,      \* where open is; "done" when the answer is known
    want,     \* the request's path
    walk,     \* how far EvalSymlinks has come, and what open does next
    target,   \* what within returned
    handle,   \* what os.Open opened
    answer    \* the status and, for 200, the file

resolverVars == <<tree, rpc, want, walk, target, handle, answer>>

\* "file" is a regular file, "sealed" one that may not be opened, "locked" a
\* directory that may not be searched.
Node(k, to, id) == [kind |-> k, to |-> to, id |-> id]
Missing == Node("none", <<>>, 0)
Nothing == [status |-> 0, file |-> Missing]
Answer(status) == [status |-> status, file |-> Missing]

\* EvalSymlinks of a place: the names resolved, those still to be, and how many
\* links it has followed.
From(place, then) == [done |-> <<>>, todo |-> place, links |-> 0, then |-> then]
NoWalk == From(<<>>, "")

ResolverInit(t) ==
    /\ tree = t
    /\ rpc = "idle" /\ want = <<>> /\ walk = NoWalk /\ target = <<>>
    /\ handle = Missing /\ answer = Nothing

-----------------------------------------------------------------------------
(* Paths *)

\* strings.Split(p[1:], "/"), without the empty pieces.
Segments(p) ==
    LET ends == {i \in 2..(Len(p) + 1) : i = Len(p) + 1 \/ p[i] = Slash}
        start(i) == 1 + Max({0} \cup {j \in DOMAIN p : p[j] = Slash /\ j < i})
        cuts == SetToSortSeq({i \in ends : start(i) < i}, <)
    IN  [k \in DOMAIN cuts |-> SubSeq(p, start(cuts[k]), cuts[k] - 1)]

TrailingSlash(p) == p[Len(p)] = Slash

\* reservedDeviceName looks at the name up to its first dot.
Stem(name) ==
    LET dots == {i \in DOMAIN name : name[i] = Dot}
    IN  IF dots = {} THEN name ELSE SubSeq(name, 1, Min(dots) - 1)

NameAllowed(name) ==
    /\ name[Len(name)] \notin Trimmed       \* "." and ".." as well
    /\ Stem(name) \notin Devices

CheckPath(p) ==
    /\ p[1] = Slash
    /\ \A i \in 2..Len(p) : ~(p[i - 1] = Slash /\ p[i] = Slash)
    /\ Range(p) \cap Forbidden = {}
    /\ \A i \in DOMAIN Segments(p) : NameAllowed(Segments(p)[i])

-----------------------------------------------------------------------------
(* The file system (external) *)

At(t, place) == IF place \in DOMAIN t THEN t[place] ELSE Missing
IsDir(node) == node.kind \in {"dir", "locked"}

Place == Seq(Seq(Nat))

\* Where one system call is led by a place: it follows every link on the way,
\* and one at the end if follow says so.  Or why nowhere: "missing" for what
\* missingOr takes for a miss, "other" for the rest (a directory that may not be
\* searched, too many links).
Walk(t, place, follow) ==
    LET Led(done, err) == [done |-> done, err |-> err]
        go[done \in Place, todo \in Place, links \in Nat] ==
            IF todo = <<>> THEN Led(done, "")
            ELSE IF At(t, done).kind = "locked" THEN Led(done, "other")
            ELSE LET here == Append(done, Head(todo))
                     node == At(t, here)
                 IN  CASE node.kind = "none" -> Led(done, "missing")
                       [] node.kind # "none" /\ (node.kind # "link" \/ (Len(todo) = 1 /\ ~follow)) ->
                            go[here, Tail(todo), links]
                       [] OTHER -> IF links = MaxLinks THEN Led(done, "other")
                                   ELSE go[<<>>, node.to \o Tail(todo), links + 1]
    IN  go[<<>>, place, 0]

\* missingOr, and the status of the error it leaves.
Miss(w) == Answer(IF w.err = "missing" THEN 404 ELSE 500)

-----------------------------------------------------------------------------
(* open *)

End(a) == rpc' = "done" /\ answer' = a

\* A call of within begins.
Within(place, then) == rpc' = "lstat" /\ walk' = From(place, then)

Check ==
    /\ rpc = "check"
    /\ IF CheckPath(want)
       THEN Within(Segments(want), "stat") /\ answer' = answer
       ELSE End(Answer(400)) /\ walk' = walk
    /\ UNCHANGED <<tree, want, target, handle>>

\* EvalSymlinks looks at one name after the other, without following it.  Only a
\* directory may have names after it; a link is read by a call of its own.
Lstat ==
    LET here == Append(walk.done, Head(walk.todo))
        w == Walk(tree, here, FALSE)
        node == At(tree, w.done)
        inside == Len(walk.todo) > 1
    IN
    /\ rpc = "lstat" /\ walk.todo # <<>>
    /\ \/ w.err # "" /\ End(Miss(w)) /\ walk' = walk
       \/ /\ w.err = "" /\ node.kind = "link"
          /\ IF walk.links = MaxLinks THEN End(Answer(500)) ELSE rpc' = "readlink" /\ answer' = answer
          /\ walk' = walk
       \/ /\ w.err = "" /\ node.kind # "link" /\ inside /\ ~IsDir(node)
          /\ End(Answer(404)) /\ walk' = walk
       \/ /\ w.err = "" /\ node.kind # "link" /\ (inside => IsDir(node))
          /\ walk' = [walk EXCEPT !.done = here, !.todo = Tail(@)]
          /\ UNCHANGED <<rpc, answer>>
    /\ UNCHANGED <<tree, want, target, handle>>

\* What was a link may be gone, or be something else, by the time it is read.
Readlink ==
    LET here == Append(walk.done, Head(walk.todo))
        w == Walk(tree, here, FALSE)
        node == At(tree, w.done)
    IN
    /\ rpc = "readlink"
    /\ \/ w.err # "" /\ End(Miss(w)) /\ walk' = walk
       \/ w.err = "" /\ node.kind # "link" /\ End(Answer(500)) /\ walk' = walk
       \/ /\ w.err = "" /\ node.kind = "link"
          /\ walk' = [walk EXCEPT !.done = <<>>, !.todo = node.to \o Tail(@), !.links = @ + 1]
          /\ rpc' = "lstat" /\ answer' = answer
    /\ UNCHANGED <<tree, want, target, handle>>

\* Bug: nobody looks where the links led.
OutsideNever(place) == FALSE

\* filepath.Rel of the resolved path starts with "..".
Outside(place) == place # <<>> /\ place[1] = Up

\* within returns: the resolved path must be under the root.
Confirm ==
    /\ rpc = "lstat" /\ walk.todo = <<>>
    /\ IF Outside(walk.done)
       THEN End(Answer(404)) /\ target' = target
       ELSE rpc' = walk.then /\ target' = walk.done /\ answer' = answer
    /\ walk' = NoWalk
    /\ UNCHANGED <<tree, want, handle>>

\* os.Stat of the target: a directory stands for its index, and a file has no
\* slash behind its name.
StatTarget ==
    LET w == Walk(tree, target, TRUE) IN
    /\ rpc = "stat"
    /\ IF w.err # "" THEN End(Miss(w)) /\ walk' = walk
       ELSE IF IsDir(At(tree, w.done)) THEN Within(Append(target, Index), "open") /\ answer' = answer
       ELSE IF TrailingSlash(want) THEN End(Answer(404)) /\ walk' = walk
       ELSE rpc' = "open" /\ UNCHANGED <<walk, answer>>
    /\ UNCHANGED <<tree, want, target, handle>>

\* os.Open.  A FIFO keeps it until somebody opens the other end.
Open ==
    LET w == Walk(tree, target, TRUE)
        node == At(tree, w.done)
    IN
    /\ rpc = "open"
    /\ IF w.err # "" THEN End(Miss(w)) /\ handle' = handle
       ELSE IF node.kind \in {"sealed", "locked"} THEN End(Answer(500)) /\ handle' = handle
       ELSE /\ rpc' = IF node.kind = "fifo" THEN "blocked" ELSE "opened"
            /\ handle' = node /\ answer' = answer
    /\ UNCHANGED <<tree, want, walk, target>>

\* Somebody opens the FIFO for writing.
FifoWriter ==
    /\ rpc = "blocked"
    /\ rpc' = "opened"
    /\ UNCHANGED <<tree, want, walk, target, handle, answer>>

\* Bug: what is opened is taken for a regular file.
RegularAlways(node) == TRUE

Regular(node) == node.kind = "file"

\* f.Stat of the open handle, which can fail like any input or output.
StatFails == [status |-> 500, file |-> handle]
StatHandle ==
    /\ rpc = "opened"
    /\ \/ End(StatFails)
       \/ Regular(handle) /\ End([status |-> 200, file |-> handle])
       \/ ~Regular(handle) /\ End(Answer(404))
    /\ UNCHANGED <<tree, want, walk, target, handle>>

OpenStep == Check \/ Lstat \/ Readlink \/ Confirm \/ StatTarget \/ Open \/ StatHandle

-----------------------------------------------------------------------------
(* The tree changes under the resolver (external). *)

\* Anything but a directory is created, renamed over or removed; a directory is
\* created where nothing was, and removed when empty.  A link may lead anywhere.
Changes(t, nodes) ==
    { [t EXCEPT ![p] = n] : p \in {q \in DOMAIN t : q # <<>> /\ ~Outside(q)}, n \in nodes }

Possible(t, u) ==
    \A p \in DOMAIN t : t[p] # u[p] =>
        /\ IsDir(u[p]) => t[p] = Missing
        /\ IsDir(t[p]) => u[p] = Missing /\ \A q \in DOMAIN t : Front(q) = p /\ q # <<>> => t[q] = Missing
        /\ u[p] # Missing => IsDir(t[Front(p)])

TreeChange(nodes) ==
    /\ tree' \in Changes(tree, nodes) /\ tree' # tree /\ Possible(tree, tree')
    /\ UNCHANGED <<rpc, want, walk, target, handle, answer>>
=============================================================================
