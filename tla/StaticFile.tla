----------------------------- MODULE StaticFile -----------------------------
(***************************************************************************)
(* file() of src/mendes/src/utils.rs as one of the handlers whose response *)
(* bodies module Body follows.  It asks for the metadata of a path, of its *)
(* index.html if that is a directory, announces the length it was told as  *)
(* the Content-Length, and only then reads the file.  Others may change    *)
(* the file system at each of its awaits, and each call may fail.  What    *)
(* the application does with the response afterwards, encoded() in         *)
(* particular, is Body's.                                                  *)
(*                                                                         *)
(* An operator named Bug_... is a broken variant of the definition after   *)
(* it; no specification uses one.                                          *)
(***************************************************************************)
EXTENDS Body

VARIABLES
    stage,           \* where file() stands; "other" for any other handler
    target,          \* what the variable `path` of file() names
    node,            \* what the path and the index.html in it are
    length,          \* the Content-Length of the response
    changed,         \* history: the file system is not what file() first saw
    failed           \* history: a call failed, whatever the node is

history == <<changed, failed>>
fvars   == <<stage, target, node, length, history>>

\* A node of the file system is a file of some size, or one of these.
Missing   == -1
Directory == -2
NoLength  == -1

Trees == {t \in [{"path", "index"} -> Sizes \cup {Missing, Directory}] :
            t["path"] # Directory => t["index"] = Missing}

FTypeOK ==
    /\ TypeOK
    /\ stage \in {"stat", "index", "read", "served", "notFound", "refused", "other"}
    /\ target \in {"path", "index"}
    /\ node \in Trees
    /\ length \in Sizes \cup {NoLength}
    /\ changed \in BOOLEAN /\ failed \in BOOLEAN

FInit ==
    /\ Init
    /\ stage = "stat"
    /\ target = "path"
    /\ node \in Trees
    /\ length = NoLength
    /\ changed = FALSE /\ failed = FALSE

-----------------------------------------------------------------------------

\* Another handler is called: it sets no Content-Length of its own.
OtherHandler ==
    /\ stage = "stat" /\ stage' = "other"
    /\ MakeBody
    /\ UNCHANGED <<target, node, length, history>>

\* A call fails although there is a node: no permission, too many open files,
\* an I/O error.  Each map_err() makes a FileNotFound of that, too.
CallFails ==
    /\ stage' = "notFound" /\ failed' = TRUE
    /\ UNCHANGED <<target, length, vars>>

NoSuchNode == stage' = "notFound" /\ UNCHANGED <<target, length, failed, vars>>

\* metadata.len(): the size of a file, any number for a directory.
Announce(t) == length' \in IF node[t] = Directory THEN Sizes ELSE {node[t]}

\* fs::metadata(&path), then is_dir().
Stat ==
    /\ stage = "stat"
    /\ \/ CallFails
       \/ node["path"] = Missing /\ NoSuchNode
       \/ /\ node["path"] = Directory
          /\ stage' = "index" /\ target' = "index"
          /\ UNCHANGED <<length, failed, vars>>
       \/ /\ node["path"] \in Sizes
          /\ stage' = "read" /\ Announce("path")
          /\ UNCHANGED <<target, failed, vars>>
    /\ UNCHANGED <<node, changed>>

\* the metadata of the directory kept
Bug_StatIndex ==
    /\ stage = "index"
    /\ \/ CallFails
       \/ node["index"] = Missing /\ NoSuchNode
       \/ /\ node["index"] # Missing
          /\ stage' = "read" /\ length' \in Sizes
          /\ UNCHANGED <<target, failed, vars>>
    /\ UNCHANGED <<node, changed>>

\* path.join("index.html") and its metadata; nobody asks whether it is a file.
StatIndex ==
    /\ stage = "index"
    /\ \/ CallFails
       \/ node["index"] = Missing /\ NoSuchNode
       \/ /\ node["index"] # Missing
          /\ stage' = "read" /\ Announce("index")
          /\ UNCHANGED <<target, failed, vars>>
    /\ UNCHANGED <<node, changed>>

\* path not replaced by the joined one
Bug_Read ==
    /\ stage = "read"
    /\ \/ CallFails
       \/ node["path"] \notin Sizes /\ NoSuchNode
       \/ /\ node["path"] \in Sizes
          /\ stage' = "served" /\ Create("bytes", node["path"])
          /\ UNCHANGED <<target, length, failed>>
    /\ UNCHANGED <<node, changed>>

\* fs::read(path), which fails for a directory, and B::from(bytes).
Read ==
    /\ stage = "read"
    /\ \/ CallFails
       \/ node[target] \notin Sizes /\ NoSuchNode
       \/ /\ node[target] \in Sizes
          /\ stage' = "served" /\ Create("bytes", node[target])
          /\ UNCHANGED <<target, length, failed>>
    /\ UNCHANGED <<node, changed>>

\* Error::FileNotFound becomes a response; the builder with its header is gone.
Refuse ==
    /\ stage = "notFound" /\ stage' = "refused"
    /\ MakeBody
    /\ length' = NoLength
    /\ UNCHANGED <<target, node, history>>

\* Somebody writes, replaces or removes what the path leads to.
Change ==
    /\ stage \in {"index", "read"}
    /\ node' \in Trees \ {node}
    /\ changed' = TRUE
    /\ UNCHANGED <<stage, target, length, failed, vars>>

FNext ==
    \/ OtherHandler \/ Stat \/ StatIndex \/ Read \/ Refuse \/ Change
    \/ (Encoded \/ EncodedPanics \/ Respond \/ Poll) /\ UNCHANGED fvars

\* As in Body: hyper polls a body until it has ended.
FSpec ==
    /\ FInit /\ [][FNext]_<<fvars, vars>>
    /\ WF_<<fvars, vars>>(Poll /\ at' # "failed" /\ UNCHANGED fvars)

-----------------------------------------------------------------------------

\* A Content-Length that is not the length of the body has one of two causes:
\* the file changed between metadata() and read(), or encoded() compressed the
\* body and left the header alone (utils.rs:21, body.rs:291).  In particular
\* the length announced for a directory is that of its index.html.
WrongLengthHasCause ==
    stage = "served" /\ length # due => changed \/ header # "identity"

\* What a path leads to: the index.html of a directory, or the file itself.
Resolved == IF node["path"] = Directory THEN node["index"] ELSE node["path"]

\* While nobody touches the file system, file() serves the file its path leads
\* to, whole; and if it leads to one, "not found" means that one of the three
\* calls failed.
ServesWhatIsThere ==
    ~changed =>
        /\ stage = "served" => Resolved \in Sizes /\ (header = "identity" => due = Resolved)
        /\ stage \in {"notFound", "refused"} => Resolved \notin Sizes \/ failed
=============================================================================
