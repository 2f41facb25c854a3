----------------------------- MODULE ReadOnlyFs -----------------------------
(***************************************************************************)
(* What the file system promises to its clients, the kernel and bench.c: a *)
(* fixed tree of nodes.  A client names a node by its components, however  *)
(* it spells the separators, and gets the same node from every operation.  *)
(***************************************************************************)
EXTENDS Integers, Sequences

CONSTANTS
  Contents,  \* the trees that may be served
  Requests,  \* what clients may ask for
  Handles,   \* handles to open files
  NoFile,    \* not a file
  NoReply    \* not a reply

VARIABLES
  nodes,    \* [sequences of components -> nodes]; empty if nothing is served
  handles,  \* the file each handle is open on, or NoFile
  req,      \* the latest request
  reply     \* its reply, or NoReply

vars == <<nodes, handles, req, reply>>

Serving == nodes # <<>>

\* A node is a directory, or it has a file.
Exists(c) == c \in DOMAIN nodes
IsDir(c)  == nodes[c].file = NoFile

Done       == [err |-> "OK"]
Fail(errno) == [err |-> errno]

\* Why the path of the request leads nowhere, if it does.
Problem ==
  LET c == req.path.comps
      throughFile == \E k \in 1..Len(c) - 1 :
                       Exists(SubSeq(c, 1, k)) /\ ~IsDir(SubSeq(c, 1, k))
  IN  CASE req.path.lead = 0 -> "EINVAL"
        [] req.path.lead > 0 /\ Exists(c) -> "OK"
        [] req.path.lead > 0 /\ ~Exists(c) /\ throughFile -> "ENOTDIR"
        [] OTHER -> "ENOENT"

Children(c) ==
  {e[Len(e)] : e \in {d \in DOMAIN nodes : Len(d) = Len(c) + 1 /\ SubSeq(d, 1, Len(c)) = c}}

Init ==
  /\ nodes = <<>>
  /\ handles = [h \in Handles |-> NoFile]
  /\ req \in Requests
  /\ reply = Done

Mount ==
  /\ ~Serving
  /\ nodes' \in Contents
  /\ UNCHANGED <<handles, req, reply>>

Unmount ==
  /\ Serving
  /\ nodes' = <<>>
  /\ UNCHANGED <<handles, req, reply>>

Ask ==
  /\ Serving
  /\ reply # NoReply
  /\ req' \in Requests
  /\ reply' = NoReply
  /\ UNCHANGED <<nodes, handles>>

Asked(op) ==
  /\ Serving
  /\ reply = NoReply
  /\ req.op = op
  /\ UNCHANGED <<nodes, req>>

\* A directory may be read and searched, a file read, by those who may read
\* the underlying file.
Getattr ==
  LET n == nodes[req.path.comps]
      dir == IsDir(req.path.comps)
  IN  /\ Asked("getattr")
      /\ reply' = IF Problem # "OK" THEN Fail(Problem)
                  ELSE [err |-> "OK", is_dir |-> dir,
                        size |-> IF dir THEN 0 ELSE n.file.size,
                        mode |-> n.readers \X (IF dir THEN {"r", "x"} ELSE {"r"})]
      /\ UNCHANGED handles

Readdir ==
  /\ Asked("readdir")
  /\ reply' = CASE Problem # "OK" -> Fail(Problem)
                [] Problem = "OK" /\ ~IsDir(req.path.comps) -> Fail("ENOTDIR")
                [] OTHER -> [err |-> "OK", names |-> Children(req.path.comps)]
  /\ UNCHANGED handles

Open ==
  LET obstacle == CASE req.writing -> "EPERM"
                    [] ~req.writing /\ Problem # "OK" -> Problem
                    [] ~req.writing /\ Problem = "OK" /\ IsDir(req.path.comps) -> "EISDIR"
                    [] OTHER -> "OK"
  IN  /\ Asked("open")
      /\ IF obstacle # "OK" THEN reply' = Fail(obstacle) /\ UNCHANGED handles
         ELSE \E h \in Handles :
                /\ handles[h] = NoFile
                /\ handles' = [handles EXCEPT ![h] = nodes[req.path.comps].file]
                /\ reply' = [err |-> "OK", fh |-> h]

\* All that the file holds of the request, or an error.
Read ==
  LET f == handles[req.fh]
      held == {k \in 0..req.size - 1 : req.offset + k < f.size}
  IN  /\ Asked("read")
      /\ reply' \in {Fail("EIO"), [err |-> "OK", data |-> {<<f.id, req.offset + k>> : k \in held}]}
      /\ UNCHANGED handles

Flush ==
  /\ Asked("flush")
  /\ reply' = Done
  /\ UNCHANGED handles

Release ==
  /\ Asked("release")
  /\ handles' = [handles EXCEPT ![req.fh] = NoFile]
  /\ reply' = Done

Next == Mount \/ Unmount \/ Ask \/ Getattr \/ Readdir \/ Open \/ Read \/ Flush \/ Release

Spec == Init /\ [][Next]_vars

=============================================================================
