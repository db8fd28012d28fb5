------------------------------- MODULE Workspace -------------------------------
(***************************************************************************)
(* The workspace API: GET, PUT and DELETE of files and directories below   *)
(* the directory that is mounted as "/workspace". Every handler is a       *)
(* sequence of file system calls with an await between them, nothing locks *)
(* the tree, and a handler whose client leaves is dropped at an await.     *)
(*                                                                         *)
(* A path is the sequence of its components below the root <<>>. The tree  *)
(* maps the paths that exist to "dir", to the file's content, or to        *)
(* Special; a PUT's temporary file is kept apart, with the directory it    *)
(* lies in. One request's body is the request itself. Symbolic links and   *)
(* the workspace that is not configured (404) are left out.                *)
(***************************************************************************)
EXTENDS Integers, FiniteSets, SequencesExt

CONSTANTS Requests,   \* requests to the server, each made once
          Names,      \* names of files and directories
          Paths,      \* the paths they name
          Trees,      \* what the workspace may hold before
          Nothing     \* no content, no file

Partial == "partial"   \* a file of which a part is written
Absent == "absent"
Special == "special"   \* a fifo or socket a tool made

(* The workspace is two levels deep: files, and directories of files. One  *)
(* mkdir then makes a parent, and what a directory holds is unlinked by    *)
(* one call each.                                                          *)
IsTree(t) ==
  /\ DOMAIN t \subseteq Paths
  /\ <<>> \in DOMAIN t /\ t[<<>>] = "dir"
  /\ \A p \in DOMAIN t :
       /\ t[p] \notin {"notdir", Absent, Partial}
       /\ Len(p) = 2 => t[p] # "dir"
       /\ p # <<>> => Front(p) \in DOMAIN t /\ t[Front(p)] = "dir"
ASSUME PathsAssumption ==
  /\ Paths \subseteq {<<>>} \cup {<<a>> : a \in Names} \cup
                    {<<a, b>> : a \in Names, b \in Names}
  /\ \A p \in Paths : p # <<>> => Front(p) \in Paths
  /\ \A t \in Trees : IsTree(t)
  /\ Requests \cap {"dir", "notdir", Absent, Partial, Special, Nothing} = {}
  /\ Requests \cap Paths = {}
  /\ Nothing \notin Paths

VARIABLES
  tree,      \* the paths that exist
  inode,     \* how often each directory was created: its identity
  temp,      \* directory of the request's temporary file, or Nothing
  written,   \* that file has its whole content
  op,        \* "get", "put" or "delete"
  path,      \* the path it names
  pc,        \* where its handler is
  names,     \* directory entries it has still to visit
  opened,    \* identity of the directory it deletes, ancestor it found
  answer,    \* status code
  got,       \* the content a GET returns
  seen,      \* ghost: what its path held since the request came
  applied,   \* ghost: its rename took effect
  alone      \* ghost: no other request ran, nothing failed meanwhile

files == <<tree, inode, temp, written>>
request == <<op, path>>
local == <<names, opened, got>>
ghosts == <<seen, applied, alone>>
vars == <<files, request, pc, answer, local, ghosts>>

Active(r) == pc[r] \notin {"new", "answered", "dropped"}

(* What a system call finds at p in tree t. *)
Lookup(t, p) ==
  IF p \in DOMAIN t THEN t[p]
  ELSE IF \E q \in DOMAIN t : IsStrictPrefix(q, p) /\ t[q] # "dir"
  THEN "notdir" ELSE Absent
Find(p) == Lookup(tree, p)
IsFile(p) == Find(p) \notin {"dir", "notdir", Absent}
IsRegular(p) == IsFile(p) /\ Find(p) # Special

TempsIn(p) == {r \in Requests : temp[r] = p}
Entries(p) ==
  {q \in DOMAIN tree : q # <<>> /\ Front(q) = p} \cup TempsIn(p)
Exists(e) == IF e \in Requests THEN temp[e] # Nothing ELSE e \in DOMAIN tree

Init ==
  /\ tree \in Trees
  /\ inode = [p \in Paths |-> 0]
  /\ temp = [r \in Requests |-> Nothing]
  /\ written = [r \in Requests |-> FALSE]
  /\ op \in [Requests -> {"get", "put", "delete"}]
  /\ path \in [Requests -> Paths]
  /\ \A r \in Requests : op[r] = "put" => path[r] # <<>>   \* no such route
  /\ pc = [r \in Requests |-> "new"]
  /\ names = [r \in Requests |-> {}]
  /\ opened = [r \in Requests |-> 0]
  /\ answer = [r \in Requests |-> 0]
  /\ got = [r \in Requests |-> Nothing]
  /\ seen = [r \in Requests |-> {}]
  /\ applied = [r \in Requests |-> FALSE]
  /\ alone = [r \in Requests |-> TRUE]

Goto(r, from, to) == pc[r] = from /\ pc' = [pc EXCEPT ![r] = to]
Reply(r, from, code) ==
  /\ Goto(r, from, "answered")
  /\ answer' = [answer EXCEPT ![r] = code]

(* The tree becomes t; every request under way sees its path in it. *)
Becomes(t) ==
  /\ tree' = t
  /\ seen' = [r \in Requests |->
                IF Active(r) THEN seen[r] \cup {Lookup(t, path[r])} ELSE seen[r]]
Without(p) == [q \in {x \in DOMAIN tree : ~IsPrefix(p, x)} |-> tree[q]]
With(p, what) == [q \in DOMAIN tree \cup {p} |-> IF q = p THEN what ELSE tree[q]]

(* resolve_input: a request comes in with a valid path. *)
Arrive(r) ==
  /\ Goto(r, "new", "resolve")
  /\ seen' = [seen EXCEPT ![r] = {Find(path[r])}]
  /\ alone' = [q \in Requests |->
                 IF q = r THEN \A s \in Requests : ~Active(s)
                 ELSE IF Active(q) THEN FALSE ELSE alone[q]]
  /\ UNCHANGED <<files, request, answer, local, applied>>

-----------------------------------------------------------------------------
(* resolve_existing_path, then symlink_metadata, for GET and DELETE. The   *)
(* root cannot be deleted; a missing path is 404 in both calls, a file in  *)
(* the place of a parent an I/O error.                                     *)
RefuseRoot(r) ==
  /\ op[r] = "delete" /\ path[r] = <<>>
  /\ Reply(r, "resolve", 400)
  /\ UNCHANGED <<files, request, local, ghosts>>

Inspect(r, from, to) ==
  /\ op[r] # "put"
  /\ op[r] = "delete" => path[r] # <<>>
  /\ CASE Find(path[r]) = Absent -> Reply(r, from, 404)
       [] Find(path[r]) = "notdir" -> Reply(r, from, 500)
       [] OTHER -> Goto(r, from, to) /\ UNCHANGED answer
  /\ UNCHANGED <<files, request, local, ghosts>>

Metadata(r) ==
  /\ op[r] = "get" => Find(path[r]) # Special
  /\ Inspect(r, "metadata",
             CASE op[r] = "get" /\ Find(path[r]) = "dir" -> "list"
               [] op[r] = "get" /\ Find(path[r]) # "dir" -> "read"
               [] op[r] = "delete" /\ Find(path[r]) = "dir" -> "opendir"
               [] OTHER -> "unlink")

(* GET of what is neither a regular file nor a directory. *)
RefuseSpecial(r) ==
  /\ op[r] = "get" /\ Find(path[r]) = Special
  /\ Reply(r, "metadata", 409)
  /\ UNCHANGED <<files, request, local, ghosts>>

(* fs::read; a file that is gone by now, or a directory, is an I/O error.  *)
ReadFile(r) ==
  /\ IF IsRegular(path[r])
     THEN Reply(r, "read", 200) /\ got' = [got EXCEPT ![r] = Find(path[r])]
     ELSE Reply(r, "read", 500) /\ UNCHANGED got
  /\ UNCHANGED <<files, request, names, opened, ghosts>>

(* read_directory: the entries, then the metadata of each. *)
ReadDir(r) ==
  /\ IF Find(path[r]) = "dir"
     THEN /\ Goto(r, "list", "stat")
          /\ names' = [names EXCEPT ![r] = Entries(path[r])]
          /\ UNCHANGED answer
     ELSE Reply(r, "list", 500) /\ UNCHANGED names
  /\ UNCHANGED <<files, request, opened, got, ghosts>>

StatEntry(r, e) ==
  /\ pc[r] = "stat" /\ e \in names[r]
  /\ IF Exists(e) THEN UNCHANGED <<pc, answer>> ELSE Reply(r, "stat", 500)
  /\ names' = [names EXCEPT ![r] = @ \ {e}]
  /\ UNCHANGED <<files, request, opened, got, ghosts>>

Listed(r) ==
  /\ names[r] = {}
  /\ Reply(r, "stat", 200)
  /\ UNCHANGED <<files, request, local, ghosts>>

-----------------------------------------------------------------------------
Unlink(r) ==
  /\ IF IsFile(path[r])
     THEN Reply(r, "unlink", 204) /\ Becomes(Without(path[r]))
     ELSE Reply(r, "unlink", 500) /\ UNCHANGED <<tree, seen>>
  /\ UNCHANGED <<inode, temp, written, request, local, applied, alone>>

(* remove_dir_all: open the directory, unlink what it lists, remove it.    *)
(* Entries that are gone are skipped; one that came since makes it fail.   *)
OpenDir(r) ==
  /\ IF Find(path[r]) = "dir"
     THEN /\ Goto(r, "opendir", "empty")
          /\ names' = [names EXCEPT ![r] = Entries(path[r])]
          /\ opened' = [opened EXCEPT ![r] = inode[path[r]]]
          /\ UNCHANGED answer
     ELSE Reply(r, "opendir", 500) /\ UNCHANGED <<names, opened>>
  /\ UNCHANGED <<files, request, got, ghosts>>

RemoveEntry(r, e) ==
  /\ pc[r] = "empty" /\ e \in names[r]
  /\ names' = [names EXCEPT ![r] = @ \ {e}]
  /\ IF opened[r] = inode[path[r]] /\ Exists(e)
     THEN IF e \in Requests
          THEN temp' = [temp EXCEPT ![e] = Nothing] /\ UNCHANGED <<tree, seen>>
          ELSE Becomes(Without(e)) /\ UNCHANGED temp
     ELSE UNCHANGED <<tree, temp, seen>>
  /\ UNCHANGED <<inode, written, request, pc, answer, opened, got, applied, alone>>

RemoveDir(r) ==
  /\ names[r] = {}
  /\ CASE Find(path[r]) = "dir" /\ Entries(path[r]) = {} ->
            Reply(r, "empty", 204) /\ Becomes(Without(path[r]))
       [] Find(path[r]) = Absent ->
            \* ignored by some versions of the standard library
            (\E c \in {204, 500} : Reply(r, "empty", c)) /\ UNCHANGED <<tree, seen>>
       [] OTHER -> Reply(r, "empty", 500) /\ UNCHANGED <<tree, seen>>
  /\ UNCHANGED <<inode, temp, written, request, local, applied, alone>>

-----------------------------------------------------------------------------
(* PUT. resolve_write_path: an existing target, or else the nearest        *)
(* ancestor that exists, is resolved.                                      *)
ResolveTarget(r) ==
  /\ op[r] = "put"
  /\ CASE Find(path[r]) = "notdir" -> Reply(r, "resolve", 500)
       [] Find(path[r]) = Absent -> Goto(r, "resolve", "ancestor") /\ UNCHANGED answer
       [] OTHER -> Goto(r, "resolve", "check") /\ UNCHANGED answer
  /\ UNCHANGED <<files, request, local, ghosts>>

FindAncestor(r) ==
  /\ IF Find(path[r]) = "notdir"
     THEN Reply(r, "ancestor", 500) /\ UNCHANGED opened
     ELSE /\ Goto(r, "ancestor", "canonical")
          /\ opened' = [opened EXCEPT ![r] =
                          Max({Len(q) : q \in {x \in DOMAIN tree : IsPrefix(x, path[r])}})]
          /\ UNCHANGED answer
  /\ UNCHANGED <<files, request, names, got, ghosts>>

ResolveAncestor(r) ==
  /\ IF SubSeq(path[r], 1, opened[r]) \in DOMAIN tree
     THEN Goto(r, "canonical", "check") /\ UNCHANGED answer
     ELSE Reply(r, "canonical", 500)
  /\ UNCHANGED <<files, request, local, ghosts>>

(* A slip: a directory in the way is left to the rename. *)
MutCheckTarget(r) ==
  /\ Goto(r, "check", "mkdir")
  /\ UNCHANGED <<files, request, answer, local, ghosts>>

CheckTarget(r) ==
  /\ IF Find(path[r]) = "dir" THEN Reply(r, "check", 409)
     ELSE Goto(r, "check", "mkdir") /\ UNCHANGED answer
  /\ UNCHANGED <<files, request, local, ghosts>>

(* ensure_directory: create_dir_all of the parent, then its permissions.   *)
EnsureDirectory(r) ==
  LET parent == Front(path[r]) IN
  /\ CASE Find(parent) = "dir" ->
            Goto(r, "mkdir", "chmod") /\ UNCHANGED <<answer, tree, inode, seen>>
       [] Find(parent) = Absent ->
            /\ Goto(r, "mkdir", "chmod")
            /\ Becomes(With(parent, "dir"))
            /\ inode' = [inode EXCEPT ![parent] = @ + 1]
            /\ UNCHANGED answer
       [] OTHER -> Reply(r, "mkdir", 500) /\ UNCHANGED <<tree, inode, seen>>
  /\ UNCHANGED <<temp, written, request, local, applied, alone>>

SetPermissions(r) ==
  /\ IF Front(path[r]) \in DOMAIN tree
     THEN Goto(r, "chmod", "create") /\ UNCHANGED answer
     ELSE Reply(r, "chmod", 500)
  /\ UNCHANGED <<files, request, local, ghosts>>

CreateTemporary(r) ==
  /\ IF Find(Front(path[r])) = "dir"
     THEN /\ Goto(r, "create", "write")
          /\ temp' = [temp EXCEPT ![r] = Front(path[r])]
     ELSE Goto(r, "create", "cleanup") /\ UNCHANGED temp
  /\ UNCHANGED <<tree, inode, written, request, answer, local, ghosts>>

(* A slip: without flush the rename may overtake the write. *)
MutWriteAll(r) ==
  /\ Goto(r, "write", "rename")
  /\ written' \in {[written EXCEPT ![r] = b] : b \in BOOLEAN}
  /\ UNCHANGED <<tree, inode, temp, request, answer, local, ghosts>>

(* write_all, flush and the file's permissions. *)
WriteAll(r) ==
  /\ Goto(r, "write", "rename")
  /\ written' = [written EXCEPT ![r] = TRUE]
  /\ UNCHANGED <<tree, inode, temp, request, answer, local, ghosts>>

WriteFails(r) ==
  /\ Goto(r, "write", "cleanup")
  /\ alone' = [alone EXCEPT ![r] = FALSE]
  /\ UNCHANGED <<files, request, answer, local, seen, applied>>

Rename(r) ==
  /\ IF temp[r] # Nothing /\ Find(path[r]) # "dir"
     THEN /\ Reply(r, "rename", 204)
          /\ Becomes(With(path[r], IF written[r] THEN r ELSE Partial))
          /\ temp' = [temp EXCEPT ![r] = Nothing]
          /\ applied' = [applied EXCEPT ![r] = TRUE]
     ELSE Goto(r, "rename", "cleanup") /\ UNCHANGED <<tree, temp, answer, seen, applied>>
  /\ UNCHANGED <<inode, written, request, local, alone>>

(* A slip: the error is returned at once. *)
MutCleanUp(r) ==
  /\ Reply(r, "cleanup", 500)
  /\ UNCHANGED <<files, request, local, ghosts>>

CleanUp(r) ==
  /\ Reply(r, "cleanup", 500)
  /\ temp' = [temp EXCEPT ![r] = Nothing]
  /\ UNCHANGED <<tree, inode, written, request, local, ghosts>>

-----------------------------------------------------------------------------
(* The client leaves, or the server is killed: the call under way still    *)
(* completes, the rest of the handler does not run.                        *)
Drop(r) ==
  /\ Active(r)
  /\ pc' = [pc EXCEPT ![r] = "dropped"]
  /\ UNCHANGED <<files, request, answer, local, ghosts>>

Handler(r) ==
  \/ RefuseRoot(r)
  \/ Inspect(r, "resolve", "metadata")
  \/ Metadata(r)
  \/ RefuseSpecial(r)
  \/ ReadFile(r)
  \/ ReadDir(r)
  \/ \E e \in names[r] : StatEntry(r, e) \/ RemoveEntry(r, e)
  \/ Listed(r)
  \/ Unlink(r)
  \/ OpenDir(r)
  \/ RemoveDir(r)
  \/ ResolveTarget(r)
  \/ FindAncestor(r)
  \/ ResolveAncestor(r)
  \/ CheckTarget(r)
  \/ EnsureDirectory(r)
  \/ SetPermissions(r)
  \/ CreateTemporary(r)
  \/ WriteAll(r)
  \/ WriteFails(r)
  \/ Rename(r)
  \/ CleanUp(r)

AllServed == \A r \in Requests : pc[r] \in {"answered", "dropped"}

Next ==
  \/ \E r \in Requests : Arrive(r) \/ Handler(r) \/ Drop(r)
  \/ AllServed /\ UNCHANGED vars

Spec == Init /\ [][Next]_vars

-----------------------------------------------------------------------------
(* Whatever the handlers of other requests do between two calls of this    *)
(* one, its answer is true of some moment while it ran: a file that is     *)
(* returned was there, whole, and is no temporary state of a PUT; what is  *)
(* reported missing, or deleted, was missing; a conflict was a directory   *)
(* in a PUT's place, or no regular file in a GET's; a PUT reports success  *)
(* exactly when its content took the path's place.                         *)
AnswersTrue ==
  \A r \in Requests : pc[r] = "answered" =>
    /\ got[r] # Nothing =>
         got[r] \in seen[r] \ {Partial, Special, "dir", "notdir", Absent}
    /\ answer[r] = 404 => Absent \in seen[r]
    /\ op[r] = "delete" /\ answer[r] = 204 => Absent \in seen[r]
    /\ op[r] = "put" /\ answer[r] = 409 => "dir" \in seen[r]
    /\ op[r] = "get" /\ answer[r] = 409 => Special \in seen[r]
    /\ op[r] = "put" => (answer[r] = 204 <=> applied[r]) /\ (applied[r] => r \in seen[r])

(* A temporary file in the workspace belongs to a PUT that is still at     *)
(* work on it, or that was dropped half-way: every failure of write or     *)
(* rename, whoever caused it, ends with the file removed. A dropped PUT    *)
(* does leave its file, which listings then show.                          *)
TempsExplained ==
  \A r \in Requests : temp[r] # Nothing =>
    /\ pc[r] \in {"write", "rename", "cleanup", "dropped"}
    /\ Find(temp[r]) = "dir"

(* What docs/http_api.md promises (:248, :271, :273, :291, :311, :317,     *)
(* :329) of a request on a path that holds `held`: a path below a file is  *)
(* a target that does not exist, so 404 for GET and DELETE, and a failed   *)
(* file system operation, so 500, for PUT.                                 *)
Documented(o, p, held) ==
  CASE o = "put" ->
         IF held = "dir" THEN 409 ELSE IF held = "notdir" THEN 500 ELSE 204
    [] o = "get" ->
         IF held \in {Absent, "notdir"} THEN 404
         ELSE IF held = Special THEN 409 ELSE 200
    [] o = "delete" ->
         IF p = <<>> THEN 400 ELSE IF held \in {Absent, "notdir"} THEN 404 ELSE 204

(* A request that meets no other and no failing disk, in whatever state    *)
(* the races before it left the tree, is answered as documented, but for   *)
(* one disagreement: a GET or DELETE below a file gets 500, not the 404 of *)
(* http_api.md:273 and :317, as map_not_found takes ENOTDIR for an I/O     *)
(* error. The property says so, and says that there is no other.           *)
NotAsDocumented(o, held) == o # "put" /\ held = "notdir"
Answers(o, p, held) ==
  IF NotAsDocumented(o, held) THEN 500 ELSE Documented(o, p, held)
AloneAsDocumented ==
  \A r \in Requests : pc[r] = "answered" /\ alone[r] =>
    \E held \in seen[r] : answer[r] = Answers(op[r], path[r], held)
=============================================================================
