------------------------------ MODULE Filesystem ------------------------------
(***************************************************************************)
(* The sessions of the server on the tree of files they share: login, the  *)
(* commands of navigation_handler.py and file_handler.py, the resolution   *)
(* of paths in filesystem_service.py, and the uploads, which a worker      *)
(* writes while other sessions go on (data_transfer_service.py).           *)
(*                                                                         *)
(* A path is the sequence of names from the root of the machine.  The      *)
(* check of a path and the call of the operating system that follows are   *)
(* one step: what changes in between makes the call fail with the same     *)
(* reply as the check.  The content of a file is a sequence of blocks.     *)
(***************************************************************************)
EXTENDS Naturals, FiniteSets, Sequences, SequencesExt

CONSTANTS
  Sessions,
  Users,          \* the names in user.json
  ServerRoot,     \* server_root, a path
  OutsideDirs, OutsideFiles,   \* what the machine has elsewhere, and who may not be reached
  Arguments,      \* the paths that clients give, relative and absolute
  UniqueNames,    \* what uuid4 makes for STOU
  Uploads,        \* contents of uploaded files
  MaxCommands     \* bound: commands and transfers that change the tree or the session's paths

NoPath == <<"">>
NoUser == "nobody"

(* An argument of a command: "abs" for one that starts with a slash.         *)
Argument(abs, names) == [abs |-> abs, names |-> names]

Ancestors(p) == {SubSeq(p, 1, n) : n \in 0..(Len(p) - 1)}

ASSUME RootAssumption ==
  /\ ServerRoot \in Seq(STRING) /\ ServerRoot # NoPath /\ ServerRoot # <<>>
  /\ \A p \in OutsideDirs \cup OutsideFiles : p \in Seq(STRING) /\ ~IsPrefix(ServerRoot, p)
  /\ NoPath \notin OutsideDirs \cup OutsideFiles
  /\ Ancestors(ServerRoot) \subseteq OutsideDirs
ASSUME MachineAssumption ==     \* what the machine has elsewhere is a tree
  /\ OutsideDirs \cap OutsideFiles = {}
  /\ \A p \in OutsideDirs \cup OutsideFiles : Ancestors(p) \subseteq OutsideDirs
ASSUME NamesAssumption ==
  /\ NoUser \notin Users /\ MaxCommands \in Nat
  /\ \A a \in Arguments : a.abs \in BOOLEAN /\ a.names \in Seq(STRING)
  /\ UniqueNames \subseteq STRING
  /\ \A content \in Uploads : content \in Seq(Range(content))

VARIABLES
  dirs, files,            \* the directories, and the content of every file
  connected,              \* sessions whose control connection is open
  username, authenticated,
  current_directory,      \* as an absolute path
  pending_rename_path,
  job,                    \* the transfer of each session
  proved,                 \* history: the user of the last PASS, if it was right
  selector,               \* history: the user who gave RNFR
  leaked,                 \* history: paths outside the root of which a query has told something
  commands

tree == <<dirs, files>>
login == <<connected, username, authenticated, proved>>
vars == <<tree, login, current_directory, pending_rename_path, selector, job, leaked, commands>>

NoJob == [stage |-> "none", append |-> FALSE, path |-> NoPath, content |-> <<>>,
          handle |-> NoPath, alone |-> FALSE]

Init ==
  /\ dirs = OutsideDirs \cup {ServerRoot}
  /\ files = [p \in OutsideFiles |-> <<>>]
  /\ connected = Sessions
  /\ username = [s \in Sessions |-> NoUser]
  /\ authenticated = [s \in Sessions |-> FALSE]
  /\ current_directory = [s \in Sessions |-> ServerRoot]
  /\ pending_rename_path = [s \in Sessions |-> NoPath]
  /\ job = [s \in Sessions |-> NoJob]
  /\ proved = [s \in Sessions |-> NoUser] /\ selector = [s \in Sessions |-> NoUser]
  /\ leaked = {}
  /\ commands = 0

-----------------------------------------------------------------------------
(* Paths *)

Parent(p) == IF p = <<>> THEN <<>> ELSE Front(p)
Under(p) == {q \in dirs \cup DOMAIN files : IsPrefix(p, q)}
NameOf(p) == IF p = <<>> THEN "" ELSE Last(p)
(* (base / names).resolve() in a tree without links, one name after another. *)
Step(p, name) ==
  IF name = ".." THEN Parent(p) ELSE IF name = "." THEN p ELSE Append(p, name)
Walk(base, names) ==
  LET reached[n \in 0..Len(names)] ==
        IF n = 0 THEN base ELSE Step(reached[n - 1], names[n])
  IN reached[Len(names)]
Candidate(s, arg) == Walk(IF arg.abs THEN <<>> ELSE current_directory[s], arg.names)

(* Mutant of Inside: only the path as it was written is compared.            *)
InsideAsWritten(s, arg) == ~arg.abs \/ IsPrefix(ServerRoot, arg.names)

(* resolve_session_path does not raise "Access denied".                      *)
Inside(s, arg) == IsPrefix(ServerRoot, Candidate(s, arg))

IsFile(p) == p \in DOMAIN files
Exists(p) == IsFile(p) \/ p \in dirs
IsEmpty(p) == \A q \in dirs \cup DOMAIN files : q # p => ~IsPrefix(p, q)

(* mkdir(parents=True) can make what is missing above p.                     *)
CanHaveParents(p) == \A q \in Ancestors(p) : ~IsFile(q)

Without(paths) == [q \in DOMAIN files \ paths |-> files[q]]
WithFile(p, content) ==
  [q \in DOMAIN files \cup {p} |-> IF q = p THEN content ELSE files[q]]

-----------------------------------------------------------------------------
(* Open files of the workers follow the file, not its name *)

Disturb(j) == [j EXCEPT !.alone = FALSE]

(* The file at p has been unlinked.                                          *)
HandlesAfterUnlink(p) ==
  [t \in Sessions |-> IF job[t].handle = p THEN Disturb([job[t] EXCEPT !.handle = NoPath])
                                           ELSE job[t]]

(* from, with what lies below it, has become to.                             *)
Moved(from, to, q) == to \o SubSeq(q, Len(from) + 1, Len(q))
HandlesAfterRename(from, to) ==
  [t \in Sessions |->
     IF job[t].handle # NoPath /\ IsPrefix(from, job[t].handle)
       THEN Disturb([job[t] EXCEPT !.handle = Moved(from, to, @)])
     ELSE IF job[t].handle = to THEN Disturb([job[t] EXCEPT !.handle = NoPath])
     ELSE job[t]]

(* s has changed the content of the file at p.                               *)
HandlesAfterWrite(s, p, j) ==
  [t \in Sessions |-> IF t = s THEN j
                      ELSE IF job[t].handle = p THEN Disturb(job[t]) ELSE job[t]]

-----------------------------------------------------------------------------
(* Login *)

Free(s) == s \in connected /\ job[s].stage = "none"
LoggedIn(s) == Free(s) /\ authenticated[s]

(* Mutant of ResetForUser: the file selected by RNFR stays selected.         *)
UserKeepsRename(s) == UNCHANGED <<pending_rename_path, selector>>

ResetForUser(s) ==
  /\ pending_rename_path' = [pending_rename_path EXCEPT ![s] = NoPath]
  /\ selector' = [selector EXCEPT ![s] = NoUser]

(* The transfer setup is DataChannel's.                                      *)
User(s) ==
  /\ Free(s)
  /\ \E u \in Users \cup {NoUser} : username' = [username EXCEPT ![s] = u]
  /\ authenticated' = [authenticated EXCEPT ![s] = FALSE]
  /\ ResetForUser(s)
  /\ UNCHANGED <<tree, connected, proved, current_directory, job, leaked, commands>>

Pass(s) ==
  /\ Free(s) /\ username[s] # NoUser
  /\ \E correct \in BOOLEAN :
       /\ authenticated' = [authenticated EXCEPT ![s] = correct]
       /\ proved' = [proved EXCEPT ![s] = IF correct THEN username[s] ELSE NoUser]
  /\ UNCHANGED <<tree, connected, username, current_directory, pending_rename_path,
                 selector, job, leaked, commands>>

(* Mutant of Quit: the connection closes and nobody is logged out.           *)
QuitKeepsLogin(s) ==
  /\ s \in connected
  /\ connected' = connected \ {s}
  /\ UNCHANGED <<tree, username, authenticated, proved, current_directory,
                 pending_rename_path, selector, job, leaked, commands>>

(* logout, also while a transfer runs; its worker is told to stop.           *)
Quit(s) ==
  /\ s \in connected
  /\ connected' = connected \ {s}
  /\ username' = [username EXCEPT ![s] = NoUser]
  /\ authenticated' = [authenticated EXCEPT ![s] = FALSE]
  /\ proved' = [proved EXCEPT ![s] = NoUser]
  /\ ResetForUser(s)
  /\ UNCHANGED <<tree, current_directory, job, leaked, commands>>

-----------------------------------------------------------------------------
(* Commands on the tree *)

Counts(s) ==
  /\ LoggedIn(s)
  /\ commands < MaxCommands /\ commands' = commands + 1
  /\ UNCHANGED leaked
LoginKept == UNCHANGED login
RenameKept == UNCHANGED <<pending_rename_path, selector>>

Cwd(s, arg) ==
  /\ Counts(s)
  /\ Inside(s, arg) /\ Candidate(s, arg) \in dirs
  /\ current_directory' = [current_directory EXCEPT ![s] = Candidate(s, arg)]
  /\ UNCHANGED <<tree, job>> /\ LoginKept /\ RenameKept

Cdup(s) ==
  /\ Counts(s)
  /\ IsPrefix(ServerRoot, Parent(current_directory[s])) /\ Parent(current_directory[s]) \in dirs
  /\ current_directory' = [current_directory EXCEPT ![s] = Parent(@)]
  /\ UNCHANGED <<tree, job>> /\ LoginKept /\ RenameKept

Mkd(s, arg) ==
  LET p == Candidate(s, arg) IN
  /\ Counts(s)
  /\ Inside(s, arg) /\ ~Exists(p) /\ CanHaveParents(p)
  /\ dirs' = dirs \cup Ancestors(p) \cup {p}
  /\ UNCHANGED <<files, current_directory, job>> /\ LoginKept /\ RenameKept

(* An empty directory; also the one a session is in, and the root.           *)
Rmd(s, arg) ==
  LET p == Candidate(s, arg) IN
  /\ Counts(s)
  /\ Inside(s, arg) /\ p \in dirs /\ IsEmpty(p)
  /\ dirs' = dirs \ {p}
  /\ UNCHANGED <<files, current_directory, job>> /\ LoginKept /\ RenameKept

Dele(s, arg) ==
  LET p == Candidate(s, arg) IN
  /\ Counts(s)
  /\ Inside(s, arg) /\ IsFile(p)
  /\ files' = Without({p})
  /\ job' = HandlesAfterUnlink(p)
  /\ UNCHANGED <<dirs, current_directory>> /\ LoginKept /\ RenameKept

Rnfr(s, arg) ==
  /\ Counts(s)
  /\ Inside(s, arg) /\ IsFile(Candidate(s, arg))
  /\ pending_rename_path' = [pending_rename_path EXCEPT ![s] = Candidate(s, arg)]
  /\ selector' = [selector EXCEPT ![s] = username[s]]
  /\ UNCHANGED <<tree, current_directory, job>> /\ LoginKept

(* rename(2): a file replaces a file, and a directory, which another session *)
(* may have put in place of the selected file, an empty directory.           *)
RenamesFile(from, to) ==
  /\ IsFile(from) /\ to \notin dirs /\ Parent(to) \in dirs
RenamesDirectory(from, to) ==
  /\ from \in dirs /\ ~IsFile(to) /\ Parent(to) \in dirs /\ ~IsPrefix(from, to)
  /\ to \in dirs => IsEmpty(to)

RntoRenames(s, arg) ==
  LET from == pending_rename_path[s]
      to == Candidate(s, arg)
  IN /\ Inside(s, arg)
     /\ \/ /\ RenamesFile(from, to)
           /\ files' = [q \in (DOMAIN files \ {from}) \cup {to} |->
                          IF q = to THEN files[from] ELSE files[q]]
           /\ job' = IF from = to THEN job ELSE HandlesAfterRename(from, to)
           /\ UNCHANGED dirs
        \/ /\ RenamesDirectory(from, to)
           /\ dirs' = {IF IsPrefix(from, q) THEN Moved(from, to, q) ELSE q : q \in dirs}
           /\ files' = [q \in {IF IsPrefix(from, r) THEN Moved(from, to, r) ELSE r : r \in DOMAIN files} |->
                          IF IsPrefix(to, q) THEN files[Moved(to, from, q)] ELSE files[q]]
           /\ job' = HandlesAfterRename(from, to)

RntoFails(s, arg) ==
  LET from == pending_rename_path[s]
      to == Candidate(s, arg)
  IN /\ Inside(s, arg)
     /\ ~RenamesFile(from, to) /\ ~RenamesDirectory(from, to)
     /\ UNCHANGED <<tree, job>>

Rnto(s, arg) ==
  /\ Counts(s)
  /\ pending_rename_path[s] # NoPath
  /\ RntoRenames(s, arg) \/ RntoFails(s, arg)
  /\ ResetForUser(s)
  /\ UNCHANGED current_directory /\ LoginKept

(* SIZE, MDTM, HASH, RETR of a file; NLST of a directory; LIST and STAT of   *)
(* either.  Without an argument the last two look at the working directory.  *)
(* STAT is also answered while a transfer of the session runs.               *)
Query(s) ==
  /\ s \in connected /\ authenticated[s]
  /\ \/ \E arg \in Arguments :
          /\ Inside(s, arg) /\ Exists(Candidate(s, arg))
          /\ leaked' = leaked \cup ({Candidate(s, arg)} \ Under(ServerRoot))
     \/ /\ current_directory[s] \in dirs
        /\ leaked' = leaked \cup ({current_directory[s]} \ Under(ServerRoot))
  /\ UNCHANGED <<tree, current_directory, job, commands>> /\ LoginKept /\ RenameKept

-----------------------------------------------------------------------------
(* Uploads *)

(* STOR and APPE: the path is resolved when the command comes.               *)
BeginUpload(s) ==
  /\ Counts(s)
  /\ \E arg \in Arguments, append \in BOOLEAN, content \in Uploads :
       /\ Inside(s, arg)
       /\ job' = [job EXCEPT ![s] = [NoJob EXCEPT !.stage = "receiving", !.append = append,
                                     !.path = Candidate(s, arg), !.content = content]]
  /\ UNCHANGED <<tree, current_directory>> /\ LoginKept /\ RenameKept

(* STOU: the name was never used before.                                     *)
BeginUnique(s) ==
  /\ Counts(s)
  /\ \E name \in UniqueNames, content \in Uploads :
       /\ \A q \in dirs \cup DOMAIN files \cup {job[t].path : t \in Sessions} :
            NameOf(q) # name
       /\ job' = [job EXCEPT ![s] = [NoJob EXCEPT !.stage = "receiving",
                                     !.path = Append(current_directory[s], name),
                                     !.content = content]]
  /\ UNCHANGED <<tree, current_directory>> /\ LoginKept /\ RenameKept

WorkerOnly == UNCHANGED <<current_directory, leaked, commands>> /\ LoginKept /\ RenameKept

(* The data does not come, is aborted, or cannot be decoded or written.      *)
UploadFails(s) ==
  /\ job[s].stage # "none"
  /\ job' = [job EXCEPT ![s] = NoJob]
  /\ UNCHANGED tree /\ WorkerOnly

(* Mutant of Opened: open does not truncate.                                 *)
OpenKeepsContent(p, append) == IF IsFile(p) THEN files[p] ELSE <<>>

Opened(p, append) == IF IsFile(p) /\ append THEN files[p] ELSE <<>>

(* parent.mkdir(parents, exist_ok) and open("wb" or "ab").                   *)
OpenUpload(s) ==
  LET p == job[s].path IN
  /\ job[s].stage = "receiving"
  /\ p \notin dirs /\ CanHaveParents(p)
  /\ dirs' = dirs \cup Ancestors(p)
  /\ files' = WithFile(p, Opened(p, job[s].append))
  /\ job' = HandlesAfterWrite(s, p, [job[s] EXCEPT !.stage = "open", !.handle = p, !.alone = TRUE])
  /\ WorkerOnly

(* write at the start of the file, over what is there by now; in append      *)
(* mode at its end.                                                          *)
Overlay(new, old) == new \o SubSeq(old, Len(new) + 1, Len(old))

WriteUpload(s) ==
  LET p == job[s].handle
      written == [job[s] EXCEPT !.stage = "written"]
  IN /\ job[s].stage = "open"
     /\ IF p = NoPath
          THEN /\ job' = [job EXCEPT ![s] = written]
               /\ UNCHANGED files
          ELSE /\ files' = [files EXCEPT ![p] =
                             IF job[s].append THEN @ \o job[s].content
                                              ELSE Overlay(job[s].content, @)]
               /\ job' = HandlesAfterWrite(s, p, written)
     /\ UNCHANGED dirs /\ WorkerOnly

(* 226; APPE fails after all if the file it has to measure is gone.          *)
EndUpload(s) ==
  /\ job[s].stage = "written"
  /\ job' = [job EXCEPT ![s] = NoJob]
  /\ UNCHANGED tree /\ WorkerOnly

Worker(s) == UploadFails(s) \/ OpenUpload(s) \/ WriteUpload(s) \/ EndUpload(s)

Command(s) ==
  \/ User(s) \/ Pass(s) \/ Quit(s)
  \/ Cdup(s) \/ Query(s) \/ BeginUpload(s) \/ BeginUnique(s)
  \/ \E arg \in Arguments :
       \/ Cwd(s, arg) \/ Mkd(s, arg) \/ Rmd(s, arg)
       \/ Dele(s, arg) \/ Rnfr(s, arg) \/ Rnto(s, arg)

Next == \E s \in Sessions : Command(s) \/ Worker(s)

Spec == Init /\ [][Next]_vars

-----------------------------------------------------------------------------
(* Properties *)

(* The sessions' own state: a closed one keeps no login and no selection, a  *)
(* worker has a file open only once it has what it is to write, and a worker *)
(* that has had its file to itself holds it under the path of the command.   *)
TypeOK ==
  /\ connected \subseteq Sessions /\ commands \in 0..MaxCommands
  /\ \A s \in Sessions :
       /\ username[s] \in Users \cup {NoUser} /\ authenticated[s] \in BOOLEAN
       /\ s \notin connected =>
            username[s] = NoUser /\ ~authenticated[s] /\ pending_rename_path[s] = NoPath
       /\ job[s].stage \in {"none", "receiving", "open", "written"}
       /\ job[s].stage = "none" => job[s] = NoJob
       /\ job[s].stage = "receiving" => job[s].handle = NoPath /\ ~job[s].alone
       /\ job[s].alone => job[s].handle = job[s].path

(* No command reaches outside the server root, whatever path it is given and *)
(* whatever other sessions do to the directories it passes: nothing there is *)
(* changed or shown, and no session keeps a path that leads there.           *)
Confined ==
  /\ {p \in dirs : ~IsPrefix(ServerRoot, p)} = OutsideDirs
  /\ {p \in DOMAIN files : ~IsPrefix(ServerRoot, p)} = OutsideFiles
  /\ \A s \in Sessions :
       /\ IsPrefix(ServerRoot, current_directory[s])
       /\ \A p \in {pending_rename_path[s], job[s].path, job[s].handle} \ {NoPath} :
            IsPrefix(ServerRoot, p)
  /\ leaked = {}

(* A session acts for the user whose password it gave last, and RNTO renames *)
(* only a file that RNFR selected for the same user: USER and QUIT drop the  *)
(* selection.  A wrong PASS keeps it, for that user, and the working         *)
(* directory outlives a login.                                               *)
LoginState ==
  \A s \in Sessions :
    /\ authenticated[s] => username[s] # NoUser /\ proved[s] = username[s]
    /\ pending_rename_path[s] # NoPath => selector[s] = username[s] /\ selector[s] # NoUser

(* When the worker is about to report 226, and no other session has touched  *)
(* the file since it was opened, the file holds the upload: exactly, or at   *)
(* its end for APPE.  HASH after STOR compares with that.                    *)
UploadIsStored ==
  \A s \in Sessions :
    job[s].stage = "written" /\ job[s].alone =>
      /\ IsFile(job[s].path)
      /\ IF job[s].append THEN IsSuffix(job[s].content, files[job[s].path])
                          ELSE files[job[s].path] = job[s].content
=============================================================================
