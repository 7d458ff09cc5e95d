--------------------------- MODULE FilesystemProofs ---------------------------
(***************************************************************************)
(* Proofs about Filesystem, for any sessions, users, tree and arguments:   *)
(* whose login a session acts for, what it keeps, that it stays in the     *)
(* server root, and that a worker that reports an upload has stored it,    *)
(* also when directories are renamed under open files.                     *)
(***************************************************************************)
EXTENDS Filesystem, SequenceTheorems, WellFoundedInduction, TLAPS

(* A set of numbers with a member has a least one.                           *)
LEMMA Least ==
  ASSUME NEW S \in SUBSET Nat, S # {}
  PROVE  \E n \in S : \A m \in S : n <= m
  <1> DEFINE Less == {ss \in Nat \X Nat : ss[1] < ss[2]}
  <1>1. IsWellFoundedOn(Less, Nat)
    BY NatLessThanWellFounded DEF OpToRel
  <1> HIDE DEF Less
  <1>2. PICK n \in S : \A m \in S : <<m, n>> \notin Less
    BY <1>1, WFMin
  <1>3. ASSUME NEW m \in S PROVE n <= m
    <2>1. m \in Nat /\ n \in Nat /\ ~(m < n)
      BY <1>2 DEF Less
    <2> QED
      BY <2>1
  <1> QED
    BY <1>3

(* One name leads from a path to a path.                                     *)
LEMMA StepType ==
  ASSUME NEW p \in Seq(STRING), NEW name \in STRING
  PROVE  Step(p, name) \in Seq(STRING)
  <1>1. Front(p) \in Seq(STRING)
    <2>1. \A i \in 1..(Len(p) - 1) : p[i] \in STRING
      OBVIOUS
    <2> QED
      BY <2>1, SubSeqProperties DEF Front
  <1>2. Append(p, name) \in Seq(STRING)
    BY AppendProperties
  <1> QED
    BY <1>1, <1>2, EmptySeq DEF Step, Parent

(* Resolving a path ends at a path.                                          *)
LEMMA WalkType ==
  ASSUME NEW base \in Seq(STRING), NEW names \in Seq(STRING)
  PROVE  Walk(base, names) \in Seq(STRING)
  <1> DEFINE N == Len(names)
             Next1(f, n) == IF n = 0 THEN base ELSE Step(f[n - 1], names[n])
             Reaches(f, k) == f = [n \in 0..k |-> Next1(f, n)]
             walk == CHOOSE f : Reaches(f, N)
             Without1 == {k \in 0..N : ~\E f : Reaches(f, k)}
             Astray == {k \in 0..N : walk[k] \notin Seq(STRING)}
  <1>0. N \in Nat
    OBVIOUS
  <1>1. Without1 = {}
    <2> SUFFICES ASSUME Without1 # {} PROVE FALSE
      OBVIOUS
    <2>0. Without1 \in SUBSET Nat /\ Without1 \subseteq 0..N
      BY <1>0
    <2> HIDE DEF Without1
    <2>1. PICK k \in Without1 : \A m \in Without1 : k <= m
      BY <2>0, Least
    <2> USE DEF Without1
    <2>2. CASE k = 0
      <3>1. Reaches([n \in 0..0 |-> base], 0)
        OBVIOUS
      <3> QED
        BY <2>2, <3>1
    <2>3. CASE k # 0
      <3>1. k - 1 \in 0..N /\ k \in Nat
        BY <1>0, <2>1, <2>3
      <3> HIDE DEF Without1
      <3>a. k - 1 \notin Without1
        BY <2>1, <3>1
      <3> USE DEF Without1
      <3>2. PICK g : Reaches(g, k - 1)
        BY <3>1, <3>a
      <3>3. k \in 1..N /\ \A n \in 0..(k - 1) : g[n] = Next1(g, n)
        BY <3>1, <3>2, <2>3
      <3> DEFINE f == [n \in 0..k |-> IF n = k THEN Step(g[k - 1], names[k]) ELSE g[n]]
      <3>4. ASSUME NEW n \in 0..k PROVE f[n] = Next1(f, n)
        <4>1. CASE n = k
          BY <3>3, <4>1
        <4>2. CASE n # k
          <5>1. n \in 0..(k - 1) /\ f[n] = g[n] /\ (n # 0 => f[n - 1] = g[n - 1])
            BY <3>3, <4>2
          <5> QED
            BY <3>3, <5>1
        <4> QED
          BY <4>1, <4>2
      <3>5. f = [n \in 0..k |-> f[n]]
        OBVIOUS
      <3>6. Reaches(f, k)
        BY <3>4, <3>5
      <3> QED
        BY <3>6
    <2> QED
      BY <2>2, <2>3
  <1>2. Reaches(walk, N)
    <2>1. N \in 0..N
      BY <1>0
    <2>2. \E f : Reaches(f, N)
      BY <1>1, <2>1
    <2> QED
      BY <2>2
  <1>3. \A n \in 0..N : walk[n] = Next1(walk, n)
    BY <1>2
  <1> HIDE DEF walk
  <1>4. Astray = {}
    <2> SUFFICES ASSUME Astray # {} PROVE FALSE
      OBVIOUS
    <2>0. Astray \in SUBSET Nat /\ Astray \subseteq 0..N
      BY <1>0
    <2> HIDE DEF Astray
    <2>1. PICK k \in Astray : \A m \in Astray : k <= m
      BY <2>0, Least
    <2> USE DEF Astray
    <2>2. k # 0 /\ k \in 0..N
      BY <1>0, <1>3, <2>1
    <2>3. k - 1 \in 0..N /\ walk[k - 1] \in Seq(STRING)
      BY <1>0, <2>1, <2>2
    <2>4. names[k] \in STRING
      BY <2>2
    <2>5. walk[k] = Step(walk[k - 1], names[k])
      BY <1>3, <2>2
    <2> QED
      BY <2>1, <2>3, <2>4, <2>5, StepType
  <1>5. walk[N] \in Seq(STRING)
    BY <1>0, <1>4
  <1>6. Walk(base, names) = walk[N]
    BY DEF Walk, walk
  <1> QED
    BY <1>5, <1>6

-----------------------------------------------------------------------------
(* Paths below the server root *)

InRoot == {p \in Seq(STRING) : IsPrefix(ServerRoot, p)}

(* IsPrefix, by positions.                                                   *)
LEMMA PrefixByPosition ==
  ASSUME NEW p \in Seq(STRING), NEW q \in Seq(STRING)
  PROVE  IsPrefix(p, q) <=> Len(p) <= Len(q) /\ \A i \in 1..Len(p) : p[i] = q[i]
  <1>1. SubSeq(p, 1, Len(p)) = p
    BY SubSeqFull
  <1>2. ASSUME Len(p) <= Len(q)
        PROVE  /\ SubSeq(q, 1, Len(p)) \in Seq(STRING)
               /\ Len(SubSeq(q, 1, Len(p))) = Len(p)
               /\ \A i \in 1..Len(p) : SubSeq(q, 1, Len(p))[i] = q[i]
    <2>1. \A i \in 1..Len(p) : q[i] \in STRING
      BY <1>2
    <2> QED
      BY <2>1, SubSeqProperties
  <1>3. ASSUME Len(p) <= Len(q), \A i \in 1..Len(p) : p[i] = q[i]
        PROVE  p = SubSeq(q, 1, Len(p))
    BY <1>2, <1>3, SeqEqual
  <1> QED
    BY <1>1, <1>2, <1>3 DEF IsPrefix

(* What continues a path below the root is below the root.                   *)
LEMMA Below ==
  ASSUME NEW p \in InRoot, NEW q \in Seq(STRING), IsPrefix(p, q)
  PROVE  q \in InRoot
  <1>1. ServerRoot \in Seq(STRING) /\ p \in Seq(STRING)
    BY RootAssumption DEF InRoot
  <1>2. Len(ServerRoot) <= Len(p) /\ \A i \in 1..Len(ServerRoot) : ServerRoot[i] = p[i]
    BY <1>1, PrefixByPosition DEF InRoot
  <1>3. Len(p) <= Len(q) /\ \A i \in 1..Len(p) : p[i] = q[i]
    BY <1>1, PrefixByPosition
  <1>4. Len(ServerRoot) <= Len(q) /\ \A i \in 1..Len(ServerRoot) : ServerRoot[i] = q[i]
    BY <1>1, <1>2, <1>3
  <1> QED
    BY <1>1, <1>4, PrefixByPosition DEF InRoot

(* So are concatenations with it.                                            *)
LEMMA BelowConcat ==
  ASSUME NEW p \in InRoot, NEW q \in Seq(STRING)
  PROVE  p \o q \in InRoot
  <1>1. p \in Seq(STRING)
    BY DEF InRoot
  <1>2. /\ p \o q \in Seq(STRING) /\ Len(p \o q) = Len(p) + Len(q)
        /\ \A i \in 1..(Len(p) + Len(q)) : (p \o q)[i] = IF i <= Len(p) THEN p[i] ELSE q[i - Len(p)]
    BY <1>1, ConcatProperties
  <1>3. Len(p) \in Nat /\ Len(q) \in Nat
    BY <1>1
  <1>4. Len(p) <= Len(p \o q) /\ \A i \in 1..Len(p) : p[i] = (p \o q)[i]
    BY <1>2, <1>3
  <1>5. IsPrefix(p, p \o q)
    BY <1>1, <1>2, <1>4, PrefixByPosition
  <1> QED
    BY <1>2, <1>5, Below

(* What a rename makes of a path below the renamed one.                      *)
LEMMA BelowMoved ==
  ASSUME NEW from \in Seq(STRING), NEW to \in InRoot, NEW q \in Seq(STRING)
  PROVE  Moved(from, to, q) \in InRoot
  <1>1. \A i \in (Len(from) + 1)..Len(q) : q[i] \in STRING
    OBVIOUS
  <1>2. SubSeq(q, Len(from) + 1, Len(q)) \in Seq(STRING)
    BY <1>1, SubSeqProperties
  <1> QED
    BY <1>2, BelowConcat DEF Moved

(* A new name in a directory of the root.                                    *)
LEMMA BelowAppend ==
  ASSUME NEW p \in InRoot, NEW name \in STRING
  PROVE  Append(p, name) \in InRoot
  <1>1. p \in Seq(STRING) /\ Len(p) \in Nat
    BY DEF InRoot
  <1>2. Append(p, name) \in Seq(STRING)
    BY <1>1, AppendProperties
  <1>3. Len(Append(p, name)) = Len(p) + 1
    BY <1>1, AppendProperties
  <1>4. \A i \in 1..Len(p) : p[i] = Append(p, name)[i]
    BY <1>1, AppendProperties
  <1>5. Len(p) <= Len(Append(p, name))
    BY <1>1, <1>3
  <1>6. IsPrefix(p, Append(p, name))
    BY <1>1, <1>2, <1>4, <1>5, PrefixByPosition
  <1> QED
    BY <1>2, <1>6, Below

(* The root and its machine have no path in common.                          *)
LEMMA Apart == (OutsideDirs \cup OutsideFiles) \cap InRoot = {}
  BY RootAssumption DEF InRoot

(* What lies above a path below the root is there too, or above the root.    *)
LEMMA AncestorsKnown ==
  ASSUME NEW p \in InRoot
  PROVE  Ancestors(p) \subseteq OutsideDirs \cup InRoot
  <1>1. ServerRoot \in Seq(STRING) /\ p \in Seq(STRING)
    BY RootAssumption DEF InRoot
  <1>2. Len(ServerRoot) <= Len(p) /\ \A i \in 1..Len(ServerRoot) : ServerRoot[i] = p[i]
    BY <1>1, PrefixByPosition DEF InRoot
  <1> SUFFICES ASSUME NEW n \in 0..(Len(p) - 1)
               PROVE  SubSeq(p, 1, n) \in OutsideDirs \cup InRoot
    BY DEF Ancestors
  <1>3. /\ SubSeq(p, 1, n) \in Seq(STRING) /\ Len(SubSeq(p, 1, n)) = n
        /\ \A i \in 1..n : SubSeq(p, 1, n)[i] = p[i]
    <2>1. \A i \in 1..n : p[i] \in STRING
      BY <1>1
    <2> QED
      BY <1>1, <2>1, SubSeqProperties
  <1>4. CASE n < Len(ServerRoot)
    <2>1. /\ SubSeq(ServerRoot, 1, n) \in Seq(STRING) /\ Len(SubSeq(ServerRoot, 1, n)) = n
          /\ \A i \in 1..n : SubSeq(ServerRoot, 1, n)[i] = ServerRoot[i]
      <3>1. \A i \in 1..n : ServerRoot[i] \in STRING
        BY <1>1, <1>4
      <3> QED
        BY <1>1, <3>1, SubSeqProperties
    <2>2. SubSeq(p, 1, n) = SubSeq(ServerRoot, 1, n)
      BY <1>1, <1>2, <1>3, <1>4, <2>1, SeqEqual
    <2>3. n \in 0..(Len(ServerRoot) - 1)
      BY <1>1, <1>4
    <2> QED
      BY <2>2, <2>3, RootAssumption DEF Ancestors
  <1>5. CASE n >= Len(ServerRoot)
    <2>1. Len(ServerRoot) <= n /\ \A i \in 1..Len(ServerRoot) : ServerRoot[i] = SubSeq(p, 1, n)[i]
      BY <1>1, <1>2, <1>3, <1>5
    <2> QED
      BY <1>1, <1>3, <2>1, PrefixByPosition DEF InRoot
  <1>6. Len(ServerRoot) \in Nat
    BY <1>1
  <1> QED
    BY <1>4, <1>5, <1>6

-----------------------------------------------------------------------------
(* The sessions stay in the root *)

Jobs ==
  {j \in [stage : {"none", "receiving", "open", "written"}, append : BOOLEAN,
          path : InRoot \cup {NoPath}, content : Uploads \cup {<<>>},
          handle : InRoot \cup {NoPath}, alone : BOOLEAN] :
     j.stage # "none" => j.path \in InRoot}

(* The tree outside the root is what it was.                                 *)
TreeInside ==
  /\ OutsideDirs \subseteq dirs /\ dirs \subseteq OutsideDirs \cup InRoot
  /\ OutsideFiles \subseteq DOMAIN files /\ DOMAIN files \subseteq OutsideFiles \cup InRoot

(* The paths that sessions and their workers keep are in the root.           *)
PathsInside ==
  /\ current_directory \in [Sessions -> InRoot]
  /\ pending_rename_path \in [Sessions -> InRoot \cup {NoPath}]
JobsInside == job \in [Sessions -> Jobs]

AllInside == TreeInside /\ PathsInside /\ JobsInside /\ leaked = {}

(* A path that resolve_session_path accepts is in the root.                  *)
LEMMA Accepted ==
  ASSUME PathsInside, NEW s \in Sessions, NEW arg \in Arguments, Inside(s, arg)
  PROVE  Candidate(s, arg) \in InRoot
  <1>1. /\ current_directory[s] \in Seq(STRING) /\ <<>> \in Seq(STRING)
        /\ arg.names \in Seq(STRING)
    BY NamesAssumption, EmptySeq DEF PathsInside, InRoot
  <1>2. Candidate(s, arg) \in Seq(STRING)
    BY <1>1, WalkType DEF Candidate
  <1> QED
    BY <1>2 DEF Inside, InRoot

(* The open files of the workers stay in the root.                           *)
LEMMA HandlesInside ==
  ASSUME JobsInside
  PROVE  /\ \A p : HandlesAfterUnlink(p) \in [Sessions -> Jobs]
         /\ \A from \in Seq(STRING), to \in InRoot :
              HandlesAfterRename(from, to) \in [Sessions -> Jobs]
         /\ \A p : \A s \in Sessions, j \in Jobs : HandlesAfterWrite(s, p, j) \in [Sessions -> Jobs]
  <1>1. \A t \in Sessions : job[t] \in Jobs
    BY DEF JobsInside
  <1>2. \A j \in Jobs : Disturb(j) \in Jobs
    BY DEF Jobs, Disturb
  <1>3. \A j \in Jobs, h \in InRoot \cup {NoPath} : [j EXCEPT !.handle = h] \in Jobs
    BY DEF Jobs
  <1>4. ASSUME NEW p PROVE HandlesAfterUnlink(p) \in [Sessions -> Jobs]
    BY <1>1, <1>2, <1>3 DEF HandlesAfterUnlink
  <1>5. ASSUME NEW from \in Seq(STRING), NEW to \in InRoot
        PROVE  HandlesAfterRename(from, to) \in [Sessions -> Jobs]
    <2>1. ASSUME NEW t \in Sessions, job[t].handle # NoPath
          PROVE  Moved(from, to, job[t].handle) \in InRoot
      <3>1. job[t].handle \in Seq(STRING)
        BY <1>1, <2>1 DEF Jobs, InRoot
      <3> QED
        BY <3>1, BelowMoved
    <2>2. ASSUME NEW t \in Sessions, job[t].handle # NoPath
          PROVE  Disturb([job[t] EXCEPT !.handle = Moved(from, to, @)]) \in Jobs
      BY <2>1, <2>2, <1>1, <1>2, <1>3
    <2> QED
      BY <2>2, <1>1, <1>2, <1>3 DEF HandlesAfterRename
  <1>6. ASSUME NEW s \in Sessions, NEW p, NEW j \in Jobs
        PROVE  HandlesAfterWrite(s, p, j) \in [Sessions -> Jobs]
    BY <1>1, <1>2 DEF HandlesAfterWrite
  <1> QED
    BY <1>4, <1>5, <1>6

(* No step leads outside: first those that leave the tree alone.             *)
LEMMA TreeKept ==
  ASSUME AllInside, UNCHANGED <<tree, leaked>>, PathsInside', JobsInside'
  PROVE  AllInside'
  BY DEF AllInside, TreeInside, tree

(* The commands on the tree, given a path that the server accepts.           *)
LEMMA TreeCommandInside ==
  ASSUME AllInside, NEW s \in Sessions, NEW arg \in Arguments,
         Mkd(s, arg) \/ Rmd(s, arg) \/ Dele(s, arg)
  PROVE  AllInside'
  <1> DEFINE p == Candidate(s, arg)
  <1>1. p \in InRoot /\ p \notin OutsideDirs /\ p \notin OutsideFiles
    BY Accepted, Apart DEF AllInside, Mkd, Rmd, Dele
  <1>2. UNCHANGED <<current_directory, pending_rename_path, leaked>>
    BY DEF Mkd, Rmd, Dele, RenameKept, Counts
  <1>3. PathsInside'
    BY <1>2 DEF AllInside, PathsInside
  <1>4. CASE Mkd(s, arg)
    <2>1. dirs' = dirs \cup Ancestors(p) \cup {p} /\ UNCHANGED <<files, job>>
      BY <1>4 DEF Mkd
    <2>2. Ancestors(p) \subseteq OutsideDirs \cup InRoot
      BY <1>1, AncestorsKnown
    <2> QED
      BY <1>1, <1>2, <1>3, <2>1, <2>2 DEF AllInside, TreeInside, JobsInside
  <1>5. CASE Rmd(s, arg)
    <2>1. dirs' = dirs \ {p} /\ UNCHANGED <<files, job>>
      BY <1>5 DEF Rmd
    <2> QED
      BY <1>1, <1>2, <1>3, <2>1 DEF AllInside, TreeInside, JobsInside
  <1>6. CASE Dele(s, arg)
    <2>1. dirs' = dirs /\ DOMAIN files' = DOMAIN files \ {p} /\ job' = HandlesAfterUnlink(p)
      BY <1>6 DEF Dele, Without
    <2>2. JobsInside'
      BY <2>1, HandlesInside DEF AllInside, JobsInside
    <2> QED
      BY <1>1, <1>2, <1>3, <2>1, <2>2 DEF AllInside, TreeInside
  <1> QED
    BY <1>4, <1>5, <1>6

(* RNTO, also when it moves a directory.                                     *)
LEMMA RntoInside ==
  ASSUME AllInside, NEW s \in Sessions, NEW arg \in Arguments, Rnto(s, arg)
  PROVE  AllInside'
  <1> DEFINE from == pending_rename_path[s]
             to == Candidate(s, arg)
  <1>1. Inside(s, arg)
    BY DEF Rnto, RntoRenames, RntoFails
  <1>2. /\ from \in InRoot /\ from \in Seq(STRING)
        /\ to \in InRoot /\ to \notin OutsideDirs /\ to \notin OutsideFiles
        /\ from \notin OutsideDirs /\ from \notin OutsideFiles
    BY <1>1, Accepted, Apart DEF AllInside, PathsInside, Rnto, InRoot
  <1>3. UNCHANGED <<current_directory, leaked>> /\ ResetForUser(s)
    BY DEF Rnto, Counts
  <1>4. PathsInside'
    BY <1>3 DEF AllInside, PathsInside, ResetForUser
  <1>5. HandlesAfterRename(from, to) \in [Sessions -> Jobs]
    BY <1>2, HandlesInside DEF AllInside
  <1>6. CASE RntoFails(s, arg)
    BY <1>3, <1>4, <1>6, TreeKept DEF RntoFails, AllInside, JobsInside
  <1>7. CASE RenamesFile(from, to) /\ DOMAIN files' = (DOMAIN files \ {from}) \cup {to}
             /\ job' \in {job, HandlesAfterRename(from, to)} /\ dirs' = dirs
    BY <1>2, <1>3, <1>4, <1>5, <1>7 DEF AllInside, TreeInside, JobsInside
  <1>8. CASE /\ dirs' = {IF IsPrefix(from, q) THEN Moved(from, to, q) ELSE q : q \in dirs}
             /\ DOMAIN files' = {IF IsPrefix(from, q) THEN Moved(from, to, q) ELSE q :
                                   q \in DOMAIN files}
             /\ job' = HandlesAfterRename(from, to)
    <2>1. ASSUME NEW q \in OutsideDirs \cup OutsideFiles \cup InRoot
          PROVE  q \in Seq(STRING) /\ (IsPrefix(from, q) => q \in InRoot /\ Moved(from, to, q) \in InRoot)
      <3>1. q \in Seq(STRING)
        BY RootAssumption DEF InRoot
      <3> QED
        BY <1>2, <3>1, Below, BelowMoved
    <2>2. \A q \in OutsideDirs \cup OutsideFiles : ~IsPrefix(from, q)
      BY <2>1, Apart
    <2> HIDE DEF from, to
    <2>3. OutsideDirs \subseteq dirs' /\ dirs' \subseteq OutsideDirs \cup InRoot
      BY <1>8, <2>1, <2>2 DEF AllInside, TreeInside
    <2>4. OutsideFiles \subseteq DOMAIN files' /\ DOMAIN files' \subseteq OutsideFiles \cup InRoot
      BY <1>8, <2>1, <2>2 DEF AllInside, TreeInside
    <2> QED
      BY <1>3, <1>4, <1>5, <1>8, <2>3, <2>4 DEF AllInside, TreeInside, JobsInside
  <1> QED
    BY <1>6, <1>7, <1>8 DEF Rnto, RntoRenames

(* The worker of an upload writes where the command's path led.              *)
LEMMA WorkerInside ==
  ASSUME AllInside, NEW s \in Sessions, Worker(s)
  PROVE  AllInside'
  <1>1. job[s] \in Jobs /\ NoJob \in Jobs
    BY DEF AllInside, JobsInside, Jobs, NoJob
  <1>2. UNCHANGED <<current_directory, pending_rename_path, leaked>>
    BY DEF Worker, UploadFails, OpenUpload, WriteUpload, EndUpload, WorkerOnly, RenameKept
  <1>3. PathsInside'
    BY <1>2 DEF AllInside, PathsInside
  <1>4. CASE UploadFails(s) \/ EndUpload(s)
    <2>1. UNCHANGED tree /\ JobsInside'
      BY <1>1, <1>4 DEF UploadFails, EndUpload, AllInside, JobsInside
    <2> QED
      BY <1>2, <1>3, <2>1, TreeKept
  <1>5. CASE OpenUpload(s)
    <2> DEFINE p == job[s].path
               opened == [job[s] EXCEPT !.stage = "open", !.handle = p, !.alone = TRUE]
    <2>1. p \in InRoot /\ opened \in Jobs
      BY <1>1, <1>5 DEF OpenUpload, Jobs
    <2>2. /\ dirs' = dirs \cup Ancestors(p) /\ DOMAIN files' = DOMAIN files \cup {p}
          /\ job' = HandlesAfterWrite(s, p, opened)
      BY <1>5 DEF OpenUpload, WithFile
    <2>3. Ancestors(p) \subseteq OutsideDirs \cup InRoot
      BY <2>1, AncestorsKnown
    <2>4. JobsInside'
      BY <2>1, <2>2, HandlesInside DEF AllInside, JobsInside
    <2> QED
      BY <1>2, <1>3, <2>1, <2>2, <2>3, <2>4 DEF AllInside, TreeInside
  <1>6. CASE WriteUpload(s)
    <2> DEFINE written == [job[s] EXCEPT !.stage = "written"]
    <2>1. written \in Jobs
      BY <1>1, <1>6 DEF WriteUpload, Jobs
    <2>2. dirs' = dirs /\ DOMAIN files' = DOMAIN files
      BY <1>6 DEF WriteUpload
    <2>3. JobsInside'
      <3>1. job' = [job EXCEPT ![s] = written] \/ job' = HandlesAfterWrite(s, job[s].handle, written)
        BY <1>6 DEF WriteUpload
      <3>2. HandlesAfterWrite(s, job[s].handle, written) \in [Sessions -> Jobs]
        <4> HIDE DEF written
        <4> QED
          BY <2>1, HandlesInside DEF AllInside
      <3>3. [job EXCEPT ![s] = written] \in [Sessions -> Jobs]
        BY <2>1 DEF AllInside, JobsInside
      <3> QED
        BY <3>1, <3>2, <3>3 DEF JobsInside
    <2> QED
      BY <1>2, <1>3, <2>2, <2>3 DEF AllInside, TreeInside
  <1> QED
    BY <1>4, <1>5, <1>6 DEF Worker

(* The other commands set a session's own paths, or look at a file.          *)
LEMMA SessionCommandInside ==
  ASSUME AllInside, NEW s \in Sessions,
         \/ User(s) \/ Pass(s) \/ Quit(s) \/ Cdup(s) \/ Query(s)
         \/ BeginUpload(s) \/ BeginUnique(s)
         \/ \E arg \in Arguments : Cwd(s, arg) \/ Rnfr(s, arg)
  PROVE  AllInside'
  <1>1. /\ current_directory \in [Sessions -> InRoot] /\ job \in [Sessions -> Jobs]
        /\ pending_rename_path \in [Sessions -> InRoot \cup {NoPath}]
        /\ leaked = {} /\ PathsInside
    BY DEF AllInside, PathsInside, JobsInside
  <1>2. CASE User(s) \/ Pass(s) \/ Quit(s)
    <2>1. UNCHANGED <<tree, current_directory, job, leaked>>
      BY <1>2 DEF User, Pass, Quit
    <2>2. pending_rename_path' \in [Sessions -> InRoot \cup {NoPath}]
      BY <1>1, <1>2 DEF User, Pass, Quit, ResetForUser
    <2> QED
      BY <1>1, <2>1, <2>2, TreeKept DEF PathsInside, JobsInside
  <1>3. CASE Cdup(s)
    <2>1. Parent(current_directory[s]) \in InRoot
      <3>1. current_directory[s] \in InRoot /\ current_directory[s] \in Seq(STRING)
        BY <1>1 DEF InRoot
      <3>2. IsPrefix(ServerRoot, Parent(current_directory[s]))
        BY <1>3 DEF Cdup
      <3>3. Front(current_directory[s]) \in Seq(STRING)
        <4>1. \A i \in 1..(Len(current_directory[s]) - 1) : current_directory[s][i] \in STRING
          BY <3>1
        <4> QED
          BY <3>1, <4>1, SubSeqProperties DEF Front
      <3> QED
        BY <3>2, <3>3, EmptySeq DEF Parent, InRoot
    <2>2. current_directory' \in [Sessions -> InRoot]
      BY <1>1, <1>3, <2>1 DEF Cdup
    <2> QED
      BY <1>1, <1>3, <2>2, TreeKept DEF Cdup, Counts, RenameKept, PathsInside, JobsInside
  <1>4. CASE Query(s)
    <2>1. UNCHANGED <<tree, current_directory, job, pending_rename_path>>
      BY <1>4 DEF Query, RenameKept
    <2>2. leaked' = {}
      <3>1. ASSUME NEW p \in InRoot, Exists(p) PROVE p \in Under(ServerRoot)
        BY <3>1 DEF Exists, IsFile, Under, InRoot
      <3>2. CASE \E arg \in Arguments :
                   /\ Inside(s, arg) /\ Exists(Candidate(s, arg))
                   /\ leaked' = leaked \cup ({Candidate(s, arg)} \ Under(ServerRoot))
        BY <1>1, <3>1, <3>2, Accepted
      <3>3. CASE /\ current_directory[s] \in dirs
                 /\ leaked' = leaked \cup ({current_directory[s]} \ Under(ServerRoot))
        BY <1>1, <3>1, <3>3 DEF Exists
      <3> QED
        BY <1>4, <3>2, <3>3 DEF Query
    <2> QED
      BY <1>1, <2>1, <2>2, TreeKept DEF PathsInside, JobsInside
  <1>5. CASE BeginUpload(s)
    <2>1. PICK arg \in Arguments, append \in BOOLEAN, content \in Uploads :
            /\ Inside(s, arg)
            /\ job' = [job EXCEPT ![s] = [NoJob EXCEPT !.stage = "receiving", !.append = append,
                                          !.path = Candidate(s, arg), !.content = content]]
      BY <1>5 DEF BeginUpload
    <2>2. Candidate(s, arg) \in InRoot
      BY <1>1, <2>1, Accepted
    <2>3. job' \in [Sessions -> Jobs]
      BY <1>1, <2>1, <2>2 DEF Jobs, NoJob
    <2> QED
      BY <1>1, <1>5, <2>3, TreeKept DEF BeginUpload, Counts, RenameKept, PathsInside, JobsInside
  <1>6. CASE BeginUnique(s)
    <2>1. PICK name \in UniqueNames, content \in Uploads :
            job' = [job EXCEPT ![s] = [NoJob EXCEPT !.stage = "receiving",
                                       !.path = Append(current_directory[s], name),
                                       !.content = content]]
      BY <1>6 DEF BeginUnique
    <2>2. Append(current_directory[s], name) \in InRoot
      BY <1>1, NamesAssumption, BelowAppend
    <2>3. job' \in [Sessions -> Jobs]
      BY <1>1, <2>1, <2>2 DEF Jobs, NoJob
    <2> QED
      BY <1>1, <1>6, <2>3, TreeKept DEF BeginUnique, Counts, RenameKept, PathsInside, JobsInside
  <1>7. ASSUME NEW arg \in Arguments, Cwd(s, arg) PROVE AllInside'
    <2>1. Candidate(s, arg) \in InRoot
      BY <1>1, <1>7, Accepted DEF Cwd
    <2>2. current_directory' \in [Sessions -> InRoot]
      BY <1>1, <1>7, <2>1 DEF Cwd
    <2> QED
      BY <1>1, <1>7, <2>2, TreeKept DEF Cwd, Counts, RenameKept, PathsInside, JobsInside
  <1>8. ASSUME NEW arg \in Arguments, Rnfr(s, arg) PROVE AllInside'
    <2>1. Candidate(s, arg) \in InRoot
      BY <1>1, <1>8, Accepted DEF Rnfr
    <2>2. pending_rename_path' \in [Sessions -> InRoot \cup {NoPath}]
      BY <1>1, <1>8, <2>1 DEF Rnfr
    <2> QED
      BY <1>1, <1>8, <2>2, TreeKept DEF Rnfr, Counts, PathsInside, JobsInside
  <1> QED
    BY <1>2, <1>3, <1>4, <1>5, <1>6, <1>7, <1>8

(* No step leads outside, whatever came before it.                           *)
LEMMA InsideAlways == Spec => []AllInside
  <1>1. Init => AllInside
    <2> SUFFICES ASSUME Init PROVE AllInside
      OBVIOUS
    <2>1. ServerRoot \in InRoot
      <3>1. ServerRoot \in Seq(STRING)
        BY RootAssumption
      <3> QED
        BY <3>1, PrefixByPosition DEF InRoot
    <2>2. NoJob \in Jobs
      BY DEF NoJob, Jobs
    <2> QED
      BY <2>1, <2>2 DEF Init, AllInside, TreeInside, PathsInside, JobsInside
  <1>2. AllInside /\ [Next]_vars => AllInside'
    <2> SUFFICES ASSUME AllInside, [Next]_vars PROVE AllInside'
      OBVIOUS
    <2>1. CASE UNCHANGED vars
      BY <2>1 DEF vars, tree, AllInside, TreeInside, PathsInside, JobsInside
    <2>2. ASSUME NEW s \in Sessions, Command(s) \/ Worker(s) PROVE AllInside'
      BY <2>2, WorkerInside, SessionCommandInside, TreeCommandInside, RntoInside DEF Command
    <2> QED
      BY <2>1, <2>2 DEF Next
  <1> QED
    BY <1>1, <1>2, PTL DEF Spec

(* All sessions together stay in the server root (Confined).                 *)
THEOREM StaysInRoot == Spec => []Confined
  <1>1. AllInside => Confined
    <2> SUFFICES ASSUME AllInside PROVE Confined
      OBVIOUS
    <2>1. {p \in dirs : ~IsPrefix(ServerRoot, p)} = OutsideDirs
      BY RootAssumption DEF AllInside, TreeInside, InRoot
    <2>2. {p \in DOMAIN files : ~IsPrefix(ServerRoot, p)} = OutsideFiles
      BY RootAssumption DEF AllInside, TreeInside, InRoot
    <2>3. ASSUME NEW s \in Sessions
          PROVE  /\ current_directory[s] \in InRoot
                 /\ {pending_rename_path[s], job[s].path, job[s].handle} \subseteq InRoot \cup {NoPath}
      BY DEF AllInside, PathsInside, JobsInside, Jobs
    <2> QED
      BY <2>1, <2>2, <2>3 DEF Confined, AllInside, InRoot
  <1> QED
    BY <1>1, InsideAlways, PTL

-----------------------------------------------------------------------------
(* What LoginState needs of the variables it speaks of.                      *)
LoginTypes ==
  /\ username \in [Sessions -> Users \cup {NoUser}]
  /\ authenticated \in [Sessions -> BOOLEAN]
  /\ proved \in [Sessions -> Users \cup {NoUser}]
  /\ selector \in [Sessions -> Users \cup {NoUser}]
  /\ pending_rename_path = [s \in Sessions |-> pending_rename_path[s]]
LoginInv == LoginTypes /\ LoginState

(* USER, PASS and QUIT leave a login that hangs together.                    *)
LEMMA LoginCommands ==
  ASSUME LoginInv, NEW s \in Sessions, User(s) \/ Pass(s) \/ Quit(s)
  PROVE  LoginInv'
  <1> USE DEF LoginInv, LoginTypes, LoginState
  <1>1. CASE User(s)
    <2>1. PICK u \in Users \cup {NoUser} : username' = [username EXCEPT ![s] = u]
      BY <1>1 DEF User
    <2>2. authenticated' = [authenticated EXCEPT ![s] = FALSE] /\ UNCHANGED proved
      BY <1>1 DEF User
    <2>3. /\ pending_rename_path' = [pending_rename_path EXCEPT ![s] = NoPath]
          /\ selector' = [selector EXCEPT ![s] = NoUser]
      BY <1>1 DEF User, ResetForUser
    <2>4. LoginTypes'
      BY <2>1, <2>2, <2>3
    <2> QED
      BY <2>1, <2>2, <2>3, <2>4
  <1>2. CASE Pass(s)
    <2>1. PICK correct \in BOOLEAN :
            /\ authenticated' = [authenticated EXCEPT ![s] = correct]
            /\ proved' = [proved EXCEPT ![s] = IF correct THEN username[s] ELSE NoUser]
      BY <1>2 DEF Pass
    <2>2. username[s] # NoUser /\ UNCHANGED <<username, pending_rename_path, selector>>
      BY <1>2 DEF Pass
    <2>3. LoginTypes'
      BY <2>1, <2>2
    <2> QED
      BY <2>1, <2>2, <2>3
  <1>3. CASE Quit(s)
    <2>1. /\ username' = [username EXCEPT ![s] = NoUser]
          /\ authenticated' = [authenticated EXCEPT ![s] = FALSE]
          /\ proved' = [proved EXCEPT ![s] = NoUser]
      BY <1>3 DEF Quit
    <2>2. /\ pending_rename_path' = [pending_rename_path EXCEPT ![s] = NoPath]
          /\ selector' = [selector EXCEPT ![s] = NoUser]
      BY <1>3 DEF Quit, ResetForUser
    <2>3. LoginTypes'
      BY <2>1, <2>2
    <2> QED
      BY <2>1, <2>2, <2>3
  <1> QED
    BY <1>1, <1>2, <1>3

(* RNFR selects for the user who is logged in, RNTO forgets the selection.   *)
LEMMA RenameCommands ==
  ASSUME LoginInv, NEW s \in Sessions, NEW arg \in Arguments, Rnfr(s, arg) \/ Rnto(s, arg)
  PROVE  LoginInv'
  <1> USE DEF LoginInv, LoginTypes, LoginState
  <1>1. UNCHANGED <<username, authenticated, proved>> /\ authenticated[s]
    BY DEF Rnfr, Rnto, Counts, LoggedIn, LoginKept, login
  <1>2. \/ /\ pending_rename_path' = [pending_rename_path EXCEPT ![s] = Candidate(s, arg)]
           /\ selector' = [selector EXCEPT ![s] = username[s]]
        \/ /\ pending_rename_path' = [pending_rename_path EXCEPT ![s] = NoPath]
           /\ selector' = [selector EXCEPT ![s] = NoUser]
    BY DEF Rnfr, Rnto, ResetForUser
  <1>3. LoginTypes'
    BY <1>1, <1>2
  <1> QED
    BY <1>1, <1>2, <1>3

(* All other steps leave the login and the selected file alone.              *)
LEMMA LoginUntouched ==
  ASSUME NEW s \in Sessions,
         \/ Cdup(s) \/ Query(s) \/ BeginUpload(s) \/ BeginUnique(s) \/ Worker(s)
         \/ \E arg \in Arguments : Cwd(s, arg) \/ Mkd(s, arg) \/ Rmd(s, arg) \/ Dele(s, arg)
  PROVE  UNCHANGED <<username, authenticated, proved, pending_rename_path, selector>>
  <1>1. UNCHANGED <<login, pending_rename_path, selector>>
    BY DEF Cdup, Query, BeginUpload, BeginUnique, Worker, UploadFails, OpenUpload, WriteUpload,
           EndUpload, WorkerOnly, Cwd, Mkd, Rmd, Dele, LoginKept, RenameKept
  <1> QED
    BY <1>1 DEF login

(* The login of every session, with the types it relies on.                  *)
LEMMA LoginAlways == Spec => []LoginInv
  <1>1. Init => LoginInv
    BY DEF Init, LoginInv, LoginTypes, LoginState
  <1>2. LoginInv /\ [Next]_vars => LoginInv'
    <2> SUFFICES ASSUME LoginInv, [Next]_vars PROVE LoginInv'
      OBVIOUS
    <2>1. CASE UNCHANGED vars
      BY <2>1 DEF vars, login, LoginInv, LoginTypes, LoginState
    <2>2. ASSUME NEW s \in Sessions, Command(s) \/ Worker(s) PROVE LoginInv'
      <3>1. CASE User(s) \/ Pass(s) \/ Quit(s)
        BY <3>1, LoginCommands
      <3>2. CASE \E arg \in Arguments : Rnfr(s, arg) \/ Rnto(s, arg)
        BY <3>2, RenameCommands
      <3>3. CASE \/ Cdup(s) \/ Query(s) \/ BeginUpload(s) \/ BeginUnique(s) \/ Worker(s)
                 \/ \E arg \in Arguments : Cwd(s, arg) \/ Mkd(s, arg) \/ Rmd(s, arg) \/ Dele(s, arg)
        BY <3>3, LoginUntouched DEF LoginInv, LoginTypes, LoginState
      <3> QED
        BY <2>2, <3>1, <3>2, <3>3 DEF Command
    <2> QED
      BY <2>1, <2>2 DEF Next
  <1> QED
    BY <1>1, <1>2, PTL DEF Spec

(* A session acts for the user whose password it gave last, and what RNTO    *)
(* renames was selected for that user (LoginState), for every set of users.  *)
THEOREM LoginsHangTogether == Spec => []LoginState
  <1>1. LoginInv => LoginState
    BY DEF LoginInv
  <1> QED
    BY <1>1, LoginAlways, PTL

-----------------------------------------------------------------------------
(* Renames and uploads                                                       *)

Paths == Seq(STRING)

(* The beginnings of a path are ordered like its lengths.                    *)
LEMMA PrefixOrder ==
  ASSUME NEW p \in Paths, NEW q \in Paths, NEW r \in Paths
  PROVE  /\ IsPrefix(p, p)
         /\ IsPrefix(p, q) /\ IsPrefix(q, r) => IsPrefix(p, r)
         /\ IsPrefix(p, q) /\ IsPrefix(q, p) => p = q
         /\ IsPrefix(p, r) /\ IsPrefix(q, r) => IsPrefix(p, q) \/ IsPrefix(q, p)
  <1> USE DEF Paths
  <1>0. Len(p) \in Nat /\ Len(q) \in Nat /\ Len(r) \in Nat
    OBVIOUS
  <1>1. IsPrefix(p, p)
    BY PrefixByPosition, <1>0
  <1>2. IsPrefix(p, q) /\ IsPrefix(q, r) => IsPrefix(p, r)
    BY PrefixByPosition, <1>0
  <1>3. ASSUME IsPrefix(p, q), IsPrefix(q, p) PROVE p = q
    <2>1. Len(p) = Len(q) /\ \A i \in 1..Len(p) : p[i] = q[i]
      BY PrefixByPosition, <1>0, <1>3
    <2> QED
      BY <2>1, SeqEqual
  <1>4. ASSUME IsPrefix(p, r), IsPrefix(q, r) PROVE IsPrefix(p, q) \/ IsPrefix(q, p)
    <2>1. /\ Len(p) <= Len(r) /\ \A i \in 1..Len(p) : p[i] = r[i]
          /\ Len(q) <= Len(r) /\ \A i \in 1..Len(q) : q[i] = r[i]
      BY PrefixByPosition, <1>4
    <2>2. CASE Len(p) <= Len(q)
      BY <1>0, <2>1, <2>2, PrefixByPosition
    <2>3. CASE Len(q) <= Len(p)
      BY <1>0, <2>1, <2>3, PrefixByPosition
    <2> QED
      BY <1>0, <2>2, <2>3
  <1> QED
    BY <1>1, <1>2, <1>3, <1>4

(* The directories above a path are its proper beginnings.                   *)
LEMMA AboveIsPrefix ==
  ASSUME NEW p \in Paths
  PROVE  /\ Ancestors(p) \subseteq Paths
         /\ \A q \in Paths : q \in Ancestors(p) <=> IsPrefix(q, p) /\ q # p
  <1> USE DEF Paths
  <1>0. Len(p) \in Nat
    OBVIOUS
  <1>1. ASSUME NEW n \in 0..(Len(p) - 1)
        PROVE  /\ SubSeq(p, 1, n) \in Paths /\ Len(SubSeq(p, 1, n)) = n
               /\ IsPrefix(SubSeq(p, 1, n), p)
    <2>1. \A i \in 1..n : p[i] \in STRING
      BY <1>0
    <2>2. /\ SubSeq(p, 1, n) \in Paths /\ Len(SubSeq(p, 1, n)) = n
          /\ \A i \in 1..n : SubSeq(p, 1, n)[i] = p[i]
      BY <1>0, <2>1, SubSeqProperties
    <2>3. /\ Len(SubSeq(p, 1, n)) <= Len(p)
          /\ \A i \in 1..Len(SubSeq(p, 1, n)) : SubSeq(p, 1, n)[i] = p[i]
      BY <1>0, <2>2
    <2> QED
      BY <2>2, <2>3, PrefixByPosition
  <1>2. ASSUME NEW q \in Paths, IsPrefix(q, p), q # p PROVE q \in Ancestors(p)
    <2>1. Len(q) \in Nat /\ Len(q) <= Len(p) /\ \A i \in 1..Len(q) : q[i] = p[i]
      BY <1>2, PrefixByPosition
    <2>2. Len(q) # Len(p)
      BY <1>2, <2>1, SeqEqual
    <2>3. Len(q) \in 0..(Len(p) - 1)
      BY <1>0, <2>1, <2>2
    <2>4. q = SubSeq(p, 1, Len(q))
      BY <1>2, SubSeqFull DEF IsPrefix
    <2> QED
      BY <2>3, <2>4 DEF Ancestors
  <1>3. ASSUME NEW q \in Ancestors(p) PROVE q \in Paths /\ IsPrefix(q, p) /\ q # p
    <2>1. PICK n \in 0..(Len(p) - 1) : q = SubSeq(p, 1, n)
      BY DEF Ancestors
    <2>2. q \in Paths /\ Len(q) = n /\ IsPrefix(q, p)
      BY <1>1, <2>1
    <2>3. q # p
      BY <1>0, <2>1, <2>2
    <2> QED
      BY <2>2, <2>3
  <1> QED
    BY <1>2, <1>3

(* Parent is the last of them.                                               *)
LEMMA ParentIsLast ==
  ASSUME NEW p \in Paths, p # <<>>
  PROVE  /\ Parent(p) \in Ancestors(p) /\ Parent(p) \in Paths
         /\ \A a \in Ancestors(p) : a = Parent(p) \/ a \in Ancestors(Parent(p))
  <1> USE DEF Paths
  <1>1. Len(p) \in Nat \ {0}
    BY EmptySeq
  <1>2. Parent(p) = SubSeq(p, 1, Len(p) - 1) /\ Len(p) - 1 \in 0..(Len(p) - 1)
    BY <1>1 DEF Parent, Front
  <1>3. Parent(p) \in Ancestors(p)
    BY <1>2 DEF Ancestors
  <1>4. Parent(p) \in Paths
    BY <1>3, AboveIsPrefix
  <1>5. \A i \in 1..(Len(p) - 1) : p[i] \in STRING
    BY <1>1
  <1>6. Len(Parent(p)) = Len(p) - 1
    <2> DEFINE k == Len(p) - 1
    <2>1. k \in Nat /\ Parent(p) = SubSeq(p, 1, k) /\ \A i \in 1..k : p[i] \in STRING
      BY <1>1, <1>2, <1>5
    <2> SUFFICES Len(Parent(p)) = k
      OBVIOUS
    <2> HIDE DEF k
    <2>2. Len(SubSeq(p, 1, k)) = IF 1 <= k THEN k - 1 + 1 ELSE 0
      BY <2>1, SubSeqProperties
    <2> QED
      BY <2>1, <2>2
  <1>7. ASSUME NEW a \in Ancestors(p), a # Parent(p) PROVE a \in Ancestors(Parent(p))
    <2>1. a \in Paths /\ IsPrefix(a, p) /\ a # p /\ IsPrefix(Parent(p), p)
      BY <1>3, <1>4, AboveIsPrefix
    <2>2. Len(a) \in Nat /\ Len(a) <= Len(p) /\ \A i \in 1..Len(a) : a[i] = p[i]
      BY <2>1, PrefixByPosition
    <2>3. \A i \in 1..(Len(p) - 1) : Parent(p)[i] = p[i]
      BY <1>4, <1>6, <2>1, PrefixByPosition
    <2>4. Len(a) # Len(p)
      BY <2>1, <2>2, SeqEqual
    <2>5. IsPrefix(a, Parent(p))
      BY <1>1, <1>4, <1>6, <2>1, <2>2, <2>3, <2>4, PrefixByPosition
    <2> QED
      BY <1>4, <1>7, <2>1, <2>5, AboveIsPrefix
  <1> QED
    BY <1>3, <1>4, <1>7

(* What is above a directory above a path is above the path.                 *)
LEMMA AboveAbove ==
  ASSUME NEW p \in Paths, NEW q \in Ancestors(p)
  PROVE  Ancestors(q) \subseteq Ancestors(p)
  <1>1. q \in Paths /\ IsPrefix(q, p) /\ q # p
    BY AboveIsPrefix
  <1> SUFFICES ASSUME NEW a \in Ancestors(q) PROVE a \in Ancestors(p)
    OBVIOUS
  <1>2. a \in Paths /\ IsPrefix(a, q) /\ a # q
    BY <1>1, AboveIsPrefix
  <1>3. IsPrefix(a, p) /\ a # p
    BY <1>1, <1>2, PrefixOrder
  <1> QED
    BY <1>2, <1>3, AboveIsPrefix
-----------------------------------------------------------------------------
(* Where a rename of a directory puts what lies in it *)

(* m is the path q with "to" in place of its beginning "from".               *)
IsMoved(from, to, q, m) ==
  /\ m \in Paths /\ Len(m) = Len(to) + Len(q) - Len(from)
  /\ \A i \in 1..Len(to) : m[i] = to[i]
  /\ \A i \in (Len(to) + 1)..(Len(to) + Len(q) - Len(from)) :
       m[i] = q[Len(from) + i - Len(to)]
  /\ IsPrefix(to, m)

(* Below the new name, each path at the same place as before.                *)
LEMMA MovedBelow ==
  ASSUME NEW from \in Paths, NEW to \in Paths, NEW q \in Paths, IsPrefix(from, q)
  PROVE  IsMoved(from, to, q, Moved(from, to, q))
  <1> USE DEF Paths
  <1> DEFINE rest == SubSeq(q, Len(from) + 1, Len(q))
  <1>0. Len(from) \in Nat /\ Len(to) \in Nat /\ Len(q) \in Nat /\ Len(from) <= Len(q)
    BY PrefixByPosition
  <1>1. \A i \in (Len(from) + 1)..Len(q) : q[i] \in STRING
    BY <1>0
  <1>2. /\ rest \in Paths
        /\ Len(rest) = IF Len(from) + 1 <= Len(q) THEN Len(q) - (Len(from) + 1) + 1 ELSE 0
        /\ \A i \in 1..(Len(q) - (Len(from) + 1) + 1) : rest[i] = q[Len(from) + 1 + i - 1]
    BY <1>0, <1>1, SubSeqProperties
  <1>3. Len(rest) = Len(q) - Len(from) /\ \A i \in 1..Len(rest) : rest[i] = q[Len(from) + i]
    BY <1>0, <1>2
  <1>4. Moved(from, to, q) = to \o rest
    BY DEF Moved
  <1> HIDE DEF rest
  <1>5. /\ to \o rest \in Paths /\ Len(to \o rest) = Len(to) + Len(rest)
        /\ \A i \in 1..(Len(to) + Len(rest)) :
             (to \o rest)[i] = IF i <= Len(to) THEN to[i] ELSE rest[i - Len(to)]
    BY <1>2, ConcatProperties
  <1>6. \A i \in 1..Len(to) : (to \o rest)[i] = to[i]
    BY <1>0, <1>3, <1>5
  <1>7. ASSUME NEW i \in (Len(to) + 1)..(Len(to) + Len(q) - Len(from))
        PROVE  (to \o rest)[i] = q[Len(from) + i - Len(to)]
    <2>1. i \in 1..(Len(to) + Len(rest)) /\ ~(i <= Len(to)) /\ i - Len(to) \in 1..Len(rest)
      BY <1>0, <1>3
    <2>2. (to \o rest)[i] = rest[i - Len(to)]
      BY <1>5, <2>1
    <2>3. rest[i - Len(to)] = q[Len(from) + (i - Len(to))]
      BY <1>3, <2>1
    <2>4. Len(from) + (i - Len(to)) = Len(from) + i - Len(to)
      BY <1>0, <2>1
    <2> QED
      BY <2>2, <2>3, <2>4
  <1>8. Len(to) <= Len(to \o rest)
    BY <1>0, <1>3, <1>5
  <1>9. IsPrefix(to, to \o rest)
    BY <1>5, <1>6, <1>8, PrefixByPosition
  <1>10. Len(to \o rest) = Len(to) + Len(q) - Len(from)
    BY <1>0, <1>3, <1>5
  <1> QED
    BY <1>4, <1>5, <1>6, <1>7, <1>9, <1>10 DEF IsMoved

(* No two of them at the same place.                                         *)
LEMMA MovedApart ==
  ASSUME NEW from \in Paths, NEW to \in Paths, NEW q \in Paths, NEW r \in Paths,
         IsPrefix(from, q), IsPrefix(from, r), Moved(from, to, q) = Moved(from, to, r)
  PROVE  q = r
  <1>m. IsMoved(from, to, q, Moved(from, to, q)) /\ IsMoved(from, to, r, Moved(from, to, r))
    BY MovedBelow
  <1>a. /\ Len(Moved(from, to, q)) = Len(to) + Len(q) - Len(from)
        /\ \A i \in (Len(to) + 1)..(Len(to) + Len(q) - Len(from)) :
             Moved(from, to, q)[i] = q[Len(from) + i - Len(to)]
    BY <1>m DEF IsMoved
  <1>b. /\ Len(Moved(from, to, r)) = Len(to) + Len(r) - Len(from)
        /\ \A i \in (Len(to) + 1)..(Len(to) + Len(r) - Len(from)) :
             Moved(from, to, r)[i] = r[Len(from) + i - Len(to)]
    BY <1>m DEF IsMoved
  <1> USE DEF Paths
  <1>1. /\ Len(from) \in Nat /\ Len(to) \in Nat /\ Len(q) \in Nat /\ Len(r) \in Nat
        /\ Len(from) <= Len(q) /\ Len(from) <= Len(r)
        /\ \A i \in 1..Len(from) : q[i] = from[i] /\ r[i] = from[i]
    BY PrefixByPosition
  <1>2. Len(q) = Len(r)
    BY <1>1, <1>a, <1>b
  <1>3. ASSUME NEW i \in 1..Len(q) PROVE q[i] = r[i]
    <2>1. CASE i <= Len(from)
      BY <1>1, <2>1
    <2>2. CASE i > Len(from)
      <3> DEFINE k == Len(to) + i - Len(from)
      <3>1. /\ k \in (Len(to) + 1)..(Len(to) + Len(q) - Len(from))
            /\ Len(from) + k - Len(to) = i
        BY <1>1, <2>2
      <3>2. Moved(from, to, q)[k] = q[Len(from) + k - Len(to)]
        BY <3>1, <1>a
      <3>3. Moved(from, to, r)[k] = r[Len(from) + k - Len(to)]
        BY <1>2, <3>1, <1>b
      <3> QED
        BY <3>1, <3>2, <3>3
    <2> QED
      BY <1>1, <2>1, <2>2
  <1> QED
    BY <1>2, <1>3, SeqEqual

(* The directory itself takes the new name, and only it.                     *)
LEMMA MovedItself ==
  ASSUME NEW from \in Paths, NEW to \in Paths
  PROVE  Moved(from, to, from) = to
  <1> USE DEF Paths
  <1>1. Len(from) \in Nat
    OBVIOUS
  <1>2. SubSeq(from, Len(from) + 1, Len(from)) = <<>>
    BY <1>1, SubSeqEmpty
  <1> QED
    BY <1>2, ConcatEmptySeq DEF Moved

(* What is above a moved path is above the new name or has moved along.      *)
LEMMA AboveMoved ==
  ASSUME NEW from \in Paths, NEW to \in Paths, NEW q \in Paths, IsPrefix(from, q),
         NEW a \in Ancestors(Moved(from, to, q)), a \notin Ancestors(to)
  PROVE  \E b \in Ancestors(q) : IsPrefix(from, b) /\ a = Moved(from, to, b)
  <1> USE DEF Paths
  <1> DEFINE m == Moved(from, to, q)
             n == Len(from) + Len(a) - Len(to)
             b == SubSeq(q, 1, n)
  <1> HIDE DEF m
  <1>0. IsMoved(from, to, q, m)
    BY MovedBelow DEF m
  <1>1. /\ m \in Paths /\ Len(m) = Len(to) + Len(q) - Len(from) /\ IsPrefix(to, m)
        /\ \A i \in 1..Len(to) : m[i] = to[i]
        /\ \A i \in (Len(to) + 1)..(Len(to) + Len(q) - Len(from)) :
             m[i] = q[Len(from) + i - Len(to)]
    BY <1>0 DEF IsMoved
  <1>2. a \in Paths /\ IsPrefix(a, m) /\ a # m
    BY <1>1, AboveIsPrefix DEF m
  <1>3. IsPrefix(to, a)
    <2>1. IsPrefix(a, to) \/ IsPrefix(to, a)
      BY <1>1, <1>2, PrefixOrder
    <2>2. IsPrefix(a, to) => a = to
      BY <1>2, AboveIsPrefix
    <2> QED
      BY <2>1, <2>2, PrefixOrder
  <1>4. /\ Len(a) \in Nat /\ Len(to) \in Nat /\ Len(from) \in Nat /\ Len(q) \in Nat
        /\ Len(to) <= Len(a) /\ Len(a) <= Len(m) /\ Len(from) <= Len(q)
        /\ \A i \in 1..Len(a) : a[i] = m[i]
        /\ \A i \in 1..Len(from) : from[i] = q[i]
    BY <1>1, <1>2, <1>3, PrefixByPosition
  <1>5. Len(a) # Len(m)
    BY <1>1, <1>2, <1>4, SeqEqual
  <1>6. n \in 0..(Len(q) - 1) /\ Len(from) <= n
    <2>1. Len(m) \in Nat
      BY <1>1
    <2>2. Len(a) < Len(m)
      BY <1>4, <1>5, <2>1
    <2>3. Len(m) = Len(to) + Len(q) - Len(from)
      BY <1>1
    <2> QED
      BY <1>4, <2>1, <2>2, <2>3
  <1>7. b \in Ancestors(q)
    BY <1>6 DEF Ancestors
  <1>8. b \in Paths /\ Len(b) = n /\ \A i \in 1..n : b[i] = q[i]
    <2>1. \A i \in 1..n : q[i] \in STRING
      BY <1>4, <1>6
    <2> HIDE DEF n
    <2>2. n \in Nat /\ n \in Int /\ 1 \in Int
      BY <1>4, <1>6
    <2>3. /\ b \in Paths /\ Len(b) = (IF 1 <= n THEN n - 1 + 1 ELSE 0)
          /\ \A i \in 1..(n - 1 + 1) : b[i] = q[1 + i - 1]
      BY <2>1, <2>2, SubSeqProperties
    <2> QED
      BY <2>2, <2>3
  <1> HIDE DEF b
  <1>9. IsPrefix(from, b)
    <2>1. Len(from) <= Len(b) /\ Len(from) \in Nat /\ Len(b) \in Nat /\ Len(b) = n
      BY <1>4, <1>6, <1>8
    <2> HIDE DEF n
    <2>2. \A i \in 1..Len(from) : from[i] = b[i]
      BY <1>4, <1>8, <2>1
    <2> QED
      BY <1>8, <2>1, <2>2, PrefixByPosition
  <1>10. /\ Moved(from, to, b) \in Paths /\ Len(Moved(from, to, b)) = Len(to) + Len(b) - Len(from)
         /\ \A i \in 1..Len(to) : Moved(from, to, b)[i] = to[i]
         /\ \A i \in (Len(to) + 1)..(Len(to) + Len(b) - Len(from)) :
              Moved(from, to, b)[i] = b[Len(from) + i - Len(to)]
    <2>1. b \in Paths
      BY <1>8
    <2> HIDE DEF Paths
    <2>2. IsMoved(from, to, b, Moved(from, to, b))
      BY <2>1, <1>9, MovedBelow
    <2> QED
      BY <2>2 DEF IsMoved
  <1>11. Len(Moved(from, to, b)) = Len(a)
    BY <1>4, <1>8, <1>10
  <1>12. ASSUME NEW i \in 1..Len(a) PROVE Moved(from, to, b)[i] = a[i]
    <2>1. CASE i <= Len(to)
      BY <1>1, <1>4, <1>10, <2>1
    <2>2. CASE i > Len(to)
      <3>1. /\ i \in (Len(to) + 1)..(Len(to) + Len(b) - Len(from))
            /\ i \in (Len(to) + 1)..(Len(to) + Len(q) - Len(from))
            /\ Len(from) + i - Len(to) \in 1..n
        BY <1>1, <1>4, <1>6, <1>8, <2>2
      <3> HIDE DEF n
      <3>2. Moved(from, to, b)[i] = b[Len(from) + i - Len(to)]
        BY <1>10, <3>1
      <3>3. b[Len(from) + i - Len(to)] = q[Len(from) + i - Len(to)]
        BY <1>8, <3>1
      <3>4. m[i] = q[Len(from) + i - Len(to)]
        BY <1>1, <3>1
      <3> QED
        BY <1>4, <3>2, <3>3, <3>4
    <2> QED
      BY <1>4, <2>1, <2>2
  <1>13. Moved(from, to, b) = a
    BY <1>2, <1>10, <1>11, <1>12, SeqEqual
  <1> QED
    BY <1>7, <1>9, <1>13
-----------------------------------------------------------------------------
(* The tree stays a tree *)

(* What exists lies in directories, up to the root of the machine.           *)
TreeHolds ==
  /\ dirs \cap DOMAIN files = {}
  /\ \A q \in dirs \cup DOMAIN files : Ancestors(q) \subseteq dirs

(* The files that workers have open exist.                                   *)
HandlesHold == \A t \in Sessions : job[t].handle # NoPath => IsFile(job[t].handle)

TreeInv == TreeHolds /\ HandlesHold

(* All that exists has a path; "no path" is none of the server's.            *)
LEMMA Known ==
  /\ AllInside => dirs \cup DOMAIN files \subseteq Paths
  /\ InRoot \subseteq Paths /\ NoPath \notin InRoot /\ <<>> \notin InRoot
  <1>1. AllInside => dirs \cup DOMAIN files \subseteq Paths
    BY RootAssumption DEF AllInside, TreeInside, InRoot, Paths
  <1>2. ServerRoot \in Seq(STRING) /\ ServerRoot # <<>> /\ ServerRoot # NoPath
    BY RootAssumption
  <1>3. Len(ServerRoot) \in Nat \ {0}
    BY <1>2, EmptySeq
  <1>a. <<>> \in Seq(STRING) /\ Len(<<>>) = 0
    BY EmptySeq
  <1> DEFINE none == ""
  <1>b. NoPath = <<none>>
    BY DEF NoPath
  <1> HIDE DEF none
  <1>c. NoPath \in Seq({none}) /\ Len(NoPath) = 1
    BY <1>b
  <1>5. ~IsPrefix(ServerRoot, <<>>)
    BY <1>3, <1>a DEF IsPrefix
  <1>6. ASSUME IsPrefix(ServerRoot, NoPath) PROVE FALSE
    <2>0. Len(ServerRoot) <= Len(NoPath)
      BY <1>6 DEF IsPrefix
    <2>a. Len(ServerRoot) = 1
      <3>1. Len(NoPath) = 1
        BY <1>c
      <3> QED
        BY <1>3, <2>0, <3>1
    <2>1. SubSeq(ServerRoot, 1, Len(ServerRoot)) = SubSeq(NoPath, 1, Len(ServerRoot))
      BY <1>6 DEF IsPrefix
    <2>2. SubSeq(ServerRoot, 1, Len(ServerRoot)) = ServerRoot /\ SubSeq(NoPath, 1, Len(NoPath)) = NoPath
      BY <1>2, <1>c, SubSeqFull
    <2> QED
      BY <1>2, <1>c, <2>a, <2>1, <2>2
  <1> QED
    BY <1>1, <1>5, <1>6 DEF InRoot, Paths

(* Below an existing path is nothing but what a directory contains.          *)
LEMMA AboveExisting ==
  ASSUME AllInside, TreeHolds, NEW q \in dirs \cup DOMAIN files, NEW p \in Paths,
         IsPrefix(p, q), p # q
  PROVE  p \in dirs
  <1>1. q \in Paths
    BY Known
  <1>2. p \in Ancestors(q)
    BY <1>1, AboveIsPrefix
  <1> QED
    BY <1>2 DEF TreeHolds

(* MKD, RMD and DELE.                                                        *)
LEMMA TreeCommandTree ==
  ASSUME AllInside, TreeInv, NEW s \in Sessions, NEW arg \in Arguments,
         Mkd(s, arg) \/ Rmd(s, arg) \/ Dele(s, arg)
  PROVE  TreeInv'
  <1> DEFINE p == Candidate(s, arg)
  <1>1. p \in InRoot /\ p \in Paths
    BY Accepted, Known DEF AllInside, Mkd, Rmd, Dele
  <1>2. CASE Mkd(s, arg)
    <2>1. /\ dirs' = dirs \cup Ancestors(p) \cup {p} /\ UNCHANGED <<files, job>>
          /\ p \notin DOMAIN files /\ \A q \in Ancestors(p) : q \notin DOMAIN files
      BY <1>2 DEF Mkd, Exists, CanHaveParents, IsFile
    <2>2. \A q \in Ancestors(p) : Ancestors(q) \subseteq Ancestors(p)
      BY <1>1, AboveAbove
    <2> HIDE DEF p
    <2> QED
      BY <2>1, <2>2 DEF TreeInv, TreeHolds, HandlesHold, IsFile
  <1>3. CASE Rmd(s, arg)
    <2>1. /\ dirs' = dirs \ {p} /\ UNCHANGED <<files, job>> /\ p \in dirs
          /\ \A q \in dirs \cup DOMAIN files : q # p => ~IsPrefix(p, q)
      BY <1>3 DEF Rmd, IsEmpty
    <2>2. ASSUME NEW q \in dirs \cup DOMAIN files, q # p PROVE p \notin Ancestors(q)
      BY <1>1, <2>1, <2>2, Known, AboveIsPrefix
    <2> HIDE DEF p
    <2>3. TreeHolds'
      BY <2>1, <2>2 DEF TreeInv, TreeHolds
    <2> QED
      BY <2>1, <2>3 DEF TreeInv, HandlesHold, IsFile
  <1>4. CASE Dele(s, arg)
    <2>1. /\ dirs' = dirs /\ DOMAIN files' = DOMAIN files \ {p}
          /\ job' = HandlesAfterUnlink(p)
      BY <1>4 DEF Dele, Without
    <2>2. TreeHolds'
      BY <2>1 DEF TreeInv, TreeHolds
    <2>3. ASSUME NEW t \in Sessions
          PROVE  job'[t].handle = IF job[t].handle = p THEN NoPath ELSE job[t].handle
      <3>1. job[t] \in Jobs
        BY DEF AllInside, JobsInside
      <3> HIDE DEF p
      <3> QED
        BY <2>1, <3>1 DEF HandlesAfterUnlink, Disturb, Jobs
    <2> HIDE DEF p
    <2> QED
      BY <2>1, <2>2, <2>3 DEF TreeInv, HandlesHold, IsFile
  <1> QED
    BY <1>2, <1>3, <1>4

(* The handles after a rename.                                               *)
LEMMA HandleMoves ==
  ASSUME JobsInside, NEW from, NEW to, NEW t \in Sessions
  PROVE  LET h == job[t].handle
             j == HandlesAfterRename(from, to)[t]
         IN \/ /\ h # NoPath /\ IsPrefix(from, h)
               /\ j.handle = Moved(from, to, h) /\ ~j.alone
            \/ (h = NoPath \/ ~IsPrefix(from, h)) /\ h = to /\ j.handle = NoPath /\ ~j.alone
            \/ (h = NoPath \/ ~IsPrefix(from, h)) /\ h # to /\ j = job[t]
  <1>1. job[t] \in Jobs
    BY DEF JobsInside
  <1> QED
    BY <1>1 DEF HandlesAfterRename, Disturb, Jobs

(* RNTO onto a path below an existing directory, as rename(2) requires.      *)
LEMMA TargetAbove ==
  ASSUME AllInside, TreeHolds, NEW to \in InRoot, Parent(to) \in dirs
  PROVE  Ancestors(to) \subseteq dirs
  <1>1. to \in Paths /\ to # <<>>
    BY Known
  <1>2. Ancestors(Parent(to)) \subseteq dirs
    BY DEF TreeHolds
  <1> QED
    BY <1>1, <1>2, ParentIsLast

(* A renamed file.                                                           *)
LEMMA RenamedFileTree ==
  ASSUME AllInside, TreeInv, NEW from \in InRoot, NEW to \in InRoot, RenamesFile(from, to),
         DOMAIN files' = (DOMAIN files \ {from}) \cup {to}, UNCHANGED dirs,
         job' = IF from = to THEN job ELSE HandlesAfterRename(from, to)
  PROVE  TreeInv'
  <1>1. from \in Paths /\ to \in Paths /\ NoPath # from /\ NoPath # to
    BY Known
  <1>2. from \in DOMAIN files /\ to \notin dirs /\ Parent(to) \in dirs
    BY DEF RenamesFile, IsFile
  <1>3. Ancestors(to) \subseteq dirs
    BY <1>2, TargetAbove DEF TreeInv
  <1>4. TreeHolds'
    BY <1>2, <1>3 DEF TreeInv, TreeHolds
  <1>5. ASSUME NEW t \in Sessions, job'[t].handle # NoPath PROVE job'[t].handle \in DOMAIN files'
    <2>1. CASE from = to
      BY <1>2, <1>5, <2>1 DEF TreeInv, HandlesHold, IsFile
    <2>2. CASE from # to
      <3> DEFINE h == job[t].handle
      <3>1. h # NoPath => h \in DOMAIN files
        BY DEF TreeInv, HandlesHold, IsFile
      <3>2. ASSUME h # NoPath, IsPrefix(from, h) PROVE h = from
        <4>1. h # from => from \in dirs
          BY <1>1, <3>1, <3>2, AboveExisting DEF TreeInv
        <4> QED
          BY <1>2, <4>1 DEF TreeInv, TreeHolds
      <3>3. JobsInside /\ job'[t] = HandlesAfterRename(from, to)[t]
        BY <2>2 DEF AllInside
      <3>4. CASE h # NoPath /\ IsPrefix(from, h) /\ job'[t].handle = Moved(from, to, h)
        BY <1>1, <3>2, <3>4, MovedItself
      <3>5. CASE job'[t].handle = NoPath
        BY <1>5, <3>5
      <3>6. CASE (h = NoPath \/ ~IsPrefix(from, h)) /\ job'[t] = job[t]
        <4>1. IsPrefix(from, from)
          BY <1>1, PrefixOrder
        <4> QED
          BY <1>5, <3>1, <3>6, <4>1
      <3> QED
        BY <3>3, <3>4, <3>5, <3>6, HandleMoves
    <2> QED
      BY <2>1, <2>2
  <1> QED
    BY <1>4, <1>5 DEF TreeInv, HandlesHold, IsFile

(* What lies at the new name of a renamed directory, and what lay there      *)
(* before.                                                                   *)
Place(from, to, q) == IF IsPrefix(from, q) THEN Moved(from, to, q) ELSE q

(* Nothing that exists lies strictly below the new name.                     *)
LEMMA NothingThere ==
  ASSUME AllInside, TreeHolds, NEW from, NEW to \in InRoot, RenamesDirectory(from, to),
         NEW q \in dirs \cup DOMAIN files, IsPrefix(to, q)
  PROVE  q = to /\ q \in dirs
  <1>1. to \in Paths
    BY Known
  <1>2. ~IsFile(to) /\ (to \in dirs => IsEmpty(to))
    BY DEF RenamesDirectory
  <1>3. q # to => to \in dirs
    BY <1>1, AboveExisting
  <1> QED
    BY <1>2, <1>3 DEF IsEmpty, IsFile

(* A renamed directory takes with it what it contains.                       *)
LEMMA RenamedDirectoryTree ==
  ASSUME AllInside, TreeInv, NEW from \in InRoot, NEW to \in InRoot, RenamesDirectory(from, to),
         dirs' = {Place(from, to, q) : q \in dirs},
         DOMAIN files' = {Place(from, to, q) : q \in DOMAIN files},
         job' = HandlesAfterRename(from, to)
  PROVE  TreeInv'
  <1>1. from \in Paths /\ to \in Paths /\ dirs \cup DOMAIN files \subseteq Paths
    BY Known
  <1>2. from \in dirs /\ ~IsFile(to) /\ Parent(to) \in dirs /\ ~IsPrefix(from, to)
    BY DEF RenamesDirectory
  <1>3. Ancestors(to) \subseteq dirs
    BY <1>2, TargetAbove DEF TreeInv
  <1>4. \A q \in Paths : IsPrefix(from, q) =>
          Moved(from, to, q) \in Paths /\ IsPrefix(to, Moved(from, to, q))
    BY <1>1, MovedBelow DEF IsMoved
  <1>5. \A q \in Paths : Place(from, to, q) \in Paths
    BY <1>4 DEF Place
  <1>6. ASSUME NEW d \in dirs, NEW f \in DOMAIN files, Place(from, to, d) = Place(from, to, f)
        PROVE  FALSE
    <2>0. d # f
      BY DEF TreeInv, TreeHolds
    <2>1. CASE IsPrefix(from, d) /\ IsPrefix(from, f)
      BY <1>1, <1>6, <2>0, <2>1, MovedApart DEF Place
    <2>2. CASE ~IsPrefix(from, d) /\ ~IsPrefix(from, f)
      BY <1>6, <2>0, <2>2 DEF Place
    <2>3. CASE IsPrefix(from, d) /\ ~IsPrefix(from, f)
      <3>1. IsPrefix(to, f)
        BY <1>1, <1>4, <1>6, <2>3 DEF Place
      <3> QED
        BY <1>2, <3>1, NothingThere DEF TreeInv, IsFile
    <2>4. CASE ~IsPrefix(from, d) /\ IsPrefix(from, f)
      <3>1. d = Moved(from, to, f) /\ IsPrefix(to, d)
        BY <1>1, <1>4, <1>6, <2>4 DEF Place
      <3>2. d = to
        BY <3>1, NothingThere DEF TreeInv
      <3>3. IsPrefix(from, from) /\ Moved(from, to, from) = to
        BY <1>1, MovedItself, PrefixOrder
      <3>4. f = from
        BY <1>1, <2>4, <3>1, <3>2, <3>3, MovedApart
      <3> QED
        BY <1>2, <3>4 DEF TreeInv, TreeHolds
    <2> QED
      BY <2>1, <2>2, <2>3, <2>4
  <1>7. ASSUME NEW a \in Paths, a \in dirs PROVE Place(from, to, a) \in dirs'
    BY <1>7
  <1>8. ASSUME NEW q \in dirs \cup DOMAIN files, NEW a \in Ancestors(Place(from, to, q))
        PROVE  a \in dirs'
    <2>1. Ancestors(q) \subseteq dirs
      BY DEF TreeInv, TreeHolds
    <2>2. CASE ~IsPrefix(from, q)
      <3>1. a \in Paths /\ IsPrefix(a, q) /\ a \in dirs
        BY <1>1, <2>1, <2>2, AboveIsPrefix DEF Place
      <3>2. ~IsPrefix(from, a)
        BY <1>1, <2>2, <3>1, PrefixOrder
      <3>3. Place(from, to, a) = a
        BY <3>2 DEF Place
      <3> QED
        BY <1>7, <3>1, <3>3
    <2>3. CASE IsPrefix(from, q) /\ a \in Ancestors(to)
      <3>1. a \in Paths /\ IsPrefix(a, to) /\ a \in dirs
        BY <1>1, <1>3, <2>3, AboveIsPrefix
      <3>2. ~IsPrefix(from, a)
        BY <1>1, <1>2, <3>1, PrefixOrder
      <3>3. Place(from, to, a) = a
        BY <3>2 DEF Place
      <3> QED
        BY <1>7, <3>1, <3>3
    <2>4. CASE IsPrefix(from, q) /\ a \notin Ancestors(to)
      <3>1. PICK b \in Ancestors(q) : IsPrefix(from, b) /\ a = Moved(from, to, b)
        BY <1>1, <1>8, <2>4, AboveMoved DEF Place
      <3>2. b \in dirs /\ b \in Paths /\ Place(from, to, b) = a
        BY <1>1, <2>1, <3>1 DEF Place
      <3> QED
        BY <1>7, <3>2
    <2> QED
      BY <2>2, <2>3, <2>4
  <1>9. TreeHolds'
    BY <1>6, <1>8 DEF TreeHolds
  <1>10. ASSUME NEW t \in Sessions, job'[t].handle # NoPath PROVE job'[t].handle \in DOMAIN files'
    <2> DEFINE h == job[t].handle
    <2>1. h # NoPath => h \in DOMAIN files
      BY DEF TreeInv, HandlesHold, IsFile
    <2>2. JobsInside /\ job'[t] = HandlesAfterRename(from, to)[t]
      BY DEF AllInside
    <2>3. CASE h # NoPath /\ IsPrefix(from, h) /\ job'[t].handle = Moved(from, to, h)
      <3>1. job'[t].handle = Place(from, to, h) /\ h \in DOMAIN files
        BY <2>1, <2>3 DEF Place
      <3> QED
        BY <3>1
    <2>4. CASE job'[t].handle = NoPath
      BY <1>10, <2>4
    <2>5. CASE (h = NoPath \/ ~IsPrefix(from, h)) /\ job'[t] = job[t]
      <3>1. h # NoPath /\ h \in DOMAIN files /\ Place(from, to, h) = h /\ job'[t].handle = h
        BY <1>10, <2>1, <2>5 DEF Place
      <3> QED
        BY <3>1
    <2> QED
      BY <2>2, <2>3, <2>4, <2>5, HandleMoves
  <1> QED
    BY <1>9, <1>10 DEF TreeInv, HandlesHold, IsFile

(* RNTO of whatever is at the selected path by now.                          *)
LEMMA RntoTree ==
  ASSUME AllInside, TreeInv, NEW s \in Sessions, NEW arg \in Arguments, Rnto(s, arg)
  PROVE  TreeInv'
  <1> DEFINE from == pending_rename_path[s]
             to == Candidate(s, arg)
  <1>1. Inside(s, arg) /\ from # NoPath
    BY DEF Rnto, RntoRenames, RntoFails
  <1>2. from \in InRoot /\ to \in InRoot
    BY <1>1, Accepted DEF AllInside, PathsInside
  <1>3. CASE RntoFails(s, arg)
    <2>1. UNCHANGED <<dirs, files, job>>
      BY <1>3 DEF RntoFails, tree
    <2> QED
      BY <2>1 DEF TreeInv, TreeHolds, HandlesHold, IsFile
  <1>4. CASE RntoRenames(s, arg)
    <2> HIDE DEF from, to
    <2>1. \/ /\ RenamesFile(from, to) /\ UNCHANGED dirs
             /\ DOMAIN files' = (DOMAIN files \ {from}) \cup {to}
             /\ job' = IF from = to THEN job ELSE HandlesAfterRename(from, to)
          \/ /\ RenamesDirectory(from, to)
             /\ dirs' = {Place(from, to, q) : q \in dirs}
             /\ DOMAIN files' = {Place(from, to, q) : q \in DOMAIN files}
             /\ job' = HandlesAfterRename(from, to)
      BY <1>4 DEF RntoRenames, Place, from, to
    <2> QED
      BY <1>2, <2>1, RenamedFileTree, RenamedDirectoryTree
  <1> QED
    BY <1>3, <1>4 DEF Rnto

(* The open files after a write of s to p, whose own job is then j.          *)
LEMMA HandleStays ==
  ASSUME JobsInside, NEW s \in Sessions, NEW p, NEW j, NEW t \in Sessions
  PROVE  HandlesAfterWrite(s, p, j)[t].handle = IF t = s THEN j.handle ELSE job[t].handle
  <1>1. job[t] \in Jobs
    BY DEF JobsInside
  <1> QED
    BY <1>1 DEF HandlesAfterWrite, Disturb, Jobs

(* The job of another session, disturbed if it has the file open.            *)
LEMMA JobDisturbed ==
  ASSUME JobsInside, NEW s \in Sessions, NEW p, NEW j, NEW t \in Sessions, t # s
  PROVE  /\ job[t].handle = p => ~HandlesAfterWrite(s, p, j)[t].alone
         /\ job[t].handle # p => HandlesAfterWrite(s, p, j)[t] = job[t]
  <1>1. job[t] \in Jobs
    BY DEF JobsInside
  <1> QED
    BY <1>1 DEF HandlesAfterWrite, Disturb, Jobs

(* The worker of an upload makes the directories that its file needs.        *)
LEMMA WorkerTree ==
  ASSUME AllInside, TreeInv, NEW s \in Sessions, Worker(s)
  PROVE  TreeInv'
  <1>1. JobsInside /\ job \in [Sessions -> Jobs] /\ job[s] \in Jobs
    BY DEF AllInside, JobsInside
  <1>2. CASE UploadFails(s) \/ EndUpload(s)
    <2>1. UNCHANGED <<dirs, files>> /\ job' = [job EXCEPT ![s] = NoJob]
      BY <1>2 DEF UploadFails, EndUpload, tree
    <2>2. ASSUME NEW t \in Sessions PROVE job'[t].handle = NoPath \/ job'[t] = job[t]
      BY <1>1, <2>1 DEF NoJob
    <2> QED
      BY <2>1, <2>2 DEF TreeInv, TreeHolds, HandlesHold, IsFile
  <1>3. CASE OpenUpload(s)
    <2> DEFINE p == job[s].path
               j == [job[s] EXCEPT !.stage = "open", !.handle = p, !.alone = TRUE]
    <2>1. /\ p \notin dirs /\ \A q \in Ancestors(p) : q \notin DOMAIN files
          /\ dirs' = dirs \cup Ancestors(p) /\ DOMAIN files' = DOMAIN files \cup {p}
          /\ job' = HandlesAfterWrite(s, p, j)
      BY <1>3 DEF OpenUpload, CanHaveParents, IsFile, WithFile
    <2>2. p \in Paths
      BY <1>1, <1>3, Known DEF OpenUpload, Jobs
    <2>3. p \notin Ancestors(p) /\ \A q \in Ancestors(p) : Ancestors(q) \subseteq Ancestors(p)
      BY <2>2, AboveIsPrefix, AboveAbove
    <2>4. TreeHolds'
      <3> HIDE DEF p
      <3> QED
        BY <2>1, <2>3 DEF TreeInv, TreeHolds
    <2>5. j.handle = p
      BY <1>1 DEF Jobs
    <2>6. ASSUME NEW t \in Sessions
          PROVE  job'[t].handle = IF t = s THEN p ELSE job[t].handle
      <3> HIDE DEF p, j
      <3> QED
        BY <1>1, <2>1, <2>5, HandleStays
    <2> HIDE DEF p, j
    <2> QED
      BY <2>1, <2>4, <2>6 DEF TreeInv, HandlesHold, IsFile
  <1>4. CASE WriteUpload(s)
    <2> DEFINE j == [job[s] EXCEPT !.stage = "written"]
    <2>1. dirs' = dirs /\ DOMAIN files' = DOMAIN files
      BY <1>4 DEF WriteUpload
    <2>2. job' = [job EXCEPT ![s] = j] \/ job' = HandlesAfterWrite(s, job[s].handle, j)
      BY <1>4 DEF WriteUpload
    <2>3. j.handle = job[s].handle
      BY <1>1 DEF Jobs
    <2> HIDE DEF j
    <2>4. ASSUME NEW t \in Sessions PROVE job'[t].handle = job[t].handle
      <3>1. CASE job' = [job EXCEPT ![s] = j]
        BY <1>1, <2>3, <3>1
      <3>2. CASE job' = HandlesAfterWrite(s, job[s].handle, j)
        BY <1>1, <2>3, <3>2, HandleStays
      <3> QED
        BY <2>2, <3>1, <3>2
    <2> QED
      BY <2>1, <2>4 DEF TreeInv, TreeHolds, HandlesHold, IsFile
  <1> QED
    BY <1>2, <1>3, <1>4 DEF Worker

(* The other steps leave the tree alone, and at most begin a job.            *)
LEMMA TreeUntouched ==
  ASSUME AllInside, NEW s \in Sessions,
         \/ User(s) \/ Pass(s) \/ Quit(s) \/ Cdup(s) \/ Query(s)
         \/ BeginUpload(s) \/ BeginUnique(s)
         \/ \E arg \in Arguments : Cwd(s, arg) \/ Rnfr(s, arg)
  PROVE  /\ UNCHANGED <<dirs, files>>
         /\ \A t \in Sessions : job'[t] = job[t] \/ (job'[t].handle = NoPath /\ ~job'[t].alone)
  <1>1. UNCHANGED <<dirs, files>>
    BY DEF User, Pass, Quit, Cdup, Query, BeginUpload, BeginUnique, Cwd, Rnfr, tree
  <1>2. job' = job \/ \E j : job' = [job EXCEPT ![s] = j] /\ j.handle = NoPath /\ ~j.alone
    <2>1. CASE BeginUpload(s)
      <3>1. PICK arg \in Arguments, append \in BOOLEAN, content \in Uploads :
              job' = [job EXCEPT ![s] = [NoJob EXCEPT !.stage = "receiving", !.append = append,
                                           !.path = Candidate(s, arg), !.content = content]]
        BY <2>1 DEF BeginUpload
      <3> DEFINE j == [NoJob EXCEPT !.stage = "receiving", !.append = append,
                                    !.path = Candidate(s, arg), !.content = content]
      <3>2. j.handle = NoPath /\ ~j.alone
        BY DEF NoJob
      <3> HIDE DEF j
      <3> QED
        BY <3>1, <3>2 DEF j
    <2>2. CASE BeginUnique(s)
      <3>1. PICK name \in UniqueNames, content \in Uploads :
              job' = [job EXCEPT ![s] = [NoJob EXCEPT !.stage = "receiving",
                                           !.path = Append(current_directory[s], name),
                                           !.content = content]]
        BY <2>2 DEF BeginUnique
      <3> DEFINE j == [NoJob EXCEPT !.stage = "receiving",
                                    !.path = Append(current_directory[s], name),
                                    !.content = content]
      <3>2. j.handle = NoPath /\ ~j.alone
        BY DEF NoJob
      <3> HIDE DEF j
      <3> QED
        BY <3>1, <3>2 DEF j
    <2> QED
      BY <2>1, <2>2 DEF User, Pass, Quit, Cdup, Query, Cwd, Rnfr
  <1>3. job \in [Sessions -> Jobs]
    BY DEF AllInside, JobsInside
  <1>4. \A t \in Sessions : job'[t] = job[t] \/ (job'[t].handle = NoPath /\ ~job'[t].alone)
    BY <1>2, <1>3
  <1> QED
    BY <1>1, <1>4

(* The tree of files stays a tree with the open files in it.                 *)
LEMMA TreeAlways == Spec => []TreeInv
  <1>1. Init => TreeInv
    <2> SUFFICES ASSUME Init PROVE TreeInv
      OBVIOUS
    <2>1. dirs = OutsideDirs \cup {ServerRoot} /\ DOMAIN files = OutsideFiles
      BY DEF Init
    <2>2. ServerRoot \in Seq(STRING)
      BY RootAssumption
    <2>3. ServerRoot \notin OutsideFiles
      BY <2>2, RootAssumption, PrefixOrder DEF Paths
    <2>4. TreeHolds
      BY <2>1, <2>3, RootAssumption, MachineAssumption DEF TreeHolds
    <2>5. HandlesHold
      BY DEF Init, HandlesHold, NoJob
    <2> QED
      BY <2>4, <2>5 DEF TreeInv
  <1>2. AllInside /\ TreeInv /\ [Next]_vars => TreeInv'
    <2> SUFFICES ASSUME AllInside, TreeInv, [Next]_vars PROVE TreeInv'
      OBVIOUS
    <2>1. CASE UNCHANGED vars
      BY <2>1 DEF vars, tree, TreeInv, TreeHolds, HandlesHold, IsFile
    <2>2. ASSUME NEW s \in Sessions, Command(s) \/ Worker(s) PROVE TreeInv'
      <3>1. CASE \/ User(s) \/ Pass(s) \/ Quit(s) \/ Cdup(s) \/ Query(s)
                 \/ BeginUpload(s) \/ BeginUnique(s)
                 \/ \E arg \in Arguments : Cwd(s, arg) \/ Rnfr(s, arg)
        <4>1. /\ UNCHANGED <<dirs, files>>
              /\ \A t \in Sessions : job'[t] = job[t] \/ (job'[t].handle = NoPath /\ ~job'[t].alone)
          BY <3>1, TreeUntouched
        <4> QED
          BY <4>1 DEF TreeInv, TreeHolds, HandlesHold, IsFile
      <3>2. CASE \E arg \in Arguments : Mkd(s, arg) \/ Rmd(s, arg) \/ Dele(s, arg) \/ Rnto(s, arg)
        BY <3>2, TreeCommandTree, RntoTree
      <3> QED
        BY <2>2, <3>1, <3>2, WorkerTree DEF Command
    <2> QED
      BY <2>1, <2>2 DEF Next
  <1> QED
    BY <1>1, <1>2, InsideAlways, PTL DEF Spec

-----------------------------------------------------------------------------
(* The sessions' own state                                                   *)

(* What a job is at each stage.                                              *)
JobShape(j) ==
  /\ j.stage = "none" => j = NoJob
  /\ j.stage = "receiving" => j.handle = NoPath /\ ~j.alone
  /\ j.alone => j.handle = j.path

JobsShaped == \A t \in Sessions : JobShape(job[t])

(* A closed session has no login and no selection.                           *)
ClosedIsLoggedOut ==
  /\ connected \subseteq Sessions
  /\ \A s \in Sessions : s \notin connected =>
       username[s] = NoUser /\ ~authenticated[s] /\ pending_rename_path[s] = NoPath

Counted == commands \in 0..MaxCommands

SessionsInv == JobsShaped /\ ClosedIsLoggedOut /\ Counted

(* Only a job with an open file is disturbed, so it keeps its shape.         *)
LEMMA ShapeDisturbed ==
  ASSUME NEW t \in Sessions, JobShape(job[t]), job[t].handle # NoPath,
         job'[t].stage = job[t].stage, ~job'[t].alone
  PROVE  JobShape(job'[t])
  <1>1. job[t].stage # "none"
    BY DEF JobShape, NoJob
  <1> QED
    BY <1>1 DEF JobShape

(* Jobs keep their shape when files are deleted, renamed, opened or written. *)
LEMMA TreeCommandShapes ==
  ASSUME AllInside, JobsShaped, NEW s \in Sessions, NEW arg \in Arguments,
         Mkd(s, arg) \/ Rmd(s, arg) \/ Dele(s, arg) \/ Rnto(s, arg)
  PROVE  JobsShaped'
  <1>1. Candidate(s, arg) # NoPath
    BY Accepted, Known DEF AllInside, Mkd, Rmd, Dele, Rnto, RntoRenames, RntoFails
  <1>2. \A t \in Sessions : job[t] \in Jobs /\ JobShape(job[t])
    BY DEF AllInside, JobsInside, JobsShaped
  <1>3. ASSUME NEW t \in Sessions PROVE JobShape(job'[t])
    <2>1. CASE job'[t] = job[t]
      BY <1>2, <2>1
    <2>2. CASE Dele(s, arg) /\ job'[t] # job[t]
      <3>1. job' = HandlesAfterUnlink(Candidate(s, arg))
        BY <2>2 DEF Dele
      <3>2. job[t].handle = Candidate(s, arg)
        BY <2>2, <3>1 DEF HandlesAfterUnlink
      <3>3. job'[t].stage = job[t].stage /\ ~job'[t].alone
        BY <1>2, <3>1, <3>2 DEF HandlesAfterUnlink, Disturb, Jobs
      <3> QED
        BY <1>1, <1>2, <3>2, <3>3, ShapeDisturbed
    <2>3. CASE Rnto(s, arg) /\ job'[t] # job[t]
      <3> DEFINE from == pending_rename_path[s]
                 to == Candidate(s, arg)
      <3>1. job'[t] = HandlesAfterRename(from, to)[t]
        BY <2>3 DEF Rnto, RntoRenames, RntoFails
      <3> HIDE DEF from, to
      <3>2. job[t].handle # NoPath
        BY <1>1, <2>3, <3>1 DEF HandlesAfterRename, to
      <3>3. job'[t].stage = job[t].stage /\ ~job'[t].alone
        BY <1>2, <2>3, <3>1 DEF HandlesAfterRename, Disturb, Jobs
      <3> QED
        BY <1>2, <3>2, <3>3, ShapeDisturbed
    <2> QED
      BY <2>1, <2>2, <2>3 DEF Mkd, Rmd
  <1> QED
    BY <1>3 DEF JobsShaped

(* So they do when a worker opens and writes its file, or ends.              *)
LEMMA WorkerShapes ==
  ASSUME AllInside, JobsShaped, NEW s \in Sessions, Worker(s)
  PROVE  JobsShaped'
  <1>1. job \in [Sessions -> Jobs] /\ \A t \in Sessions : job[t] \in Jobs /\ JobShape(job[t])
    BY DEF AllInside, JobsInside, JobsShaped
  <1>2. CASE UploadFails(s) \/ EndUpload(s)
    <2>1. job' = [job EXCEPT ![s] = NoJob] /\ JobShape(NoJob)
      BY <1>2 DEF UploadFails, EndUpload, JobShape, NoJob
    <2> QED
      BY <1>1, <2>1 DEF JobsShaped
  <1>3. ASSUME NEW p, NEW j, p # NoPath, JobShape(j), job' = HandlesAfterWrite(s, p, j)
        PROVE  JobsShaped'
    <2>1. ASSUME NEW t \in Sessions PROVE JobShape(job'[t])
      <3>1. CASE t = s
        BY <1>3, <3>1 DEF HandlesAfterWrite
      <3>2. CASE t # s /\ job[t].handle = p
        <4>1. job'[t] = Disturb(job[t])
          BY <1>3, <3>2 DEF HandlesAfterWrite
        <4>2. job'[t].stage = job[t].stage /\ ~job'[t].alone
          BY <1>1, <4>1 DEF Disturb, Jobs
        <4> QED
          BY <1>1, <1>3, <3>2, <4>2, ShapeDisturbed
      <3>3. CASE t # s /\ job[t].handle # p
        BY <1>1, <1>3, <3>3 DEF HandlesAfterWrite
      <3> QED
        BY <3>1, <3>2, <3>3
    <2> QED
      BY <2>1 DEF JobsShaped
  <1>4. CASE OpenUpload(s)
    <2> DEFINE j == [job[s] EXCEPT !.stage = "open", !.handle = job[s].path, !.alone = TRUE]
    <2>1. job' = HandlesAfterWrite(s, job[s].path, j)
      BY <1>4 DEF OpenUpload
    <2>2. job[s].path # NoPath
      BY <1>1, <1>4, Known DEF OpenUpload, Jobs
    <2>3. JobShape(j)
      BY <1>1 DEF JobShape, Jobs
    <2> HIDE DEF j
    <2> QED
      BY <1>3, <2>1, <2>2, <2>3
  <1>5. CASE WriteUpload(s)
    <2> DEFINE j == [job[s] EXCEPT !.stage = "written"]
    <2>1. JobShape(j)
      BY <1>1 DEF JobShape, Jobs
    <2>2. \/ job' = [job EXCEPT ![s] = j]
          \/ job[s].handle # NoPath /\ job' = HandlesAfterWrite(s, job[s].handle, j)
      BY <1>5 DEF WriteUpload
    <2> HIDE DEF j
    <2>3. CASE job' = [job EXCEPT ![s] = j]
      BY <1>1, <2>1, <2>3 DEF JobsShaped
    <2> QED
      BY <1>3, <2>1, <2>2, <2>3
  <1> QED
    BY <1>2, <1>4, <1>5 DEF Worker

(* A job that begins has no file open.                                       *)
LEMMA BeginShapes ==
  ASSUME AllInside, JobsShaped, NEW s \in Sessions, BeginUpload(s) \/ BeginUnique(s)
  PROVE  JobsShaped'
  <1>1. job \in [Sessions -> Jobs] /\ \A t \in Sessions : JobShape(job[t])
    BY DEF AllInside, JobsInside, JobsShaped
  <1>2. ASSUME NEW j, JobShape(j), job' = [job EXCEPT ![s] = j] PROVE JobsShaped'
    BY <1>1, <1>2 DEF JobsShaped
  <1>3. CASE BeginUpload(s)
    <2>1. PICK arg \in Arguments, append \in BOOLEAN, content \in Uploads :
            job' = [job EXCEPT ![s] = [NoJob EXCEPT !.stage = "receiving", !.append = append,
                                         !.path = Candidate(s, arg), !.content = content]]
      BY <1>3 DEF BeginUpload
    <2> DEFINE j == [NoJob EXCEPT !.stage = "receiving", !.append = append,
                                  !.path = Candidate(s, arg), !.content = content]
    <2>2. JobShape(j)
      BY DEF NoJob, JobShape
    <2> HIDE DEF j
    <2> QED
      BY <1>2, <2>1, <2>2 DEF j
  <1>4. CASE BeginUnique(s)
    <2>1. PICK name \in UniqueNames, content \in Uploads :
            job' = [job EXCEPT ![s] = [NoJob EXCEPT !.stage = "receiving",
                                         !.path = Append(current_directory[s], name),
                                         !.content = content]]
      BY <1>4 DEF BeginUnique
    <2> DEFINE j == [NoJob EXCEPT !.stage = "receiving",
                                  !.path = Append(current_directory[s], name),
                                  !.content = content]
    <2>2. JobShape(j)
      BY DEF NoJob, JobShape
    <2> HIDE DEF j
    <2> QED
      BY <1>2, <2>1, <2>2 DEF j
  <1> QED
    BY <1>3, <1>4

(* QUIT logs out as it closes; USER, PASS and RNFR need an open session.     *)
LEMMA ClosedStaysLoggedOut ==
  ASSUME LoginInv, ClosedIsLoggedOut, NEW s \in Sessions, Command(s) \/ Worker(s)
  PROVE  ClosedIsLoggedOut'
  <1> USE DEF LoginInv, LoginTypes, ClosedIsLoggedOut
  <1>1. CASE User(s) \/ Pass(s)
    <2>1. s \in connected /\ UNCHANGED connected
      BY <1>1 DEF User, Pass, Free
    <2>2. \A t \in Sessions : t # s =>
            UNCHANGED <<username[t], authenticated[t], pending_rename_path[t]>>
      BY <1>1 DEF User, Pass, ResetForUser
    <2> QED
      BY <2>1, <2>2
  <1>2. CASE Quit(s)
    BY <1>2 DEF Quit, ResetForUser
  <1>3. CASE \E arg \in Arguments : Rnfr(s, arg) \/ Rnto(s, arg)
    <2>1. s \in connected /\ UNCHANGED <<connected, username, authenticated>>
      BY <1>3 DEF Rnfr, Rnto, Counts, LoggedIn, Free, LoginKept, login
    <2>2. \A t \in Sessions : t # s => pending_rename_path'[t] = pending_rename_path[t]
      BY <1>3 DEF Rnfr, Rnto, ResetForUser
    <2> QED
      BY <2>1, <2>2
  <1>4. CASE \/ Cdup(s) \/ Query(s) \/ BeginUpload(s) \/ BeginUnique(s) \/ Worker(s)
             \/ \E arg \in Arguments : Cwd(s, arg) \/ Mkd(s, arg) \/ Rmd(s, arg) \/ Dele(s, arg)
    <2>1. UNCHANGED <<login, pending_rename_path>>
      BY <1>4 DEF Cdup, Query, BeginUpload, BeginUnique, Worker, UploadFails, OpenUpload, WriteUpload,
                  EndUpload, WorkerOnly, Cwd, Mkd, Rmd, Dele, LoginKept, RenameKept
    <2> QED
      BY <2>1 DEF login
  <1> QED
    BY <1>1, <1>2, <1>3, <1>4 DEF Command

(* Only a command that is counted raises the count.                          *)
LEMMA StaysCounted ==
  ASSUME Counted, NEW s \in Sessions, Command(s) \/ Worker(s)
  PROVE  Counted'
  <1>1. CASE User(s) \/ Pass(s) \/ Quit(s) \/ Query(s) \/ Worker(s)
    BY <1>1 DEF User, Pass, Quit, Query, Worker, UploadFails, OpenUpload, WriteUpload,
                EndUpload, WorkerOnly, Counted
  <1>2. CASE \/ Cdup(s) \/ BeginUpload(s) \/ BeginUnique(s)
             \/ \E arg \in Arguments : \/ Cwd(s, arg) \/ Mkd(s, arg) \/ Rmd(s, arg)
                                      \/ Dele(s, arg) \/ Rnfr(s, arg) \/ Rnto(s, arg)
    <2>1. commands < MaxCommands /\ commands' = commands + 1
      BY <1>2 DEF Cdup, BeginUpload, BeginUnique, Cwd, Mkd, Rmd, Dele, Rnfr, Rnto, Counts
    <2> QED
      BY <2>1, NamesAssumption DEF Counted
  <1> QED
    BY <1>1, <1>2 DEF Command

(* A closed session keeps no login and no selection, and a worker has a file *)
(* open only after it has received its data (TypeOK).                        *)
THEOREM SessionsAreTyped == Spec => []TypeOK
  <1>1. Init => SessionsInv
    BY NamesAssumption DEF Init, SessionsInv, JobsShaped, JobShape, NoJob, ClosedIsLoggedOut, Counted
  <1>2. AllInside /\ LoginInv /\ SessionsInv /\ [Next]_vars => SessionsInv'
    <2> SUFFICES ASSUME AllInside, LoginInv, SessionsInv, [Next]_vars PROVE SessionsInv'
      OBVIOUS
    <2>1. CASE UNCHANGED vars
      BY <2>1 DEF vars, login, SessionsInv, JobsShaped, ClosedIsLoggedOut, Counted
    <2>2. ASSUME NEW s \in Sessions, Command(s) \/ Worker(s) PROVE SessionsInv'
      <3>1. CASE \/ User(s) \/ Pass(s) \/ Quit(s) \/ Cdup(s) \/ Query(s)
                 \/ \E arg \in Arguments : Cwd(s, arg) \/ Rnfr(s, arg)
        <4>1. UNCHANGED job
          BY <3>1 DEF User, Pass, Quit, Cdup, Query, Cwd, Rnfr
        <4> QED
          BY <2>2, <4>1, ClosedStaysLoggedOut, StaysCounted DEF SessionsInv, JobsShaped
      <3>2. CASE \/ BeginUpload(s) \/ BeginUnique(s) \/ Worker(s)
                 \/ \E arg \in Arguments : Mkd(s, arg) \/ Rmd(s, arg) \/ Dele(s, arg) \/ Rnto(s, arg)
        BY <2>2, <3>2, BeginShapes, WorkerShapes, TreeCommandShapes, ClosedStaysLoggedOut,
           StaysCounted DEF SessionsInv
      <3> QED
        BY <2>2, <3>1, <3>2 DEF Command
    <2> QED
      BY <2>1, <2>2 DEF Next
  <1>3. AllInside /\ LoginInv /\ SessionsInv => TypeOK
    <2> SUFFICES ASSUME AllInside, LoginInv, SessionsInv PROVE TypeOK
      OBVIOUS
    <2>1. ASSUME NEW s \in Sessions
          PROVE  /\ username[s] \in Users \cup {NoUser} /\ authenticated[s] \in BOOLEAN
                 /\ job[s].stage \in {"none", "receiving", "open", "written"}
      BY DEF AllInside, JobsInside, Jobs, LoginInv, LoginTypes
    <2> QED
      BY <2>1 DEF TypeOK, SessionsInv, JobsShaped, JobShape, ClosedIsLoggedOut, Counted
  <1> QED
    BY <1>1, <1>2, <1>3, InsideAlways, LoginAlways, PTL DEF Spec

-----------------------------------------------------------------------------
(* What the files hold *)

Contents == Seq(UNION {Range(content) : content \in Uploads})

(* Uploads are sequences of blocks of uploads, and so is the empty file.     *)
LEMMA UploadsAreContents == Uploads \cup {<<>>} \subseteq Contents
  <1> SUFFICES ASSUME NEW c \in Uploads PROVE c \in Contents
    BY EmptySeq DEF Contents
  <1>1. c \in Seq(Range(c)) /\ Range(c) \subseteq UNION {Range(content) : content \in Uploads}
    BY NamesAssumption
  <1> QED
    BY <1>1, SeqMonotonic DEF Contents

(* Appending an upload puts it at the end.                                   *)
LEMMA EndsWith ==
  ASSUME NEW old \in Contents, NEW new \in Contents
  PROVE  old \o new \in Contents /\ IsSuffix(new, old \o new)
  <1> DEFINE S == UNION {Range(content) : content \in Uploads}
             all == old \o new
             a == Reverse(new)
             b == Reverse(all)
  <1> HIDE DEF S
  <1>1. old \in Seq(S) /\ new \in Seq(S) /\ Contents = Seq(S)
    BY DEF Contents, S
  <1>2. /\ all \in Seq(S) /\ Len(all) = Len(old) + Len(new)
        /\ \A i \in 1..(Len(old) + Len(new)) : all[i] = IF i <= Len(old) THEN old[i] ELSE new[i - Len(old)]
    BY <1>1, ConcatProperties
  <1>3. Len(old) \in Nat /\ Len(new) \in Nat
    BY <1>1
  <1> HIDE DEF all
  <1>4. /\ a = [i \in 1..Len(new) |-> new[Len(new) - i + 1]]
        /\ b = [i \in 1..Len(all) |-> all[Len(all) - i + 1]]
    BY DEF Reverse
  <1>5. ASSUME NEW i \in 1..Len(new)
        PROVE  /\ a[i] \in S /\ a[i] = new[Len(new) - i + 1]
               /\ b[i] = all[Len(all) - i + 1] /\ i \in 1..Len(all)
    <2>1. Len(new) - i + 1 \in 1..Len(new) /\ i \in 1..Len(all)
      BY <1>2, <1>3
    <2>2. new[Len(new) - i + 1] \in S
      BY <1>1, <2>1, ElementOfSeq
    <2> QED
      BY <1>4, <2>1, <2>2
  <1>6. ASSUME NEW i \in 1..Len(all) PROVE b[i] \in S
    <2>1. Len(all) - i + 1 \in 1..Len(all)
      BY <1>2, <1>3
    <2>2. all[Len(all) - i + 1] \in S
      BY <1>2, <2>1, ElementOfSeq
    <2> QED
      BY <1>4, <2>2
  <1>7. ASSUME NEW i \in 1..Len(new) PROVE a[i] = b[i]
    <2> DEFINE k == Len(all) - i + 1
    <2>1. /\ k \in 1..(Len(old) + Len(new)) /\ ~(k <= Len(old))
          /\ k - Len(old) = Len(new) - i + 1
      BY <1>2, <1>3
    <2>2. b[i] = all[k]
      BY <1>5
    <2> HIDE DEF k
    <2>3. all[k] = new[k - Len(old)]
      BY <1>2, <2>1
    <2> QED
      BY <1>5, <2>1, <2>2, <2>3
  <1>8. Len(all) \in Nat /\ Len(new) <= Len(all)
    BY <1>2, <1>3
  <1>9. a \in Seq(S) /\ Len(a) = Len(new)
    <2>1. \A i \in 1..Len(new) : a[i] \in S
      BY <1>5
    <2> QED
      BY <1>3, <1>4, <2>1
  <1>10. b \in Seq(S) /\ Len(b) = Len(all)
    BY <1>4, <1>6, <1>8
  <1> HIDE DEF a, b
  <1>11. SubSeq(a, 1, Len(a)) = a
    BY <1>9, SubSeqFull
  <1>12. /\ SubSeq(b, 1, Len(a)) \in Seq(S) /\ Len(SubSeq(b, 1, Len(a))) = Len(new)
         /\ \A i \in 1..Len(new) : SubSeq(b, 1, Len(a))[i] = b[i]
    <2>1. \A i \in 1..Len(a) : b[i] \in S
      BY <1>3, <1>6, <1>8, <1>9
    <2> DEFINE n == Len(a)
    <2> HIDE DEF n
    <2>2. n \in Nat /\ n = Len(new) /\ \A i \in 1..n : b[i] \in S
      BY <1>3, <1>9, <2>1 DEF n
    <2>3. /\ SubSeq(b, 1, n) \in Seq(S) /\ Len(SubSeq(b, 1, n)) = (IF 1 <= n THEN n - 1 + 1 ELSE 0)
          /\ \A i \in 1..(n - 1 + 1) : SubSeq(b, 1, n)[i] = b[1 + i - 1]
      BY <2>2, SubSeqProperties
    <2>4. /\ SubSeq(b, 1, n) \in Seq(S) /\ Len(SubSeq(b, 1, n)) = n
          /\ \A i \in 1..n : SubSeq(b, 1, n)[i] = b[i]
      BY <2>2, <2>3
    <2> QED
      BY <2>2, <2>4 DEF n
  <1>13. a = SubSeq(b, 1, Len(a))
    BY <1>7, <1>9, <1>12, SeqEqual
  <1>14. Len(a) <= Len(b)
    BY <1>8, <1>9, <1>10
  <1>15. IsPrefix(a, b)
    BY <1>11, <1>13, <1>14 DEF IsPrefix
  <1> QED
    BY <1>1, <1>2, <1>15 DEF IsSuffix, a, b, all

(* Writing over an empty file leaves what was written.                       *)
LEMMA OverNothing ==
  ASSUME NEW new \in Contents
  PROVE  Overlay(new, <<>>) = new
  <1>1. Len(new) \in Nat
    BY DEF Contents
  <1>2. SubSeq(<<>>, Len(new) + 1, Len(<<>>)) = <<>>
    <2>1. Len(<<>>) = 0
      BY EmptySeq
    <2> QED
      BY <1>1, <2>1, SubSeqEmpty
  <1> QED
    BY <1>2, ConcatEmptySeq DEF Overlay, Contents

(* Writing over any file leaves a content.                                   *)
LEMMA OverlayType ==
  ASSUME NEW new \in Contents, NEW old \in Contents
  PROVE  Overlay(new, old) \in Contents
  <1> DEFINE S == UNION {Range(content) : content \in Uploads}
  <1> HIDE DEF S
  <1>1. Contents = Seq(S)
    BY DEF Contents, S
  <1>2. Len(new) \in Nat /\ Len(old) \in Nat
    BY <1>1
  <1>3. \A i \in (Len(new) + 1)..Len(old) : old[i] \in S
    BY <1>1, <1>2
  <1>4. SubSeq(old, Len(new) + 1, Len(old)) \in Seq(S)
    BY <1>2, <1>3, SubSeqProperties
  <1> QED
    BY <1>1, <1>4, ConcatProperties DEF Overlay

(* A directory that goes back takes everything back.                         *)
LEMMA MovedBack ==
  ASSUME NEW from \in Paths, NEW to \in Paths, NEW q \in Paths, IsPrefix(from, q)
  PROVE  Moved(to, from, Moved(from, to, q)) = q
  <1> DEFINE m == Moved(from, to, q)
             r == Moved(to, from, m)
  <1> HIDE DEF m, r
  <1>0. IsMoved(from, to, q, m)
    BY MovedBelow DEF m
  <1>1. /\ m \in Paths /\ Len(m) = Len(to) + Len(q) - Len(from) /\ IsPrefix(to, m)
        /\ \A i \in (Len(to) + 1)..(Len(to) + Len(q) - Len(from)) :
             m[i] = q[Len(from) + i - Len(to)]
    BY <1>0 DEF IsMoved
  <1>b. IsMoved(to, from, m, r)
    BY <1>1, MovedBelow DEF r
  <1>2. /\ r \in Paths /\ Len(r) = Len(from) + Len(m) - Len(to)
        /\ \A i \in 1..Len(from) : r[i] = from[i]
        /\ \A i \in (Len(from) + 1)..(Len(from) + Len(m) - Len(to)) : r[i] = m[Len(to) + i - Len(from)]
    BY <1>b DEF IsMoved
  <1>3. /\ Len(from) \in Nat /\ Len(to) \in Nat /\ Len(q) \in Nat /\ Len(from) <= Len(q)
        /\ \A i \in 1..Len(from) : from[i] = q[i]
    BY PrefixByPosition DEF Paths
  <1>4. Len(r) = Len(q)
    BY <1>1, <1>2, <1>3
  <1>5. ASSUME NEW i \in 1..Len(r) PROVE r[i] = q[i]
    <2>1. CASE i <= Len(from)
      BY <1>2, <1>3, <2>1
    <2>2. CASE i > Len(from)
      <3> DEFINE k == Len(to) + i - Len(from)
      <3>1. /\ k \in (Len(to) + 1)..(Len(to) + Len(q) - Len(from)) /\ Len(from) + k - Len(to) = i
            /\ i \in (Len(from) + 1)..(Len(from) + Len(m) - Len(to))
        BY <1>1, <1>3, <1>4, <2>2
      <3>2. r[i] = m[k]
        BY <1>2, <3>1
      <3> HIDE DEF k
      <3> QED
        BY <1>1, <3>1, <3>2
    <2> QED
      BY <1>3, <1>4, <2>1, <2>2
  <1>6. r = q
    BY <1>2, <1>4, <1>5, SeqEqual DEF Paths
  <1> QED
    BY <1>6 DEF r, m

-----------------------------------------------------------------------------
(* What is reported as stored is stored *)

FilesInv == files \in [DOMAIN files -> Contents]

(* The upload of t, as long as no other session touches its file: it has the *)
(* file of its path open, empty unless it appends, and holds it once written.*)
Stored(t) ==
  job[t].alone =>
    /\ job[t].handle = job[t].path /\ job[t].handle # NoPath
    /\ job[t].stage = "open" /\ ~job[t].append => files[job[t].handle] = <<>>
    /\ job[t].stage = "written" =>
         IF job[t].append THEN IsSuffix(job[t].content, files[job[t].handle])
                          ELSE files[job[t].handle] = job[t].content

StoredInv == FilesInv /\ \A t \in Sessions : Stored(t)

(* A step that leaves a job and its file alone.                              *)
LEMMA StoredKept ==
  ASSUME NEW t \in Sessions, Stored(t),
         \/ ~job'[t].alone
         \/ job'[t] = job[t] /\ files'[job[t].handle] = files[job[t].handle]
  PROVE  Stored(t)'
  BY DEF Stored

(* DELE takes the file from those who have it open.                          *)
LEMMA DeleStored ==
  ASSUME AllInside, TreeInv, StoredInv, NEW s \in Sessions, NEW arg \in Arguments, Dele(s, arg)
  PROVE  StoredInv'
  <1> DEFINE p == Candidate(s, arg)
  <1>1. files' = [q \in DOMAIN files \ {p} |-> files[q]] /\ job' = HandlesAfterUnlink(p)
    BY DEF Dele, Without
  <1> HIDE DEF p
  <1>2. FilesInv'
    BY <1>1 DEF StoredInv, FilesInv
  <1>3. ASSUME NEW t \in Sessions PROVE Stored(t)'
    <2>1. job[t] \in Jobs
      BY DEF AllInside, JobsInside
    <2>2. CASE job[t].handle = p
      <3>1. ~job'[t].alone
        BY <1>1, <2>1, <2>2 DEF HandlesAfterUnlink, Disturb, Jobs
      <3> QED
        BY <3>1, StoredKept DEF StoredInv
    <2>3. CASE job[t].handle # p
      <3>1. job'[t] = job[t]
        BY <1>1, <2>3 DEF HandlesAfterUnlink
      <3>2. CASE ~job[t].alone
        BY <3>1, <3>2, StoredKept DEF StoredInv
      <3>3. CASE job[t].alone
        <4>1. job[t].handle \in DOMAIN files
          BY <3>3 DEF StoredInv, Stored, TreeInv, HandlesHold, IsFile
        <4>2. files'[job[t].handle] = files[job[t].handle]
          BY <1>1, <2>3, <4>1
        <4> QED
          BY <3>1, <4>2, StoredKept DEF StoredInv
      <3> QED
        BY <3>2, <3>3
    <2> QED
      BY <2>2, <2>3
  <1> QED
    BY <1>2, <1>3 DEF StoredInv

(* A rename takes the file from those who have it open under either name;    *)
(* for the others it is where it was.                                        *)
LEMMA RenameStored ==
  ASSUME AllInside, TreeInv, StoredInv, NEW from, NEW to,
         job' = HandlesAfterRename(from, to), FilesInv',
         \A q \in DOMAIN files : ~IsPrefix(from, q) /\ q # to => files'[q] = files[q]
  PROVE  StoredInv'
  <1>1. ASSUME NEW t \in Sessions PROVE Stored(t)'
    <2>1. JobsInside /\ job'[t] = HandlesAfterRename(from, to)[t]
      BY DEF AllInside
    <2>2. \/ ~job'[t].alone
          \/ /\ job[t].handle = NoPath \/ ~IsPrefix(from, job[t].handle)
             /\ job[t].handle # to /\ job'[t] = job[t]
      BY <2>1, HandleMoves
    <2>3. CASE ~job'[t].alone
      BY <2>3, StoredKept DEF StoredInv
    <2>4. CASE /\ job[t].handle = NoPath \/ ~IsPrefix(from, job[t].handle)
               /\ job[t].handle # to /\ job'[t] = job[t] /\ job'[t].alone
      <3>1. job[t].handle # NoPath
        BY <2>4 DEF StoredInv, Stored
      <3>2. job[t].handle \in DOMAIN files
        BY <3>1 DEF TreeInv, HandlesHold, IsFile
      <3>3. files'[job[t].handle] = files[job[t].handle]
        BY <2>4, <3>1, <3>2
      <3> QED
        BY <2>4, <3>3, StoredKept DEF StoredInv
    <2> QED
      BY <2>2, <2>3, <2>4
  <1> QED
    BY <1>1 DEF StoredInv

(* RNTO of a file or of a directory.                                         *)
LEMMA RntoStored ==
  ASSUME AllInside, TreeInv, StoredInv, NEW s \in Sessions, NEW arg \in Arguments, Rnto(s, arg)
  PROVE  StoredInv'
  <1> DEFINE from == pending_rename_path[s]
             to == Candidate(s, arg)
  <1>1. Inside(s, arg) /\ from # NoPath
    BY DEF Rnto, RntoRenames, RntoFails
  <1>2. from \in InRoot /\ to \in InRoot
    BY <1>1, Accepted DEF AllInside, PathsInside
  <1>3. CASE RntoFails(s, arg)
    <2>1. UNCHANGED <<files, job>>
      BY <1>3 DEF RntoFails, tree
    <2> QED
      BY <2>1 DEF StoredInv, FilesInv, Stored
  <1>4. CASE RntoRenames(s, arg)
    <2>1. \/ /\ RenamesFile(from, to)
             /\ files' = [q \in (DOMAIN files \ {from}) \cup {to} |->
                            IF q = to THEN files[from] ELSE files[q]]
             /\ job' = IF from = to THEN job ELSE HandlesAfterRename(from, to)
          \/ /\ RenamesDirectory(from, to)
             /\ files' = [q \in {Place(from, to, r) : r \in DOMAIN files} |->
                            IF IsPrefix(to, q) THEN files[Moved(to, from, q)] ELSE files[q]]
             /\ job' = HandlesAfterRename(from, to)
      BY <1>4 DEF RntoRenames, Place
    <2> HIDE DEF from, to
    <2>2. from \in Paths /\ to \in Paths /\ DOMAIN files \subseteq Paths /\ IsPrefix(from, from)
      BY <1>2, Known, PrefixOrder
    <2>3. CASE /\ RenamesFile(from, to)
               /\ files' = [q \in (DOMAIN files \ {from}) \cup {to} |->
                              IF q = to THEN files[from] ELSE files[q]]
               /\ job' = IF from = to THEN job ELSE HandlesAfterRename(from, to)
      <3>1. from \in DOMAIN files
        BY <2>3 DEF RenamesFile, IsFile
      <3>2. FilesInv'
        BY <2>3, <3>1 DEF StoredInv, FilesInv
      <3>3. \A q \in DOMAIN files : q # from /\ q # to => files'[q] = files[q]
        BY <2>3
      <3>4. CASE from = to
        <4>1. files' = files /\ job' = job
          BY <2>3, <3>1, <3>4 DEF StoredInv, FilesInv
        <4> QED
          BY <4>1 DEF StoredInv, FilesInv, Stored
      <3>5. CASE from # to
        BY <2>2, <2>3, <3>2, <3>3, <3>5, RenameStored
      <3> QED
        BY <3>4, <3>5
    <2>4. CASE /\ RenamesDirectory(from, to)
               /\ files' = [q \in {Place(from, to, r) : r \in DOMAIN files} |->
                              IF IsPrefix(to, q) THEN files[Moved(to, from, q)] ELSE files[q]]
               /\ job' = HandlesAfterRename(from, to)
      <3>1. ASSUME NEW r \in DOMAIN files
            PROVE  files'[Place(from, to, r)] = files[r] /\ Place(from, to, r) \in DOMAIN files'
        <4>0. Place(from, to, r) \in DOMAIN files'
          BY <2>4
        <4>1. CASE IsPrefix(from, r)
          <5>1. IsPrefix(to, Moved(from, to, r)) /\ Moved(to, from, Moved(from, to, r)) = r
            BY <2>2, <4>1, MovedBelow, MovedBack DEF IsMoved
          <5> QED
            BY <2>4, <4>0, <4>1, <5>1 DEF Place
        <4>2. CASE ~IsPrefix(from, r)
          <5>1. ~IsPrefix(to, r)
            <6>1. IsPrefix(to, r) => r \in dirs
              BY <1>2, <2>4, NothingThere DEF TreeInv
            <6> QED
              BY <6>1 DEF TreeInv, TreeHolds
          <5> QED
            BY <2>4, <4>0, <4>2, <5>1 DEF Place
        <4> QED
          BY <4>1, <4>2
      <3>2. FilesInv'
        <4>1. ASSUME NEW q \in DOMAIN files' PROVE files'[q] \in Contents
          <5>1. PICK r \in DOMAIN files : q = Place(from, to, r)
            BY <2>4
          <5> QED
            BY <3>1, <5>1 DEF StoredInv, FilesInv
        <4>2. files' = [q \in DOMAIN files' |-> files'[q]]
          BY <2>4
        <4> QED
          BY <4>1, <4>2 DEF FilesInv
      <3>3. \A q \in DOMAIN files : ~IsPrefix(from, q) /\ q # to => files'[q] = files[q]
        BY <3>1 DEF Place
      <3> QED
        BY <2>4, <3>2, <3>3, RenameStored
    <2> QED
      BY <2>1, <2>3, <2>4
  <1> QED
    BY <1>3, <1>4 DEF Rnto

(* A worker that opens or writes a file disturbs those who have it open.     *)
LEMMA WriteDisturbs ==
  ASSUME AllInside, TreeInv, StoredInv, NEW s \in Sessions, NEW p, NEW j,
         job' = HandlesAfterWrite(s, p, j), FilesInv',
         \A q \in DOMAIN files : q # p => files'[q] = files[q],
         NEW t \in Sessions, t # s
  PROVE  Stored(t)'
  <1>1. JobsInside /\ job'[t] = HandlesAfterWrite(s, p, j)[t]
    BY DEF AllInside
  <1>2. CASE job[t].handle = p
    <2>1. ~HandlesAfterWrite(s, p, j)[t].alone
      BY <1>1, <1>2, JobDisturbed
    <2> QED
      BY <1>1, <2>1, StoredKept DEF StoredInv
  <1>3. CASE job[t].handle # p
    <2>1. job'[t] = job[t]
      BY <1>1, <1>3, JobDisturbed
    <2>2. CASE job[t].alone
      <3>1. job[t].handle \in DOMAIN files
        BY <2>2 DEF StoredInv, Stored, TreeInv, HandlesHold, IsFile
      <3>2. files'[job[t].handle] = files[job[t].handle]
        BY <1>3, <3>1
      <3> QED
        BY <2>1, <3>2, StoredKept DEF StoredInv
    <2>3. CASE ~job[t].alone
      BY <2>1, <2>3, StoredKept DEF StoredInv
    <2> QED
      BY <2>2, <2>3
  <1> QED
    BY <1>2, <1>3

(* The worker opens the file of its path and writes what it has received.    *)
LEMMA WorkerStored ==
  ASSUME AllInside, TreeInv, StoredInv, NEW s \in Sessions, Worker(s)
  PROVE  StoredInv'
  <1>1. JobsInside /\ job \in [Sessions -> Jobs] /\ job[s] \in Jobs
    BY DEF AllInside, JobsInside
  <1>2. job[s].content \in Contents /\ <<>> \in Contents
    BY <1>1, UploadsAreContents DEF Jobs
  <1>3. CASE UploadFails(s) \/ EndUpload(s)
    <2>1. files' = files /\ job' = [job EXCEPT ![s] = NoJob]
      BY <1>3 DEF UploadFails, EndUpload, tree
    <2>2. ASSUME NEW t \in Sessions PROVE ~job'[t].alone \/ job'[t] = job[t]
      BY <1>1, <2>1 DEF NoJob
    <2> QED
      BY <2>1, <2>2, StoredKept DEF StoredInv, FilesInv
  <1>4. CASE OpenUpload(s)
    <2> DEFINE p == job[s].path
               j == [job[s] EXCEPT !.stage = "open", !.handle = p, !.alone = TRUE]
    <2>1. /\ job' = HandlesAfterWrite(s, p, j)
          /\ files' = [q \in DOMAIN files \cup {p} |->
                         IF q = p THEN Opened(p, job[s].append) ELSE files[q]]
      BY <1>4 DEF OpenUpload, WithFile
    <2>2. p # NoPath
      BY <1>1, <1>4, Known DEF OpenUpload, Jobs
    <2>3. Opened(p, job[s].append) \in Contents /\ (~job[s].append => Opened(p, job[s].append) = <<>>)
      BY <1>2 DEF Opened, IsFile, StoredInv, FilesInv
    <2>4. /\ j.handle = p /\ j.path = p /\ j.stage = "open" /\ j.append = job[s].append
      BY <1>1 DEF Jobs
    <2> HIDE DEF p, j
    <2>5. FilesInv'
      BY <2>1, <2>3 DEF StoredInv, FilesInv
    <2>6. \A q \in DOMAIN files : q # p => files'[q] = files[q]
      BY <2>1
    <2>7. Stored(s)'
      <3>1. job'[s] = j
        BY <2>1 DEF HandlesAfterWrite
      <3>2. files'[p] = Opened(p, job[s].append)
        BY <2>1
      <3> QED
        BY <2>2, <2>3, <2>4, <3>1, <3>2 DEF Stored
    <2>8. ASSUME NEW t \in Sessions PROVE Stored(t)'
      BY <2>1, <2>5, <2>6, <2>7, WriteDisturbs
    <2> QED
      BY <2>5, <2>8 DEF StoredInv
  <1>5. CASE WriteUpload(s)
    <2> DEFINE p == job[s].handle
               j == [job[s] EXCEPT !.stage = "written"]
               new == IF job[s].append THEN files[p] \o job[s].content
                                       ELSE Overlay(job[s].content, files[p])
    <2>1. /\ j.handle = p /\ j.path = job[s].path /\ j.stage = "written" /\ j.append = job[s].append
          /\ j.content = job[s].content /\ j.alone = job[s].alone
      BY <1>1 DEF Jobs
    <2>2. CASE p = NoPath
      <3>1. files' = files /\ job' = [job EXCEPT ![s] = j]
        BY <1>5, <2>2 DEF WriteUpload
      <3>2. ~job[s].alone
        BY <2>2 DEF StoredInv, Stored
      <3> HIDE DEF p, j, new
      <3>3. ASSUME NEW t \in Sessions PROVE ~job'[t].alone \/ job'[t] = job[t]
        BY <1>1, <2>1, <3>1, <3>2
      <3> QED
        BY <3>1, <3>3, StoredKept DEF StoredInv, FilesInv
    <2>3. CASE p # NoPath
      <3>1. /\ files' = [files EXCEPT ![p] = new] /\ job' = HandlesAfterWrite(s, p, j)
            /\ job[s].stage = "open"
        BY <1>5, <2>3 DEF WriteUpload
      <3>2. p \in DOMAIN files
        BY <2>3 DEF TreeInv, HandlesHold, IsFile
      <3>3. files[p] \in Contents
        BY <3>2 DEF StoredInv, FilesInv
      <3>4. new \in Contents /\ (job[s].append => IsSuffix(job[s].content, new))
        <4>1. /\ files[p] \o job[s].content \in Contents
              /\ IsSuffix(job[s].content, files[p] \o job[s].content)
          BY <1>2, <3>3, EndsWith
        <4>2. Overlay(job[s].content, files[p]) \in Contents
          BY <1>2, <3>3, OverlayType
        <4> QED
          BY <4>1, <4>2
      <3>5. job[s].alone /\ ~job[s].append => new = job[s].content
        <4>1. job[s].alone /\ ~job[s].append => files[p] = <<>>
          BY <3>1 DEF StoredInv, Stored
        <4> QED
          BY <1>2, <4>1, OverNothing
      <3> HIDE DEF p, j, new
      <3>6. FilesInv'
        BY <3>1, <3>2, <3>4 DEF StoredInv, FilesInv
      <3>7. \A q \in DOMAIN files : q # p => files'[q] = files[q]
        BY <3>1
      <3>8. Stored(s)'
        <4>1. job'[s] = j
          BY <3>1 DEF HandlesAfterWrite
        <4>2. files'[p] = new
          BY <3>1, <3>2 DEF StoredInv, FilesInv
        <4>3. job[s].alone => p = job[s].path
          BY DEF StoredInv, Stored, p
        <4> QED
          BY <2>1, <2>3, <3>4, <3>5, <4>1, <4>2, <4>3 DEF Stored
      <3>9. ASSUME NEW t \in Sessions PROVE Stored(t)'
        BY <3>1, <3>6, <3>7, <3>8, WriteDisturbs
      <3> QED
        BY <3>6, <3>9 DEF StoredInv
    <2> QED
      BY <2>2, <2>3
  <1> QED
    BY <1>3, <1>4, <1>5 DEF Worker

(* When 226 is due and no other session has touched the file, it holds the   *)
(* upload (UploadIsStored), whatever is renamed or deleted around it.        *)
THEOREM UploadsAreStored == Spec => []UploadIsStored
  <1>1. Init => StoredInv
    <2> SUFFICES ASSUME Init PROVE StoredInv
      OBVIOUS
    <2>1. files = [p \in OutsideFiles |-> <<>>] /\ <<>> \in Contents
      BY UploadsAreContents DEF Init
    <2>2. FilesInv
      BY <2>1 DEF FilesInv
    <2>3. \A t \in Sessions : Stored(t)
      BY DEF Init, Stored, NoJob
    <2> QED
      BY <2>2, <2>3 DEF StoredInv
  <1>2. AllInside /\ TreeInv /\ StoredInv /\ [Next]_vars => StoredInv'
    <2> SUFFICES ASSUME AllInside, TreeInv, StoredInv, [Next]_vars PROVE StoredInv'
      OBVIOUS
    <2>1. CASE UNCHANGED vars
      BY <2>1 DEF vars, tree, StoredInv, FilesInv, Stored
    <2>2. ASSUME NEW s \in Sessions, Command(s) \/ Worker(s) PROVE StoredInv'
      <3>1. CASE \/ User(s) \/ Pass(s) \/ Quit(s) \/ Cdup(s) \/ Query(s)
                 \/ BeginUpload(s) \/ BeginUnique(s)
                 \/ \E arg \in Arguments : Cwd(s, arg) \/ Rnfr(s, arg)
        <4>1. /\ UNCHANGED <<dirs, files>>
              /\ \A t \in Sessions : job'[t] = job[t] \/ (job'[t].handle = NoPath /\ ~job'[t].alone)
          BY <3>1, TreeUntouched
        <4> QED
          BY <4>1, StoredKept DEF StoredInv, FilesInv
      <3>2. CASE \E arg \in Arguments : Mkd(s, arg) \/ Rmd(s, arg)
        <4>1. UNCHANGED <<files, job>>
          BY <3>2 DEF Mkd, Rmd
        <4> QED
          BY <4>1, StoredKept DEF StoredInv, FilesInv
      <3>3. CASE \E arg \in Arguments : Dele(s, arg) \/ Rnto(s, arg)
        BY <3>3, DeleStored, RntoStored
      <3> QED
        BY <2>2, <3>1, <3>2, <3>3, WorkerStored DEF Command
    <2> QED
      BY <2>1, <2>2 DEF Next
  <1>3. TreeInv /\ StoredInv => UploadIsStored
    <2> SUFFICES ASSUME TreeInv, StoredInv, NEW s \in Sessions, job[s].stage = "written", job[s].alone
                 PROVE  /\ IsFile(job[s].path)
                        /\ IF job[s].append THEN IsSuffix(job[s].content, files[job[s].path])
                                            ELSE files[job[s].path] = job[s].content
      BY DEF UploadIsStored
    <2>1. job[s].handle = job[s].path /\ job[s].handle # NoPath
      BY DEF StoredInv, Stored
    <2> QED
      BY <2>1 DEF StoredInv, Stored, TreeInv, HandlesHold
  <1> QED
    BY <1>1, <1>2, <1>3, InsideAlways, TreeAlways, PTL DEF Spec
=============================================================================
