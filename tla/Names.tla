------------------------------- MODULE Names -------------------------------
(***************************************************************************)
(* Paths, directories and files: path_with_fd, open_inode and the calls    *)
(* that use them, over the FAT volume they work on (fat32, rust-fatfs).    *)
(*                                                                         *)
(* A path is the sequence of what lies between its slashes: "/a/b/" is     *)
(* <<"", "a", "b", "">> and "/" is <<"", "">>.  A file is a chain of       *)
(* clusters and a slot of its directory with the first cluster and the     *)
(* size; an open file works on a copy of that slot, which is written back  *)
(* when the file is dropped.  A call that fails changes nothing and is not *)
(* a step; nor is one that makes the kernel panic, which stops it in the   *)
(* state before (open_inode and remove unwrap what rust-fatfs returns).    *)
(*                                                                         *)
(* rust-fatfs demands that a file that is removed is not open ("filesystem *)
(* corruption can happen", dir.rs:336), and with its copies of the slots   *)
(* the same goes for a file that is open twice when one of the two changes *)
(* its slot.  The kernel checks neither: it is a duty of the programs (see *)
(* Duty), and `dutiful` records whether they have met it so far.           *)
(***************************************************************************)
EXTENDS Naturals, Sequences, FiniteSets, SequencesExt, FiniteSetsExt, TLC

CONSTANTS
  Cluster,      \* data clusters of the volume
  Root,         \* the first cluster of the root directory
  None,         \* no cluster, and the end of a chain
  Free,         \* the FAT's mark of a free cluster
  Name,         \* names that are looked up and created
  Upper(_),     \* a name in upper case
  Fd,           \* descriptors
  AT_FDCWD,     \* "relative to the working directory"
  Given,        \* paths that programs pass
  GivenDirs,    \* paths that they pass to mkdir and chdir
  Flags,        \* sets of flags they open with
  Buffer,       \* what they write in one call
  Lengths,      \* how much they read in one call
  ClusterSize,  \* bytes of a cluster
  MaxSize,      \* bound on the size of a file
  MaxSlots,     \* bound on the slots of a directory: it is not extended
  MaxPath       \* bound on the pieces of a path: those of directories grow

ASSUME NamesAssumption ==
  /\ ClusterSize \in Nat \ {0} /\ MaxSize \in Nat /\ MaxSlots \in Nat /\ MaxPath \in Nat
  /\ Root \notin Cluster /\ None \notin Cluster \cup {Root} /\ Free \notin Cluster \cup {None}
  /\ {"", ".", ".."} \cap Name = {}
  /\ AT_FDCWD \notin Fd
ASSUME CallsAssumption ==
  /\ Given \cup GivenDirs \subseteq Seq(Name \cup {"", ".", ".."}) \ {<<>>}
  /\ Buffer \subseteq Seq(Nat) \ {<<>>} /\ Lengths \subseteq Nat

VARIABLES
  slots,    \* per directory, named by its first cluster: its slots in order
  fat,      \* per cluster: the next one of its chain
  data,     \* per cluster: its bytes
  files,    \* the open files
  cwd,      \* working directory of the process that makes the calls
  dutiful   \* history: the programs have met their duty in every state

volume == <<slots, fat, data, files, cwd>>
vars == <<volume, dutiful>>

Deleted == [name |-> "", kind |-> "deleted", cluster |-> None, size |-> 0]
Closed == [kind |-> "closed"]
FileSlot(name) == [name |-> name, kind |-> "file", cluster |-> None, size |-> 0]
DirSlot(name, c) == [name |-> name, kind |-> "dir", cluster |-> c, size |-> 0]

Init ==
  /\ slots = [d \in Cluster \cup {Root} |-> <<>>]
  /\ fat = [c \in Cluster |-> Free]
  /\ data = [c \in Cluster |-> [i \in 1 .. ClusterSize |-> 0]]
  /\ files = [f \in Fd |-> Closed]
  /\ cwd = <<"", "">>
  /\ dutiful = TRUE

-----------------------------------------------------------------------------
(* Paths                                                                   *)

IsAbsolute(p) == Len(p) > 1 /\ p[1] = ""

\* Concatenation of the strings: the last piece of p and the first of q join.
Joined(a, b) == IF a = "" THEN b ELSE a \o b
Concat(p, q) == Front(p) \o <<Joined(Last(p), Head(q))>> \o Tail(q)

\* The calls that path_with_fd refuses (EBADF, ENOTDIR) are not BaseOk.
BaseOk(fd, p) ==
  IsAbsolute(p) \/ fd = AT_FDCWD \/ (fd \in Fd /\ files[fd].kind = "dir")

path_with_fd(fd, p) ==
  IF IsAbsolute(p) THEN p
  ELSE IF fd # AT_FDCWD THEN files[fd].path \o p
  ELSE IF p = <<".">> THEN cwd
  ELSE Concat(cwd, IF p[1] = "." THEN Tail(p) ELSE p)

-----------------------------------------------------------------------------
(* Directories                                                             *)

Used(d) == {i \in DOMAIN slots[d] : slots[d][i].kind # "deleted"}

\* find compares names as they are, rust-fatfs ignores case.
Exactly(d, name) == {i \in Used(d) : slots[d][i].name = name}
IgnoringCase(d, name) == {i \in Used(d) : Upper(slots[d][i].name) = Upper(name)}

RootDir == [status |-> "found", kind |-> "dir", dir |-> Root, index |-> 0, name |-> ""]

\* One turn of open_inode's loop.  A walk has found a directory (dir) or a
\* file (slot index of dir), or misses a name in dir, or has failed.
Step(w, name) ==
  CASE w.status = "missing" -> [w EXCEPT !.status = "ENOENT"]
    [] w.status \in {"ENOENT", "ENOTDIR"} -> w
    [] w.status = "found" /\ w.kind = "file" -> [w EXCEPT !.status = "ENOTDIR"]
    [] w.status = "found" /\ w.kind = "dir" ->
         IF Exactly(w.dir, name) = {}
         THEN [w EXCEPT !.status = "missing", !.name = name]
         ELSE LET i == Min(Exactly(w.dir, name))
                  e == slots[w.dir][i]
              IN  IF e.kind = "dir"
                  THEN [w EXCEPT !.dir = e.cluster]
                  ELSE [w EXCEPT !.kind = "file", !.index = i]

Resolve(names) ==
  LET walk[n \in 0 .. Len(names)] ==
        IF n = 0 THEN RootDir ELSE Step(walk[n - 1], names[n])
  IN  walk[Len(names)]

Walk(p) ==
  IF p = <<"", "">> THEN RootDir ELSE Resolve(IF IsAbsolute(p) THEN Tail(p) ELSE p)

\* find_free_entries: the first deleted slot, or the end.
FreeSlot(d) == Min((1 .. Len(slots[d]) + 1) \ Used(d))

WithSlot(d, i, e) == IF i > Len(slots[d]) THEN Append(slots[d], e)
                     ELSE [slots[d] EXCEPT ![i] = e]

\* The clusters that the FAT leads to from the first one of a chain.
Chain(first) ==
  {c \in Cluster : \A S \in SUBSET Cluster :
     ({first} \cup {fat[x] : x \in S}) \cap Cluster \subseteq S => c \in S}

\* Mutant: only the first cluster is given back.
FreedHead(first) == [c \in Cluster |-> IF c = first THEN Free ELSE fat[c]]

Freed(first) == [c \in Cluster |-> IF c \in Chain(first) THEN Free ELSE fat[c]]

FreeClusters == {c \in Cluster : fat[c] = Free}

-----------------------------------------------------------------------------
(* Open files                                                              *)

Readable(flags) == "O_WRONLY" \notin flags
Writable(flags) == flags \cap {"O_WRONLY", "O_RDWR"} # {}

\* to_file: the open file keeps a copy of the slot.
InodeFile(d, i, e, flags) ==
  [kind |-> "file", dir |-> d, index |-> i,
   name |-> e.name, cluster |-> e.cluster, size |-> e.size,
   dirty |-> FALSE, current |-> None, offset |-> 0,
   readable |-> Readable(flags), writable |-> Writable(flags)]

\* Of an open directory only the path is used.
DirFile(path) == [kind |-> "dir", path |-> path]

OpenOn(d, i) == {f \in Fd : /\ files[f].kind = "file"
                            /\ files[f].dir = d /\ files[f].index = i}

\* What programs must see to: the slot of an open file is still there, and
\* who has changed a slot in his copy, by truncating or extending the file or
\* giving it a first cluster, has the file open alone until he closes it.
Duty ==
  \A f \in Fd : files[f].kind = "file" =>
    /\ files[f].index \in Used(files[f].dir)
    /\ files[f].dirty => OpenOn(files[f].dir, files[f].index) = {f}

\* Which descriptor is taken is FdTable's affair.
Install(h) == \E f \in Fd : files[f] = Closed /\ files' = [files EXCEPT ![f] = h]

-----------------------------------------------------------------------------
(* open_inode.  /dev and /etc/passwd do not get here (FdTable!OpenTty).    *)

Truncated(h) == [h EXCEPT !.cluster = None, !.size = 0,
                          !.dirty = h.cluster # None \/ h.size # 0]

\* "/" is opened whatever the flags say.
OpenExisting(w, path, flags) ==
  /\ w.status = "found"
  /\ path # <<"", "">> => ~ {"O_CREAT", "O_EXCL"} \subseteq flags
  /\ "O_DIRECTORY" \in flags => w.kind = "dir"
  /\ \/ /\ w.kind = "dir"
        /\ Install(DirFile(path))
        /\ UNCHANGED fat
     \/ /\ w.kind = "file"
        /\ LET h == InodeFile(w.dir, w.index, slots[w.dir][w.index], flags) IN
           IF "O_TRUNC" \in flags /\ h.writable
           THEN Install(Truncated(h)) /\ fat' = Freed(h.cluster)
           ELSE Install(h) /\ UNCHANGED fat
  /\ UNCHANGED <<slots, data, cwd>>

\* create_file and create_dir open what is there under that name in any case;
\* when it is of the other kind, when the name is empty and when the volume is
\* full they fail, which open_inode does not expect: a panic.
Wanted(flags) == IF "O_DIRECTORY" \in flags THEN "dir" ELSE "file"

OpenSimilar(w, path, flags) ==
  LET i == Min(IgnoringCase(w.dir, w.name))
      e == slots[w.dir][i]
  IN  /\ e.kind = Wanted(flags)
      /\ IF e.kind = "dir" THEN Install(DirFile(path))
         ELSE Install(InodeFile(w.dir, i, e, flags))
      /\ UNCHANGED <<slots, fat, data, cwd>>

create_file(w, flags) ==
  LET i == FreeSlot(w.dir)
      e == FileSlot(w.name)
  IN  /\ i <= MaxSlots
      /\ slots' = [slots EXCEPT ![w.dir] = WithSlot(w.dir, i, e)]
      /\ Install(InodeFile(w.dir, i, e, flags))
      /\ UNCHANGED <<fat, data, cwd>>

DotSlots(c, parent) == <<DirSlot(".", c), DirSlot("..", parent)>>

create_dir(w, path) ==
  \E c \in FreeClusters :
    LET i == FreeSlot(w.dir) IN
    /\ i <= MaxSlots
    /\ fat' = [fat EXCEPT ![c] = None]
    /\ slots' = [slots EXCEPT ![w.dir] = WithSlot(w.dir, i, DirSlot(w.name, c)),
                              ![c] = DotSlots(c, w.dir)]
    /\ Install(DirFile(path))
    /\ UNCHANGED <<data, cwd>>

\* Mutant: a name in another case is not looked for.
OpenMissingExact(w, path, flags) ==
  /\ w.status = "missing" /\ "O_CREAT" \in flags
  /\ w.name # ""
  /\ IF Wanted(flags) = "dir" THEN create_dir(w, path) ELSE create_file(w, flags)

OpenMissing(w, path, flags) ==
  /\ w.status = "missing" /\ "O_CREAT" \in flags
  /\ w.name # ""
  /\ IF IgnoringCase(w.dir, w.name) # {} THEN OpenSimilar(w, path, flags)
     ELSE IF Wanted(flags) = "dir" THEN create_dir(w, path)
     ELSE create_file(w, flags)

\* Both mode bits at once are unreachable!(), a panic.
open_inode(path, flags) ==
  /\ ~ {"O_WRONLY", "O_RDWR"} \subseteq flags
  /\ OpenExisting(Walk(path), path, flags) \/ OpenMissing(Walk(path), path, flags)

-----------------------------------------------------------------------------
(* System calls                                                            *)

sys_openat(fd, p, flags) ==
  /\ BaseOk(fd, p)
  /\ Len(path_with_fd(fd, p)) <= MaxPath
  /\ open_inode(path_with_fd(fd, p), flags)

\* The new directory stays open under a descriptor nobody is told of.
sys_mkdirat(fd, p) == sys_openat(fd, p, {"O_CREAT", "O_DIRECTORY"})

\* Mutant: the size is not written back.
FlushedCluster(h) ==
  IF h.kind = "file" /\ h.dirty
  THEN [slots EXCEPT ![h.dir][h.index].cluster = h.cluster]
  ELSE slots

\* The copy of the slot goes back to its place, whatever is there now, if it
\* was changed.
Flushed(h) ==
  IF h.kind = "file" /\ h.dirty
  THEN [slots EXCEPT ![h.dir][h.index] =
          [name |-> h.name, kind |-> "file", cluster |-> h.cluster, size |-> h.size]]
  ELSE slots

\* The last reference to an open file goes: File::drop.
sys_close(f) ==
  LET h == files[f] IN
  /\ h # Closed
  /\ slots' = Flushed(h)
  /\ files' = [files EXCEPT ![f] = Closed]
  /\ UNCHANGED <<fat, data, cwd>>

\* get_next_cluster; a chain also ends at a cluster that has been freed.
NextCluster(c) == IF fat[c] = Free THEN None ELSE fat[c]

\* The cluster at the offset; None at the end of the chain.
ClusterAt(h) ==
  IF h.offset % ClusterSize # 0 THEN h.current
  ELSE IF h.current = None THEN h.cluster
  ELSE NextCluster(h.current)

sys_read(f, len) ==
  LET h == files[f]
      n == Min({len, ClusterSize - (h.offset % ClusterSize), h.size - h.offset})
  IN  /\ h.kind = "file" /\ h.readable
      /\ ClusterAt(h) # None /\ n > 0
      /\ files' = [files EXCEPT ![f].offset = @ + n, ![f].current = ClusterAt(h)]
      /\ UNCHANGED <<slots, fat, data, cwd>>

\* The bytes that fit in cluster c, and what the open file then knows.
Put(f, h, c, buf) ==
  LET at == h.offset % ClusterSize
      n == Min({Len(buf), ClusterSize - at})
  IN  /\ data' = [data EXCEPT ![c] = [i \in 1 .. ClusterSize |->
                     IF i > at /\ i <= at + n THEN buf[i - at] ELSE @[i]]]
      /\ files' = [files EXCEPT ![f] =
           [h EXCEPT !.offset = @ + n, !.current = c, !.size = Max({@, h.offset + n}),
                     !.dirty = @ \/ h.offset + n > h.size]]
      /\ UNCHANGED <<slots, cwd>>

\* alloc_cluster marks c as the end of the chain and links it to the last one;
\* when the volume is full it fails, and the kernel panics.
Linked(c, prev) == [x \in Cluster |-> IF x = c THEN None
                                      ELSE IF x = prev THEN c ELSE fat[x]]

\* File::write does not look at the mode the file was opened with.
WriteFile(f, buf) ==
  LET h == files[f]
      c == ClusterAt(h)
  IN  /\ h.offset + Len(buf) <= MaxSize
      /\ IF c # None THEN Put(f, h, c, buf) /\ UNCHANGED fat
         ELSE \E new \in FreeClusters :
                /\ fat' = Linked(new, h.current)
                /\ Put(f, IF h.cluster = None THEN [h EXCEPT !.cluster = new, !.dirty = TRUE]
                          ELSE h, new, buf)

sys_write(f, buf) ==
  /\ files[f].kind = "file" /\ files[f].writable
  /\ WriteFile(f, buf)

\* It asks prepare_io() for a file to read.  This is one buffer of the array.
sys_writev(f, buf) ==
  /\ files[f].kind = "file" /\ files[f].readable
  /\ WriteFile(f, buf)

IsEmpty(d) == \A i \in Used(d) : slots[d][i].name \in {".", ".."}

\* Removing what is not there or a directory in use is an error of rust-fatfs,
\* and a panic.
remove(d, name) ==
  \E i \in IgnoringCase(d, name) :
    LET e == slots[d][i] IN
    /\ e.kind = "dir" => IsEmpty(e.cluster)
    /\ fat' = Freed(e.cluster)
    /\ slots' = IF e.kind = "dir"
                THEN [slots EXCEPT ![d][i] = Deleted, ![e.cluster] = <<>>]
                ELSE [slots EXCEPT ![d][i] = Deleted]
    /\ UNCHANGED <<data, files, cwd>>

\* What comes before the base name ends in a slash, and open_inode finds such
\* a path only if it is "/".  (Removing "/" is a panic, too.)
sys_unlinkat(fd, p) ==
  LET path == path_with_fd(fd, p)
      cut  == IF Last(path) = "" THEN Front(path) ELSE path
      w    == Walk(Append(Front(cut), ""))
  IN  /\ BaseOk(fd, p)
      /\ path # <<"", "">>
      /\ w.status = "found"
      /\ remove(w.dir, Last(cut))

\* Mutant: the path is kept as it was given.
sys_chdir_as_given(p) ==
  /\ cwd' = IF IsAbsolute(p) THEN p ELSE <<"">> \o p
  /\ UNCHANGED <<slots, fat, data, files>>

\* The path is neither looked up nor taken relative to the old one.
sys_chdir(p) ==
  LET new == IF IsAbsolute(p) THEN p ELSE <<"">> \o p IN
  /\ cwd' = IF Last(new) = "" THEN new ELSE Append(new, "")
  /\ UNCHANGED <<slots, fat, data, files>>

Calls ==
  \/ \E fd \in Fd \cup {AT_FDCWD}, p \in Given :
       \/ \E flags \in Flags : sys_openat(fd, p, flags)
       \/ sys_unlinkat(fd, p)
  \/ \E p \in GivenDirs : sys_chdir(p) \/ \E fd \in Fd \cup {AT_FDCWD} : sys_mkdirat(fd, p)
  \/ \E f \in Fd : \/ sys_close(f)
                  \/ \E len \in Lengths : sys_read(f, len)
                  \/ \E buf \in Buffer : sys_write(f, buf) \/ sys_writev(f, buf)

Next == Calls /\ dutiful' = (dutiful /\ Duty')

Spec == Init /\ [][Next]_vars

-----------------------------------------------------------------------------
(* Properties                                                              *)

\* A slot as its file is: the copy of an open file that has changed it.
Effective(d, i) ==
  LET W == {f \in OpenOn(d, i) : files[f].dirty} IN
  IF W = {} THEN slots[d][i]
  ELSE LET h == files[CHOOSE f \in W : TRUE]
       IN  [slots[d][i] EXCEPT !.cluster = h.cluster, !.size = h.size]

\* A directory begins with "." and "..", but the root.
Entries == UNION {{<<d, i>> : i \in {j \in Used(d) : d = Root \/ j > 2}} : d \in Cluster \cup {Root}}

DirEntries == {s \in Entries : slots[s[1]][s[2]].kind = "dir"}

\* As long as programs meet their duty: every cluster in use lies on the chain
\* of one file or directory, and no free cluster on any, through creation,
\* truncation, growth and removal (rust-fatfs's alloc_cluster and
\* free_cluster_chain as the kernel calls them).  Nothing is lost and no two
\* files share data, although slots are written back late.
ClustersAccounted ==
  dutiful => \A c \in Cluster :
    Cardinality({s \in Entries : c \in Chain(Effective(s[1], s[2]).cluster)})
      = IF fat[c] = Free THEN 0 ELSE 1

\* As long as programs meet their duty (a late write-back may bring a name
\* back that has been removed): every directory is entered in one other, to
\* which its ".." leads, and its "." to itself; no directory has two names that
\* differ only in case, although open_inode looks for the name in the given
\* case before it has it created.
DirectoriesLinked ==
  dutiful => \A s \in Entries :
    LET e == slots[s[1]][s[2]] IN
    /\ IgnoringCase(s[1], e.name) = {s[2]}
    /\ e.kind = "dir" =>
         /\ slots[e.cluster][1] = DirSlot(".", e.cluster)
         /\ slots[e.cluster][2] = DirSlot("..", s[1])
         /\ \A t \in DirEntries \ {s} : slots[t[1]][t[2]].cluster # e.cluster

\* A name relative to the working directory is looked up where the pieces of
\* the working directory lead, one after the other (path_with_fd and the form
\* sys_chdir gives the path).
RelativeToCwd ==
  \A n \in Name :
    Walk(path_with_fd(AT_FDCWD, <<n>>)) = Step(Resolve(Front(Tail(cwd))), n)

Content(e) ==
  LET at[n \in Nat] == IF n = 0 THEN e.cluster ELSE fat[at[n - 1]]
  IN  [k \in 1 .. e.size |-> data[at[(k - 1) \div ClusterSize]][((k - 1) % ClusterSize) + 1]]

\* The path of what slot i of directory d is about.
PathTo(d, i) ==
  LET path[x \in Cluster \cup {Root}] ==
        IF x = Root THEN <<>>
        ELSE LET s == CHOOSE s \in DirEntries : slots[s[1]][s[2]].cluster = x
             IN  Append(path[s[1]], slots[s[1]][s[2]].name)
  IN  Append(path[d], slots[d][i].name)

Tree == {[path |-> PathTo(s[1], s[2]), kind |-> slots[s[1]][s[2]].kind,
          content |-> Content(Effective(s[1], s[2]))] : s \in Entries}

FT == INSTANCE FileTree WITH
  Path <- UNION {[1 .. n -> Name] : n \in 1 .. Cardinality(Cluster) + 1},
  tree <- IF dutiful THEN Tree ELSE {},
  files <- [f \in Fd |->
              IF files[f].kind # "file" \/ ~dutiful THEN [path |-> <<>>, offset |-> 0]
              ELSE [path |-> PathTo(files[f].dir, files[f].index),
                    offset |-> files[f].offset]],
  trusted <- dutiful

\* As long as programs meet their duty, the directories, chains, copies of
\* slots and their write-backs are a tree of files that change only by being
\* written to, whatever is opened, closed, created and removed in between
\* (open_inode, File::write, File::drop).
ImplementsFiles == FT!Spec
=============================================================================
