----------------------------- MODULE FileTree ------------------------------
(***************************************************************************)
(* What programs may expect of the file system: a tree of names with files *)
(* at its leaves.  A file is made empty, is changed only by writes through *)
(* a descriptor (which may be a read-only one, see Names!sys_writev) and   *)
(* by being opened for truncation, and is found again with the contents    *)
(* last written, whoever opens it and by whichever path.  A directory goes *)
(* only when it is empty.  Two names of a directory differ by more than    *)
(* their case (see Names!Upper).  All this is promised as long as programs *)
(* meet the duty that Names describes.                                     *)
(***************************************************************************)
EXTENDS Naturals, Sequences, SequencesExt, TLC

CONSTANTS
  Fd,        \* descriptors
  Path,      \* paths below the root that may come up
  Buffer,    \* what a call writes
  Upper(_)   \* a name in upper case

VARIABLES
  tree,     \* the nodes, each with its path, the names below the root
  files,    \* per descriptor: the regular file it is open on, and where
  trusted   \* whether programs have met their duty so far

Closed == [path |-> <<>>, offset |-> 0]
EmptyFile(p) == [path |-> p, kind |-> "file", content |-> <<>>]
EmptyDir(p) == [path |-> p, kind |-> "dir", content |-> <<>>]

Init ==
  /\ tree = {}
  /\ files = [f \in Fd |-> Closed]
  /\ trusted = TRUE

FilesAt(p) == {n \in tree : n.path = p /\ n.kind = "file"}

Opened(f, p) ==
  /\ files[f] = Closed
  /\ files' = [files EXCEPT ![f] = [path |-> p, offset |-> 0]]

\* A new node goes into a directory that has no name like its own.
Add(n) ==
  /\ Front(n.path) = <<>> \/ EmptyDir(Front(n.path)) \in tree
  /\ \A m \in tree : Front(m.path) = Front(n.path) => Upper(Last(m.path)) # Upper(Last(n.path))
  /\ tree' = tree \cup {n}

Create(f, p) == Opened(f, p) /\ Add(EmptyFile(p))

Mkdir(p) == Add(EmptyDir(p)) /\ UNCHANGED files

Open(f, n) ==
  /\ n.kind = "file"
  /\ Opened(f, n.path)
  /\ UNCHANGED tree

Truncate(f, n) ==
  /\ n.kind = "file"
  /\ Opened(f, n.path)
  /\ tree' = (tree \ {n}) \cup {EmptyFile(n.path)}

\* The bytes replace what is at the offset and extend the file.
Overwritten(old, at, buf) ==
  [i \in 1 .. (IF at + Len(buf) > Len(old) THEN at + Len(buf) ELSE Len(old)) |->
     IF i > at /\ i <= at + Len(buf) THEN buf[i - at] ELSE old[i]]

\* Reads and writes may be short (n bytes of those asked for), not wrong.
Write(f, buf) ==
  LET h == files[f] IN
  /\ h # Closed
  /\ \E n \in 1 .. Len(buf), m \in FilesAt(h.path) :
       /\ files' = [files EXCEPT ![f].offset = @ + n]
       /\ tree' = (tree \ {m}) \cup
            {[m EXCEPT !.content = Overwritten(@, h.offset, SubSeq(buf, 1, n))]}

Read(f) ==
  /\ files[f] # Closed
  /\ \E m \in FilesAt(files[f].path) : \E n \in files[f].offset .. Len(m.content) :
       files' = [files EXCEPT ![f].offset = n]
  /\ UNCHANGED tree

Close(f) == files' = [files EXCEPT ![f] = Closed] /\ UNCHANGED tree

\* A directory is removed only when nothing is in it.
Delete(n) ==
  /\ \A m \in tree : Front(m.path) # n.path
  /\ tree' = tree \ {n}
  /\ UNCHANGED files

Promised ==
  \/ \E f \in Fd, p \in Path : Create(f, p)
  \/ \E f \in Fd, n \in tree : Truncate(f, n) \/ Open(f, n)
  \/ \E p \in Path : Mkdir(p)
  \/ \E n \in tree : Delete(n)
  \/ \E f \in Fd : Read(f) \/ Close(f)
  \/ \E f \in Fd, buf \in Buffer : Write(f, buf)

Next ==
  \/ trusted' = FALSE
  \/ trusted /\ Promised /\ UNCHANGED trusted

Spec == Init /\ [][Next]_<<tree, files, trusted>>
=============================================================================
