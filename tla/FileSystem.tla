----------------------------- MODULE FileSystem -----------------------------
(***************************************************************************)
(* The files all sessions share, as far as java.io.File and the two stream *)
(* classes show them: a tree of names, and contents that outlive their     *)
(* name while a stream is open.  A path is the sequence of its names.  The *)
(* directory "emulated/0" of a device is one name, "0"; only what lies     *)
(* below it can be changed.                                                *)
(***************************************************************************)
EXTENDS Naturals, Sequences

CONSTANTS
  Names,       \* names of files and directories below the storage directory
  MaxDepth,    \* bound on the names below the storage directory in one path
  MaxCommands, \* bound on commands, which also number the files they create
  None         \* no file, no path

\* What the constants may be.
FileSystemAssumption == MaxDepth \in Nat \ {0} /\ MaxCommands \in Nat

Root == <<>>
Chroot == <<"storage">>
Storage == <<"storage", "0">>
Paths ==
  {Root, Chroot, Storage}
    \cup {Storage \o p : p \in UNION {[1..n -> Names] : n \in 1..MaxDepth}}

Files == 0..MaxCommands

VARIABLES
  tree,  \* what a path that exists names: a file, or None for a directory
  data   \* the contents of a file: a sequence of what was written to it

\* All that is needed of SequencesExt, without which the proofs about MCSession, which
\* takes this module in by an instance, have half as much in their context.
Front(p) == SubSeq(p, 1, Len(p) - 1)
Last(p) == p[Len(p)]
IsPrefix(p, q) == Len(p) <= Len(q) /\ p = SubSeq(q, 1, Len(p))

Exists(p) == p \in DOMAIN tree
IsDirectory(p) == Exists(p) /\ tree[p] = None
IsFile(p) == Exists(p) /\ tree[p] # None
Below(p, q) == IsPrefix(p, q) /\ p # q
Overlap(p, q) == IsPrefix(p, q) \/ IsPrefix(q, p)
Entries(p) == {q \in DOMAIN tree : Below(p, q) /\ Len(q) = Len(p) + 1}
Changeable(p) == p \in Paths /\ Below(Storage, p)

\* Contents under a name; a directory has none.
Content(p) == IF IsFile(p) THEN data[tree[p]] ELSE None

\* Something in the place of a bytes nobody has written.
Hole == <<>>

CanDelete(p) == Exists(p) /\ Changeable(p) /\ Entries(p) = {}
Without(P) == [q \in (DOMAIN tree) \ P |-> tree[q]]

CanMake(p) == ~Exists(p) /\ Changeable(p) /\ IsDirectory(Front(p))
With(p, what) == [q \in (DOMAIN tree) \cup {p} |-> IF q = p THEN what ELSE tree[q]]

\* A stream for writing opens an existing file or makes one.
CanOpen(p) == IsFile(p) \/ CanMake(p)

\* rename(2): an empty directory gives way to a directory, a file to a file.
CanRename(p, q) ==
  /\ Exists(p) /\ Changeable(p) /\ Changeable(q) /\ IsDirectory(Front(q))
  /\ ~Below(p, q)
  /\ Exists(q) => IsFile(p) = IsFile(q) /\ (Entries(q) = {} \/ p = q)
Moved(p, q) ==
  LET rest(x, r) == SubSeq(r, Len(x) + 1, Len(r))
      stays == {r \in DOMAIN tree : ~IsPrefix(p, r) /\ r # q}
      comes == {q \o rest(p, r) : r \in {r \in DOMAIN tree : IsPrefix(p, r)}}
  IN  [r \in stays \cup comes |-> IF r \in comes THEN tree[p \o rest(q, r)] ELSE tree[r]]

\* A write at a position, which another stream may have moved past the end.
Written(content, pos, chunk) ==
  [k \in 1..(IF pos < Len(content) THEN Len(content) ELSE pos + 1) |->
     IF k = pos + 1 THEN chunk ELSE IF k <= Len(content) THEN content[k] ELSE Hole]
=============================================================================
