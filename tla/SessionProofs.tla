---------------------------- MODULE SessionProofs -----------------------------
(***************************************************************************)
(* Theorems about FileCommands as MCSession runs it, for any number of     *)
(* sessions and commands, any names, and any tree of any depth.            *)
(*                                                                         *)
(* The argument: numbers name the files that STORs make, and every STOR    *)
(* that may still make one has a number of its own that no file has yet.   *)
(* So a file gets a second STOR only under a name that the STOR had found  *)
(* free and that was filled since.  And a command that no other one has    *)
(* disturbed has the tree at, above and below its target to itself.        *)
(*                                                                         *)
(* What the files hold follows from the second part: as long as a command  *)
(* is alone, how far it has come tells what is at its target (Reached);    *)
(* when it ends, its reply says just that; and of a path that a command    *)
(* may change nothing is said before it ends (Held).  The file of a        *)
(* transfer may meanwhile get another name, under which nothing is         *)
(* promised (Astray).                                                      *)
(*                                                                         *)
(* What a transfer makes of line ends is proved byte by byte: it depends   *)
(* on the text and not on its buffers (AsciiInv).                          *)
(***************************************************************************)
EXTENDS MCSession, FiniteSetTheorems, SequenceTheorems, TLAPS

-----------------------------------------------------------------------------
(***************************************************************************)
(* Paths: what lies below what.                                            *)
(***************************************************************************)
Known == Names \cup {"storage", "0"}

LEMMA PathsAreSequences == Files!Paths \subseteq Seq(Known)
<1>1. \A n \in Nat : \A p \in [1..n -> Names] : p \in Seq(Known)
  <2> SUFFICES ASSUME NEW n \in Nat, NEW p \in [1..n -> Names] PROVE p \in Seq(Known)
    OBVIOUS
  <2>1. p \in [1..n -> Known]
    BY DEF Known
  <2> QED BY <2>1, SeqDef
<1>2. Files!Storage \in Seq(Known) /\ Files!Chroot \in Seq(Known) /\ Files!Root \in Seq(Known)
  BY DEF Files!Storage, Files!Chroot, Files!Root, Known
<1>3. \A p \in Seq(Known) : Files!Storage \o p \in Seq(Known)
  BY <1>2, ConcatProperties
<1>4. \A n \in 1..MaxDepth : n \in Nat
  OBVIOUS
<1> QED BY <1>1, <1>2, <1>3, <1>4 DEF Files!Paths

LEMMA PrefixMeans ==
  ASSUME NEW S, NEW p \in Seq(S), NEW q \in Seq(S)
  PROVE  Files!IsPrefix(p, q) <=> Len(p) <= Len(q) /\ \A i \in 1..Len(p) : p[i] = q[i]
BY DEF Files!IsPrefix

LEMMA PrefixIsOrder ==
  ASSUME NEW S, NEW p \in Seq(S), NEW q \in Seq(S), NEW r \in Seq(S)
  PROVE  /\ Files!IsPrefix(p, p)
         /\ Files!IsPrefix(p, q) /\ Files!IsPrefix(q, r) => Files!IsPrefix(p, r)
         /\ Files!IsPrefix(p, r) /\ Files!IsPrefix(q, r) => Files!Overlap(p, q)
<1>1. Len(p) \in Nat /\ Len(q) \in Nat /\ Len(r) \in Nat
  OBVIOUS
<1>2. Files!IsPrefix(p, p)
  BY PrefixMeans
<1>3. ASSUME Files!IsPrefix(p, q), Files!IsPrefix(q, r) PROVE Files!IsPrefix(p, r)
  BY <1>1, <1>3, PrefixMeans
<1>4. ASSUME Files!IsPrefix(p, r), Files!IsPrefix(q, r) PROVE Files!Overlap(p, q)
  BY <1>1, <1>4, PrefixMeans DEF Files!Overlap
<1> QED BY <1>2, <1>3, <1>4

Rest(p, r) == SubSeq(r, Len(p) + 1, Len(r))

LEMMA RestIsThere ==
  ASSUME NEW S, NEW p \in Seq(S), NEW r \in Seq(S)
  PROVE  /\ Files!IsPrefix(p, r) => Rest(p, r) \in Seq(S) /\ p \o Rest(p, r) = r
         /\ Rest(p, p \o r) = r
         /\ Files!IsPrefix(p, p \o r)
<1>1. Len(p) \in Nat /\ Len(r) \in Nat
  OBVIOUS
<1>2. ASSUME Files!IsPrefix(p, r) PROVE Rest(p, r) \in Seq(S) /\ p \o Rest(p, r) = r
  BY <1>1, <1>2, PrefixMeans DEF Rest
<1>3. Rest(p, p \o r) = r
  BY <1>1 DEF Rest
<1>4. Files!IsPrefix(p, p \o r)
  <2>1. /\ p \o r \in Seq(S) /\ Len(p \o r) = Len(p) + Len(r)
        /\ \A i \in 1..Len(p) : (p \o r)[i] = p[i]
    BY <1>1, ConcatProperties
  <2>2. Files!IsPrefix(p, p \o r)
          <=> Len(p) <= Len(p \o r) /\ \A i \in 1..Len(p) : p[i] = (p \o r)[i]
    BY ONLY <2>1, PrefixMeans
  <2> QED BY <1>1, <2>1, <2>2
<1> QED BY <1>2, <1>3, <1>4

-----------------------------------------------------------------------------
(***************************************************************************)
(* What the variables are.                                                 *)
(***************************************************************************)
Verbs == {"STOR", "APPE", "RETR", "DELE", "RMD"}
Texts == Seq(Files!Chunks)
Frames == [dir : Files!Paths, todo : SUBSET Files!Paths, success : BOOLEAN]
Commands ==
  [pc : Files!Pcs, verb : Verbs \cup {None}, number : 0..MaxCommands,
   target : Files!Paths \cup {None}, file : Files!Files \cup {None}, pos : Nat, bytes : Texts,
   entry : Files!Paths \cup {None}, frames : Seq(Frames), alone : BOOLEAN]

FilesType ==
  /\ tree \in [DOMAIN tree -> Files!Files \cup {None}] /\ DOMAIN tree \subseteq Files!Paths
  /\ data \in [Files!Files -> Texts]
  /\ workingDir \in [Sessions -> Files!Paths] /\ renameFrom \in [Sessions -> Files!Paths \cup {None}]
  /\ cmd \in [Sessions -> Commands]
  /\ started \in 0..MaxCommands /\ killed \in BOOLEAN
  /\ wanted \in [Files!Paths -> Texts \cup {None, Unknown}]
  /\ writers \in [Files!Files -> SUBSET (0..MaxCommands)] /\ raced \subseteq Files!Files

\* A command at work: its transfer has a file, and what it removes is below its target.
Fits(c) ==
  c.pc # "idle" =>
    /\ c.verb \in Verbs /\ c.target \in Files!Paths
    /\ c.pc \in {"connect", "receive", "send", "sent"} => c.file \in Files!Files
    /\ c.entry # None => Files!IsPrefix(c.target, c.entry)
    /\ \A i \in 1..Len(c.frames) : /\ Files!IsPrefix(c.target, c.frames[i].dir)
                                   /\ \A e \in c.frames[i].todo : Files!IsPrefix(c.target, e)
    /\ c.pc = "loop" => c.frames # <<>>

AllFit == \A s \in Sessions : Fits(cmd[s])

LEMMA FilesConstants ==
  /\ MaxCommands \in Nat /\ MaxChunks \in Nat /\ None \notin Nat
  /\ Files!Files = 0..MaxCommands
  /\ \A n \in 0..MaxCommands : n # None
BY PartsAssumption, ConnectionsAssumption
   DEF Files!FileSystemAssumption, Files!CommandsAssumption, Files!Files

LEMMA IdleIsCommand == Files!Idle \in Commands /\ Fits(Files!Idle) /\ Files!Idle.pc = "idle"
<1>1. <<>> \in Texts /\ <<>> \in Seq(Frames)
  BY DEF Texts
<1> QED BY <1>1, FilesConstants DEF Files!Idle, Commands, Fits, Files!Pcs

\* A step of one command.
LEMMA OneCommand ==
  ASSUME FilesType, AllFit, NEW s \in Sessions, NEW c \in Commands, Fits(c),
         cmd' = [cmd EXCEPT ![s] = c]
  PROVE  /\ cmd' \in [Sessions -> Commands] /\ AllFit'
         /\ cmd'[s] = c /\ \A t \in Sessions \ {s} : cmd'[t] = cmd[t]
BY DEF FilesType, AllFit

\* The end of a command.
LEMMA EndOfCommand ==
  ASSUME FilesType, AllFit, NEW s \in Sessions, NEW P, NEW content \in Texts \cup {None, Unknown},
         Files!Ends(s, P, content)
  PROVE  /\ cmd' = [cmd EXCEPT ![s] = Files!Idle]
         /\ cmd' \in [Sessions -> Commands] /\ AllFit'
         /\ cmd'[s] = Files!Idle /\ \A t \in Sessions \ {s} : cmd'[t] = cmd[t]
         /\ wanted' \in [Files!Paths -> Texts \cup {None, Unknown}]
<1>1. cmd' = [cmd EXCEPT ![s] = Files!Idle]
  BY DEF Files!Ends
<1>2. wanted' \in [Files!Paths -> Texts \cup {None, Unknown}]
  BY DEF Files!Ends, FilesType
<1> QED BY <1>1, <1>2, OneCommand, IdleIsCommand

LEMMA EndWithoutChange ==
  ASSUME FilesType, AllFit, NEW s \in Sessions, Files!EndsWithoutChange(s)
  PROVE  /\ cmd' = [cmd EXCEPT ![s] = Files!Idle]
         /\ cmd' \in [Sessions -> Commands] /\ AllFit'
         /\ cmd'[s] = Files!Idle /\ \A t \in Sessions \ {s} : cmd'[t] = cmd[t]
         /\ wanted' \in [Files!Paths -> Texts \cup {None, Unknown}]
BY EndOfCommand DEF Files!EndsWithoutChange

\* A command that goes on: only its pc is another one.
LEMMA GoingOn ==
  ASSUME FilesType, AllFit, NEW s \in Sessions, NEW pc2 \in Files!Pcs,
         cmd[s].pc # "idle", pc2 # "loop",
         pc2 \in {"connect", "receive", "send", "sent"} => cmd[s].file \in Files!Files,
         Files!Goes(s, pc2)
  PROVE  /\ cmd' = [cmd EXCEPT ![s] = [cmd[s] EXCEPT !.pc = pc2]]
         /\ cmd' \in [Sessions -> Commands] /\ AllFit'
         /\ cmd'[s] = [cmd[s] EXCEPT !.pc = pc2] /\ \A t \in Sessions \ {s} : cmd'[t] = cmd[t]
<1>1. cmd[s] \in Commands /\ Fits(cmd[s])
  BY DEF FilesType, AllFit
<1>2. [cmd[s] EXCEPT !.pc = pc2] \in Commands
  BY <1>1 DEF Commands
<1>3. Fits([cmd[s] EXCEPT !.pc = pc2])
  BY <1>1 DEF Fits, Commands
<1>4. cmd' = [cmd EXCEPT ![s] = [cmd[s] EXCEPT !.pc = pc2]]
  BY DEF Files!Goes
<1> QED BY <1>2, <1>3, <1>4, OneCommand
\* What stays of the command of another session, and whom it is alone with.
SameCommand(c, d) ==
  /\ d.pc = c.pc /\ d.verb = c.verb /\ d.number = c.number /\ d.target = c.target
  /\ d.file = c.file /\ d.pos = c.pos /\ d.bytes = c.bytes /\ d.entry = c.entry
  /\ d.frames = c.frames
  /\ d.alone => c.alone

LEMMA DisturbedCommand ==
  ASSUME FilesType, AllFit, NEW s \in Sessions, NEW P, NEW t \in Sessions
  PROVE  LET d == Files!Disturb(s, P)[t]
         IN  /\ d \in Commands /\ Fits(d) /\ SameCommand(cmd[t], d)
             /\ t = s => d = cmd[t]
             /\ d.alone /\ t # s /\ d.pc # "idle" =>
                  \A p \in P : ~Files!Overlap(p, cmd[t].target)
<1>1. cmd[t] \in Commands /\ Fits(cmd[t])
  BY DEF FilesType, AllFit
<1>2. \/ Files!Disturb(s, P)[t] = cmd[t]
      \/ Files!Disturb(s, P)[t] = [cmd[t] EXCEPT !.alone = FALSE] /\ t # s
  BY DEF Files!Disturb
<1>3. Files!Disturb(s, P)[t].alone /\ t # s /\ Files!Disturb(s, P)[t].pc # "idle" =>
        \A p \in P : ~Files!Overlap(p, cmd[t].target)
  BY <1>1 DEF Files!Disturb, Commands
<1>4. [cmd[t] EXCEPT !.alone = FALSE] \in Commands /\ Fits([cmd[t] EXCEPT !.alone = FALSE])
  BY <1>1 DEF Commands, Fits
<1>5. SameCommand(cmd[t], cmd[t]) /\ SameCommand(cmd[t], [cmd[t] EXCEPT !.alone = FALSE])
  BY <1>1 DEF SameCommand, Commands
<1> QED BY <1>1, <1>2, <1>3, <1>4, <1>5

\* A command of one step, which only may disturb others.
LEMMA DisturbOthers ==
  ASSUME FilesType, AllFit, NEW s \in Sessions, NEW P, cmd' = Files!Disturb(s, P)
  PROVE  /\ cmd' \in [Sessions -> Commands] /\ AllFit' /\ cmd'[s] = cmd[s]
         /\ \A t \in Sessions : /\ SameCommand(cmd[t], cmd'[t])
                                /\ cmd'[t].alone /\ t # s /\ cmd'[t].pc # "idle" =>
                                     \A p \in P : ~Files!Overlap(p, cmd[t].target)
<1>1. cmd' = [t \in Sessions |-> cmd'[t]]
  BY DEF Files!Disturb
<1>2. \A t \in Sessions : /\ cmd'[t] \in Commands /\ Fits(cmd'[t]) /\ SameCommand(cmd[t], cmd'[t])
                          /\ t = s => cmd'[t] = cmd[t]
                          /\ cmd'[t].alone /\ t # s /\ cmd'[t].pc # "idle" =>
                               \A p \in P : ~Files!Overlap(p, cmd[t].target)
  BY DisturbedCommand
<1> QED BY <1>1, <1>2 DEF AllFit

\* The beginning of a command: what is at work, and what it has to do with others.
Begun(s, verb, pc2, p) ==
  /\ cmd[s].pc = "idle" /\ started < MaxCommands /\ started' = started + 1
  /\ cmd'[s].pc = pc2 /\ cmd'[s].verb = verb /\ cmd'[s].number = started + 1
  /\ cmd'[s].target = p /\ cmd'[s].entry = None /\ cmd'[s].frames = <<>>
  /\ cmd'[s].bytes = <<>> /\ cmd'[s].file = None /\ cmd'[s].pos = 0
  /\ cmd'[s].alone => \A t \in Sessions \ {s} :
                        ~(Files!Changes(cmd[t]) /\ Files!Overlap(p, cmd[t].target))
  /\ \A t \in Sessions \ {s} :
       /\ SameCommand(cmd[t], cmd'[t])
       /\ verb # "RETR" /\ cmd'[t].alone /\ cmd'[t].pc # "idle" =>
            ~Files!Overlap(p, cmd[t].target)

LEMMA BeginOfCommand ==
  ASSUME FilesType, AllFit, NEW s \in Sessions, NEW verb \in Verbs, NEW p \in Files!Paths,
         NEW pc2 \in {"check", "open", "enter"}, Files!Begin(s, verb, pc2, p)
  PROVE  FilesType' /\ AllFit' /\ Begun(s, verb, pc2, p)
<1> DEFINE base == IF verb = "RETR" THEN cmd ELSE Files!Disturb(s, {p})
           c == [Files!Idle EXCEPT !.pc = pc2, !.verb = verb, !.number = started + 1,
                                   !.target = p, !.alone = Files!Undisturbed(s, {p})]
<1>1. cmd' = [base EXCEPT ![s] = c] /\ started' = started + 1 /\ started < MaxCommands
  BY DEF Files!Begin
<1>2. \A t \in Sessions : base[t] \in Commands /\ Fits(base[t]) /\ SameCommand(cmd[t], base[t])
  <2>1. \A t \in Sessions : cmd[t] \in Commands /\ Fits(cmd[t]) /\ SameCommand(cmd[t], cmd[t])
    BY DEF FilesType, AllFit, SameCommand
  <2> QED BY <2>1, DisturbedCommand
<1>3. \A t \in Sessions \ {s} :
        verb # "RETR" /\ base[t].alone /\ base[t].pc # "idle" => ~Files!Overlap(p, cmd[t].target)
  BY DisturbedCommand
<1>4. DOMAIN base = Sessions
  BY DEF FilesType, Files!Disturb
<1>5. started + 1 \in 0..MaxCommands /\ started' \in 0..MaxCommands
  BY <1>1, FilesConstants DEF FilesType
<1>6. Files!Undisturbed(s, {p}) \in BOOLEAN
  BY DEF Files!Undisturbed
<1>7. /\ c = [pc |-> pc2, verb |-> verb, number |-> started + 1, target |-> p, file |-> None,
              pos |-> 0, bytes |-> <<>>, entry |-> None, frames |-> <<>>,
              alone |-> Files!Undisturbed(s, {p})]
  <2> DEFINE u == Files!Undisturbed(s, {p})
  <2>1. c = [Files!Idle EXCEPT !.pc = pc2, !.verb = verb, !.number = started + 1,
                               !.target = p, !.alone = u]
    OBVIOUS
  <2> HIDE DEF u, c
  <2>2. c = [pc |-> pc2, verb |-> verb, number |-> started + 1, target |-> p, file |-> None,
             pos |-> 0, bytes |-> <<>>, entry |-> None, frames |-> <<>>, alone |-> u]
    BY <2>1 DEF Files!Idle
  <2> QED BY <2>2 DEF u
<1> HIDE DEF base, c
<1>8. c \in Commands
  <2>1. <<>> \in Texts /\ <<>> \in Seq(Frames)
    BY DEF Texts
  <2> QED BY <1>5, <1>6, <1>7, <2>1 DEF Commands, Files!Pcs, Verbs
<1>9. Fits(c)
  <2>1. Len(<<>>) = 0 /\ 1..0 = {}
    OBVIOUS
  <2> QED BY <1>7, <2>1 DEF Fits
<1>10. cmd'[s] = c /\ (\A t \in Sessions \ {s} : cmd'[t] = base[t]) /\ DOMAIN cmd' = Sessions
  BY <1>1, <1>4
<1>11. cmd' \in [Sessions -> Commands] /\ AllFit'
  <2>1. \A t \in Sessions : cmd'[t] \in Commands /\ Fits(cmd'[t])
    BY <1>2, <1>8, <1>9, <1>10
  <2>2. cmd' = [t \in Sessions |-> cmd'[t]]
    BY <1>1, <1>4
  <2> QED BY <2>1, <2>2 DEF AllFit
<1>12. FilesType'
  <2>1. UNCHANGED <<tree, data, workingDir, renameFrom, killed, wanted, writers, raced>>
    BY DEF Files!Begin, Files!fsVars, Files!ownVars, Files!historyVars
  <2> QED BY <1>5, <1>11, <2>1 DEF FilesType
<1>13. cmd[s].pc = "idle"
  BY DEF Files!Begin
<1>14. c.alone => \A t \in Sessions \ {s} :
                    ~(Files!Changes(cmd[t]) /\ Files!Overlap(p, cmd[t].target))
  BY <1>7 DEF Files!Undisturbed
<1> QED BY <1>1, <1>2, <1>3, <1>7, <1>10, <1>11, <1>12, <1>13, <1>14 DEF Begun

-----------------------------------------------------------------------------
(***************************************************************************)
(* What becomes of the tree.                                               *)
(***************************************************************************)
TreeType(T) == T \in [DOMAIN T -> Files!Files \cup {None}] /\ DOMAIN T \subseteq Files!Paths

LEMMA WithOne ==
  ASSUME TreeType(tree), NEW p \in Files!Paths, NEW what \in Files!Files \cup {None}
  PROVE  /\ TreeType(Files!With(p, what))
         /\ DOMAIN Files!With(p, what) = (DOMAIN tree) \cup {p}
         /\ Files!With(p, what)[p] = what
         /\ \A q \in (DOMAIN tree) \ {p} : Files!With(p, what)[q] = tree[q]
BY DEF TreeType, Files!With

LEMMA WithoutSome ==
  ASSUME TreeType(tree), NEW P
  PROVE  /\ TreeType(Files!Without(P))
         /\ DOMAIN Files!Without(P) = (DOMAIN tree) \ P
         /\ \A q \in (DOMAIN tree) \ P : Files!Without(P)[q] = tree[q]
BY DEF TreeType, Files!Without

LEMMA MovedFrom ==
  ASSUME TreeType(tree), NEW p \in Files!Paths, NEW q \in Files!Paths
  PROVE  /\ \A e \in DOMAIN Files!Moved(p, q) :
              \/ \E r \in DOMAIN tree : /\ Files!IsPrefix(p, r) /\ e = q \o Rest(p, r)
                                        /\ Files!Moved(p, q)[e] = tree[r]
              \/ /\ e \in DOMAIN tree /\ Files!Moved(p, q)[e] = tree[e]
                 /\ ~Files!IsPrefix(p, e) /\ e # q
         /\ \A e \in DOMAIN tree :
              ~Files!IsPrefix(p, e) /\ ~Files!IsPrefix(q, e) =>
                e \in DOMAIN Files!Moved(p, q) /\ Files!Moved(p, q)[e] = tree[e]
<1> DEFINE stays == {r \in DOMAIN tree : ~Files!IsPrefix(p, r) /\ r # q}
           comes == {q \o Rest(p, r) : r \in {r \in DOMAIN tree : Files!IsPrefix(p, r)}}
<1>1. Files!Moved(p, q) = [r \in stays \cup comes |-> IF r \in comes THEN tree[p \o Rest(q, r)] ELSE tree[r]]
  BY DEF Files!Moved, Rest
<1>2. p \in Seq(Known) /\ q \in Seq(Known) /\ \A r \in DOMAIN tree : r \in Seq(Known)
  BY PathsAreSequences DEF TreeType
<1>3. ASSUME NEW e \in comes
      PROVE  \E r \in DOMAIN tree : /\ Files!IsPrefix(p, r) /\ e = q \o Rest(p, r)
                                    /\ p \o Rest(q, e) = r
  <2>1. PICK r \in DOMAIN tree : Files!IsPrefix(p, r) /\ e = q \o Rest(p, r)
    BY <1>3
  <2>2. Rest(p, r) \in Seq(Known) /\ p \o Rest(p, r) = r
    BY <1>2, <2>1, RestIsThere
  <2>3. Rest(q, q \o Rest(p, r)) = Rest(p, r)
    BY <1>2, <2>2, RestIsThere
  <2> QED BY <2>1, <2>2, <2>3
<1>4. ASSUME NEW e \in comes PROVE Files!IsPrefix(q, e)
  <2>1. PICK r \in DOMAIN tree : Files!IsPrefix(p, r) /\ e = q \o Rest(p, r)
    BY <1>4
  <2>2. Rest(p, r) \in Seq(Known)
    BY <1>2, <2>1, RestIsThere
  <2> QED BY <1>2, <2>1, <2>2, RestIsThere
<1>5. Files!IsPrefix(q, q)
  BY <1>2, PrefixIsOrder
<1> HIDE DEF comes
<1>6. ASSUME NEW e \in DOMAIN Files!Moved(p, q)
      PROVE  \/ \E r \in DOMAIN tree : /\ Files!IsPrefix(p, r) /\ e = q \o Rest(p, r)
                                        /\ Files!Moved(p, q)[e] = tree[r]
             \/ /\ e \in DOMAIN tree /\ Files!Moved(p, q)[e] = tree[e]
                /\ ~Files!IsPrefix(p, e) /\ e # q
  <2>1. CASE e \in comes
    <3>1. Files!Moved(p, q)[e] = tree[p \o Rest(q, e)]
      BY <1>1, <2>1
    <3> QED BY <1>3, <2>1, <3>1
  <2>2. CASE e \notin comes
    BY <1>1, <2>2
  <2> QED BY <2>1, <2>2
<1>7. ASSUME NEW e \in DOMAIN tree, ~Files!IsPrefix(p, e), ~Files!IsPrefix(q, e)
      PROVE  e \in DOMAIN Files!Moved(p, q) /\ Files!Moved(p, q)[e] = tree[e]
  BY <1>1, <1>4, <1>5, <1>7
<1> QED BY <1>6, <1>7

LEMMA MovedType ==
  ASSUME TreeType(tree), NEW p \in Files!Paths, NEW q \in Files!Paths,
         DOMAIN Files!Moved(p, q) \subseteq Files!Paths
  PROVE  TreeType(Files!Moved(p, q))
<1>1. \A e \in DOMAIN Files!Moved(p, q) : Files!Moved(p, q)[e] \in Files!Files \cup {None}
  BY MovedFrom DEF TreeType
<1>2. Files!Moved(p, q) = [e \in DOMAIN Files!Moved(p, q) |-> Files!Moved(p, q)[e]]
  BY DEF Files!Moved
<1> QED BY <1>1, <1>2 DEF TreeType

LEMMA WrittenText ==
  ASSUME NEW text \in Texts, NEW pos \in Nat, NEW chunk \in Files!Chunks
  PROVE  Files!Written(text, pos, chunk) \in Texts
<1> DEFINE n == IF pos < Len(text) THEN Len(text) ELSE pos + 1
<1>1. n \in Nat /\ Len(text) \in Nat
  BY DEF Texts
<1>2. Files!Hole \in Files!Chunks /\ \A k \in 1..Len(text) : text[k] \in Files!Chunks
  BY DEF Texts, Files!Chunks
<1>3. Files!Written(text, pos, chunk) =
        [k \in 1..n |-> IF k = pos + 1 THEN chunk
                        ELSE IF k <= Len(text) THEN text[k] ELSE Files!Hole]
  BY DEF Files!Written
<1> HIDE DEF n
<1>4. \A k \in 1..n : (IF k = pos + 1 THEN chunk ELSE IF k <= Len(text) THEN text[k] ELSE Files!Hole)
                        \in Files!Chunks
  BY <1>1, <1>2
<1>5. Files!Written(text, pos, chunk) \in [1..n -> Files!Chunks]
  BY <1>3, <1>4
<1> QED BY <1>1, <1>5, SeqDef DEF Texts

-----------------------------------------------------------------------------
(***************************************************************************)
(* A step of a command at work: it ends, or goes on under its name.        *)
(***************************************************************************)
Worked(s) ==
  /\ cmd[s].pc # "idle" /\ UNCHANGED started
  /\ \A t \in Sessions \ {s} : cmd'[t] = cmd[t]
  /\ \/ cmd'[s] = Files!Idle
     \/ /\ cmd'[s].pc # "idle" /\ cmd'[s].verb = cmd[s].verb /\ cmd'[s].number = cmd[s].number
        /\ cmd'[s].target = cmd[s].target /\ cmd'[s].alone = cmd[s].alone

Works(s) == FilesType' /\ AllFit' /\ Worked(s)

\* Of a command at work.
LEMMA AtWork ==
  ASSUME FilesType, AllFit, NEW s \in Sessions, cmd[s].pc # "idle"
  PROVE  /\ cmd[s] \in Commands /\ Fits(cmd[s]) /\ cmd[s].target \in Files!Paths
         /\ cmd[s].number \in 0..MaxCommands /\ cmd[s].verb \in Verbs
         /\ cmd[s].target \in Seq(Known) /\ TreeType(tree)
         /\ Files!AfterTransfer(s) \in Texts \cup {None, Unknown}
<1>1. cmd[s] \in Commands /\ Fits(cmd[s]) /\ cmd[s].target \in Files!Paths /\ cmd[s].verb \in Verbs
  BY DEF FilesType, AllFit, Fits
<1>2. cmd[s].number \in 0..MaxCommands /\ cmd[s].bytes \in Texts
  BY <1>1 DEF Commands
<1>3. TreeType(tree)
  BY DEF FilesType, TreeType
<1>4. wanted[cmd[s].target] \in Texts \cup {None, Unknown}
  BY <1>1 DEF FilesType
<1>5. Files!AfterTransfer(s) \in Texts \cup {None, Unknown}
  <2> DEFINE old == IF wanted[cmd[s].target] = None THEN <<>> ELSE wanted[cmd[s].target]
  <2>1. old \in Texts \cup {Unknown}
    BY <1>4 DEF Texts
  <2>2. Files!AfterTransfer(s) =
          IF cmd[s].verb = "STOR" THEN cmd[s].bytes
          ELSE IF old = Unknown THEN Unknown ELSE old \o cmd[s].bytes
    BY DEF Files!AfterTransfer
  <2> HIDE DEF old
  <2>3. old \in Texts => old \o cmd[s].bytes \in Texts
    BY <1>2, ConcatProperties DEF Texts
  <2> QED BY <1>2, <2>1, <2>2, <2>3
<1> QED BY <1>1, <1>2, <1>3, <1>5, PathsAreSequences

\* What the lemmas on the end of a command and on going on say of Worked.
LEMMA EndIsWork ==
  ASSUME FilesType, AllFit, NEW s \in Sessions, cmd[s].pc # "idle", UNCHANGED started,
         cmd'[s] = Files!Idle, \A t \in Sessions \ {s} : cmd'[t] = cmd[t]
  PROVE  Worked(s)
BY DEF Worked

LEMMA GoingOnIsWork ==
  ASSUME FilesType, AllFit, NEW s \in Sessions, NEW pc2 \in Files!Pcs,
         cmd[s].pc # "idle", pc2 \notin {"idle", "loop"},
         pc2 \in {"connect", "receive", "send", "sent"} => cmd[s].file \in Files!Files,
         Files!Goes(s, pc2), UNCHANGED started
  PROVE  /\ cmd' \in [Sessions -> Commands] /\ AllFit' /\ Worked(s)
         /\ cmd'[s] = [cmd[s] EXCEPT !.pc = pc2]
<1>1. /\ cmd' \in [Sessions -> Commands] /\ AllFit'
      /\ cmd'[s] = [cmd[s] EXCEPT !.pc = pc2] /\ \A t \in Sessions \ {s} : cmd'[t] = cmd[t]
  BY GoingOn
<1>2. cmd[s] \in Commands
  BY DEF FilesType
<1> QED BY <1>1, <1>2 DEF Worked, Commands

LEMMA StoreChecksDirectoryWorks ==
  ASSUME FilesType, AllFit, NEW s \in Sessions, Files!StoreChecksDirectory(s)
  PROVE  Works(s)
<1>1. /\ cmd[s].pc = "check"
      /\ UNCHANGED <<tree, data, workingDir, renameFrom, started, killed, writers, raced>>
  BY DEF Files!StoreChecksDirectory, Files!Storing, Files!fsVars, Files!ownVars
<1>2. CASE Files!EndsWithoutChange(s)
  BY <1>1, <1>2, EndWithoutChange, EndIsWork DEF Works, FilesType
<1>3. CASE Files!Goes(s, "exists") /\ UNCHANGED wanted
  <2>1. "exists" \in Files!Pcs
    BY DEF Files!Pcs
  <2> QED BY <1>1, <1>3, <2>1, GoingOnIsWork DEF Works, FilesType
<1> QED BY <1>2, <1>3 DEF Files!StoreChecksDirectory

LEMMA StoreChecksExistsWorks ==
  ASSUME FilesType, AllFit, NEW s \in Sessions, Files!StoreChecksExists(s)
  PROVE  Works(s)
<1>1. /\ cmd[s].pc = "exists"
      /\ UNCHANGED <<tree, data, workingDir, renameFrom, started, killed, wanted, writers, raced>>
  BY DEF Files!StoreChecksExists, Files!Storing, Files!fsVars, Files!ownVars, Files!historyVars
<1>2. PICK pc2 \in {"delete", "open"} : Files!Goes(s, pc2)
  BY DEF Files!StoreChecksExists
<1>3. pc2 \in Files!Pcs
  BY DEF Files!Pcs
<1> QED BY <1>1, <1>2, <1>3, GoingOnIsWork DEF Works, FilesType

LEMMA StoreDeletesWorks ==
  ASSUME FilesType, AllFit, NEW s \in Sessions, Files!StoreDeletes(s)
  PROVE  Works(s)
<1>1. /\ cmd[s].pc = "delete"
      /\ UNCHANGED <<data, workingDir, renameFrom, started, killed, writers, raced>>
  BY DEF Files!StoreDeletes, Files!Storing, Files!ownVars
<1>2. CASE Files!EndsWithoutChange(s) /\ UNCHANGED tree
  BY <1>1, <1>2, EndWithoutChange, EndIsWork DEF Works, FilesType
<1>3. CASE /\ tree' = Files!Without({cmd[s].target}) /\ Files!Goes(s, "open") /\ UNCHANGED wanted
  <2>1. "open" \in Files!Pcs
    BY DEF Files!Pcs
  <2>2. TreeType(tree')
    BY <1>1, <1>3, AtWork, WithoutSome
  <2> QED BY <1>1, <1>3, <2>1, <2>2, GoingOnIsWork DEF Works, FilesType, TreeType
<1> QED BY <1>2, <1>3 DEF Files!StoreDeletes

LEMMA StoreOpensWorks ==
  ASSUME FilesType, AllFit, NEW s \in Sessions, Files!StoreOpens(s)
  PROVE  Works(s)
<1> DEFINE p == cmd[s].target
           f == IF Files!IsFile(p) THEN tree[p] ELSE cmd[s].number
           c == [cmd[s] EXCEPT !.pc = "connect", !.file = f]
<1>1. /\ cmd[s].pc = "open" /\ tree' = Files!With(p, f)
      /\ data' = (IF cmd[s].verb = "STOR" THEN [data EXCEPT ![f] = <<>>] ELSE data)
      /\ cmd' = [cmd EXCEPT ![s] = c]
      /\ writers' = IF cmd[s].verb = "STOR" THEN [writers EXCEPT ![f] = @ \cup {cmd[s].number}]
                    ELSE writers
      /\ raced' \in {raced, raced \cup {f}}
      /\ UNCHANGED <<workingDir, renameFrom, started, killed, wanted>>
  BY DEF Files!StoreOpens, Files!Storing, Files!ownVars
<1>2. /\ cmd[s] \in Commands /\ Fits(cmd[s]) /\ p \in Files!Paths /\ TreeType(tree)
      /\ cmd[s].number \in Files!Files
  BY <1>1, AtWork, FilesConstants
<1>3. f \in Files!Files
  BY <1>2 DEF TreeType, Files!IsFile, Files!Exists
<1> HIDE DEF f, p
<1>4. TreeType(tree')
  BY <1>1, <1>2, <1>3, WithOne
<1>5. c \in Commands
  BY <1>2, <1>3 DEF Commands, Files!Pcs
<1>6. Fits(c)
  BY <1>1, <1>2, <1>3 DEF Fits, Commands
<1>7. cmd' \in [Sessions -> Commands] /\ AllFit' /\ cmd'[s] = c
      /\ \A t \in Sessions \ {s} : cmd'[t] = cmd[t]
  BY <1>1, <1>5, <1>6, OneCommand
<1>8. data' \in [Files!Files -> Texts]
  BY <1>1, <1>3 DEF FilesType, Texts
<1>9. writers' \in [Files!Files -> SUBSET (0..MaxCommands)] /\ raced' \subseteq Files!Files
  BY <1>1, <1>2, <1>3, FilesConstants DEF FilesType
<1>10. Worked(s)
  BY <1>1, <1>2, <1>7 DEF Worked, Commands
<1> QED BY <1>1, <1>4, <1>7, <1>8, <1>9, <1>10 DEF Works, FilesType, TreeType

LEMMA StoreCannotOpenWorks ==
  ASSUME FilesType, AllFit, NEW s \in Sessions, Files!StoreCannotOpen(s)
  PROVE  Works(s)
<1>1. /\ cmd[s].pc = "open" /\ Files!EndsWithoutChange(s)
      /\ UNCHANGED <<tree, data, workingDir, renameFrom, started, killed, writers, raced>>
  BY DEF Files!StoreCannotOpen, Files!Storing, Files!fsVars, Files!ownVars
<1> QED BY <1>1, EndWithoutChange, EndIsWork DEF Works, FilesType

LEMMA StoreConnectsWorks ==
  ASSUME FilesType, AllFit, NEW s \in Sessions, Files!StoreConnects(s)
  PROVE  Works(s)
<1>1. /\ cmd[s].pc = "connect"
      /\ UNCHANGED <<tree, data, workingDir, renameFrom, started, killed, writers, raced>>
  BY DEF Files!StoreConnects, Files!Storing, Files!fsVars, Files!ownVars
<1>2. CASE Files!Goes(s, "receive") /\ UNCHANGED wanted
  <2>1. "receive" \in Files!Pcs
    BY DEF Files!Pcs
  <2>2. cmd[s].file \in Files!Files
    BY <1>1, AtWork DEF Fits
  <2> QED BY <1>1, <1>2, <2>1, <2>2, GoingOnIsWork DEF Works, FilesType
<1>3. CASE Files!Ends(s, {cmd[s].target}, Files!AfterTransfer(s))
  BY <1>1, <1>3, AtWork, EndOfCommand, EndIsWork DEF Works, FilesType
<1> QED BY <1>2, <1>3 DEF Files!StoreConnects

LEMMA StoreReceivesWorks ==
  ASSUME FilesType, AllFit, NEW s \in Sessions, Files!StoreReceives(s)
  PROVE  Works(s)
<1> DEFINE f == cmd[s].file
           chunk == <<cmd[s].number, Len(cmd[s].bytes) + 1>>
           pos == IF cmd[s].verb = "APPE" THEN Len(data[f]) ELSE cmd[s].pos
           c == [cmd[s] EXCEPT !.pos = @ + 1, !.bytes = Append(@, chunk)]
<1>1. /\ cmd[s].pc = "receive" /\ Len(cmd[s].bytes) < MaxChunks
      /\ data' = [data EXCEPT ![f] = Files!Written(@, pos, chunk)]
      /\ cmd' = [cmd EXCEPT ![s] = c]
      /\ UNCHANGED <<tree, workingDir, renameFrom, started, killed, wanted, writers, raced>>
  BY DEF Files!StoreReceives, Files!Storing, Files!ownVars, Files!historyVars
<1>2. /\ cmd[s] \in Commands /\ Fits(cmd[s]) /\ f \in Files!Files
      /\ cmd[s].number \in 0..MaxCommands
  BY <1>1, AtWork DEF Fits
<1>3. cmd[s].bytes \in Texts /\ cmd[s].pos \in Nat /\ data[f] \in Texts
  BY <1>2 DEF Commands, FilesType
<1>4. chunk \in Files!Chunks
  <2>1. Len(cmd[s].bytes) + 1 \in 1..MaxChunks
    BY <1>1, <1>3, FilesConstants DEF Texts
  <2> QED BY <1>2, <2>1 DEF Files!Chunks
<1>5. pos \in Nat
  BY <1>3 DEF Texts
<1> HIDE DEF f, chunk, pos
<1>6. data' \in [Files!Files -> Texts]
  BY <1>1, <1>2, <1>3, <1>4, <1>5, WrittenText DEF FilesType
<1>7. Append(cmd[s].bytes, chunk) \in Texts
  BY <1>3, <1>4, AppendProperties DEF Texts
<1>8. c \in Commands /\ Fits(c)
  <2>1. c = [cmd[s] EXCEPT !.pos = cmd[s].pos + 1, !.bytes = Append(cmd[s].bytes, chunk)]
    OBVIOUS
  <2> HIDE DEF c
  <2>2. c \in Commands
    <3>1. cmd[s] \in Commands /\ cmd[s].pos + 1 \in Nat /\ Append(cmd[s].bytes, chunk) \in Texts
      BY <1>2, <1>3, <1>7
    <3> QED BY ONLY <3>1, <2>1 DEF Commands
  <2>3. /\ c.pc = cmd[s].pc /\ c.verb = cmd[s].verb /\ c.target = cmd[s].target
        /\ c.file = cmd[s].file /\ c.entry = cmd[s].entry /\ c.frames = cmd[s].frames
    BY <1>2, <2>1 DEF Commands
  <2> QED BY <1>2, <2>2, <2>3 DEF Fits
<1>9. cmd' \in [Sessions -> Commands] /\ AllFit' /\ cmd'[s] = c
      /\ \A t \in Sessions \ {s} : cmd'[t] = cmd[t]
  BY <1>1, <1>8, OneCommand
<1>10. Worked(s)
  BY <1>1, <1>2, <1>9 DEF Worked, Commands
<1> QED BY <1>1, <1>6, <1>9, <1>10 DEF Works, FilesType

LEMMA StoreEndsWorks ==
  ASSUME FilesType, AllFit, NEW s \in Sessions, Files!StoreEnds(s) \/ Files!StoreCannotWrite(s)
  PROVE  Works(s)
<1>1. /\ cmd[s].pc = "receive"
      /\ UNCHANGED <<tree, data, workingDir, renameFrom, started, killed, writers, raced>>
  BY DEF Files!StoreEnds, Files!StoreCannotWrite, Files!Storing, Files!fsVars, Files!ownVars
<1>2. PICK content \in Texts \cup {None, Unknown} : Files!Ends(s, {cmd[s].target}, content)
  BY <1>1, AtWork DEF Files!StoreEnds, Files!StoreCannotWrite
<1> QED BY <1>1, <1>2, EndOfCommand, EndIsWork DEF Works, FilesType

LEMMA RetrOpensWorks ==
  ASSUME FilesType, AllFit, NEW s \in Sessions, Files!RetrOpens(s)
  PROVE  Works(s)
<1>1. /\ cmd[s].pc = "open"
      /\ UNCHANGED <<tree, data, workingDir, renameFrom, started, killed, wanted, writers, raced>>
  BY DEF Files!RetrOpens, Files!Retrieving, Files!fsVars, Files!ownVars, Files!historyVars
<1>2. cmd[s] \in Commands /\ Fits(cmd[s]) /\ TreeType(tree)
  BY <1>1, AtWork
<1>3. CASE cmd' = [cmd EXCEPT ![s] = Files!Idle]
  BY <1>1, <1>3, IdleIsCommand, OneCommand, EndIsWork DEF Works, FilesType
<1>4. ASSUME Files!IsFile(cmd[s].target),
             cmd' = [cmd EXCEPT ![s].pc = "connect", ![s].file = tree[cmd[s].target]]
      PROVE  Works(s)
  <2> DEFINE f == tree[cmd[s].target]
             c == [cmd[s] EXCEPT !.pc = "connect", !.file = f]
  <2>1. f \in Files!Files
    BY <1>2, <1>4 DEF TreeType, Files!IsFile, Files!Exists
  <2>2. cmd' = [cmd EXCEPT ![s] = c]
    BY <1>4
  <2> HIDE DEF f
  <2>3. c \in Commands
    BY <1>2, <2>1 DEF Commands, Files!Pcs
  <2>4. Fits(c)
    BY <1>1, <1>2, <2>1 DEF Fits, Commands
  <2>5. cmd' \in [Sessions -> Commands] /\ AllFit' /\ cmd'[s] = c
        /\ \A t \in Sessions \ {s} : cmd'[t] = cmd[t]
    BY <2>2, <2>3, <2>4, OneCommand
  <2>6. Worked(s)
    BY <1>1, <1>2, <2>5 DEF Worked, Commands
  <2> QED BY <1>1, <2>5, <2>6 DEF Works, FilesType
<1> QED BY <1>3, <1>4 DEF Files!RetrOpens, Files!RetrEnds

LEMMA RetrConnectsWorks ==
  ASSUME FilesType, AllFit, NEW s \in Sessions, Files!RetrConnects(s)
  PROVE  Works(s)
<1>1. /\ cmd[s].pc = "connect"
      /\ UNCHANGED <<tree, data, workingDir, renameFrom, started, killed, wanted, writers, raced>>
  BY DEF Files!RetrConnects, Files!Retrieving, Files!fsVars, Files!ownVars, Files!historyVars
<1>2. CASE cmd' = [cmd EXCEPT ![s] = Files!Idle]
  BY <1>1, <1>2, IdleIsCommand, OneCommand, EndIsWork DEF Works, FilesType
<1>3. CASE Files!Goes(s, "send")
  <2>1. "send" \in Files!Pcs
    BY DEF Files!Pcs
  <2>2. cmd[s].file \in Files!Files
    BY <1>1, AtWork DEF Fits
  <2> QED BY <1>1, <1>3, <2>1, <2>2, GoingOnIsWork DEF Works, FilesType
<1> QED BY <1>2, <1>3 DEF Files!RetrConnects, Files!RetrEnds

LEMMA RetrSendsWorks ==
  ASSUME FilesType, AllFit, NEW s \in Sessions, Files!RetrSends(s)
  PROVE  Works(s)
<1> DEFINE content == data[cmd[s].file]
           chunk == content[cmd[s].pos + 1]
           c == [cmd[s] EXCEPT !.pos = @ + 1, !.bytes = Append(@, chunk)]
<1>1. /\ cmd[s].pc = "send"
      /\ UNCHANGED <<tree, data, workingDir, renameFrom, started, killed, wanted, writers, raced>>
  BY DEF Files!RetrSends, Files!Retrieving, Files!fsVars, Files!ownVars, Files!historyVars
<1>2. cmd[s] \in Commands /\ Fits(cmd[s]) /\ cmd[s].file \in Files!Files
  BY <1>1, AtWork DEF Fits
<1>3. cmd[s].bytes \in Texts /\ cmd[s].pos \in Nat /\ content \in Texts
  BY <1>2 DEF Commands, FilesType
<1>4. CASE cmd' = [cmd EXCEPT ![s] = Files!Idle]
  BY <1>1, <1>4, IdleIsCommand, OneCommand, EndIsWork DEF Works, FilesType
<1>5. CASE Files!Goes(s, "sent")
  <2>1. "sent" \in Files!Pcs
    BY DEF Files!Pcs
  <2> QED BY <1>1, <1>2, <1>5, <2>1, GoingOnIsWork DEF Works, FilesType
<1>6. ASSUME cmd[s].pos < Len(content), cmd' = [cmd EXCEPT ![s] = c]
      PROVE  Works(s)
  <2>1. chunk \in Files!Chunks
    BY <1>3, <1>6 DEF Texts
  <2> HIDE DEF content, chunk
  <2>2. Append(cmd[s].bytes, chunk) \in Texts /\ cmd[s].pos + 1 \in Nat
    BY <1>3, <2>1, AppendProperties DEF Texts
  <2>3. c = [cmd[s] EXCEPT !.pos = cmd[s].pos + 1, !.bytes = Append(cmd[s].bytes, chunk)]
    OBVIOUS
  <2> HIDE DEF c
  <2>4. c \in Commands
    BY ONLY <1>2, <2>2, <2>3 DEF Commands
  <2>5. /\ c.pc = cmd[s].pc /\ c.verb = cmd[s].verb /\ c.target = cmd[s].target
        /\ c.file = cmd[s].file /\ c.entry = cmd[s].entry /\ c.frames = cmd[s].frames
        /\ c.number = cmd[s].number /\ c.alone = cmd[s].alone
    BY <1>2, <2>3 DEF Commands
  <2>6. Fits(c)
    BY <1>2, <2>5 DEF Fits
  <2>7. cmd' \in [Sessions -> Commands] /\ AllFit' /\ cmd'[s] = c
        /\ \A t \in Sessions \ {s} : cmd'[t] = cmd[t]
    BY <1>6, <2>4, <2>6, OneCommand
  <2>8. Worked(s)
    BY <1>1, <2>5, <2>7 DEF Worked
  <2> QED BY <1>1, <2>7, <2>8 DEF Works, FilesType
<1> QED BY <1>4, <1>5, <1>6 DEF Files!RetrSends, Files!RetrEnds

LEMMA RetrRepliesWorks ==
  ASSUME FilesType, AllFit, NEW s \in Sessions, Files!RetrReplies(s)
  PROVE  Works(s)
<1>1. /\ cmd[s].pc = "sent" /\ cmd' = [cmd EXCEPT ![s] = Files!Idle]
      /\ UNCHANGED <<tree, data, workingDir, renameFrom, started, killed, wanted, writers, raced>>
  BY DEF Files!RetrReplies, Files!RetrEnds, Files!Retrieving, Files!fsVars, Files!ownVars,
         Files!historyVars
<1> QED BY <1>1, IdleIsCommand, OneCommand, EndIsWork DEF Works, FilesType

LEMMA DeleChecksDirectoryWorks ==
  ASSUME FilesType, AllFit, NEW s \in Sessions, Files!DeleChecksDirectory(s)
  PROVE  Works(s)
<1>1. /\ cmd[s].pc = "check"
      /\ UNCHANGED <<tree, data, workingDir, renameFrom, started, killed, writers, raced>>
  BY DEF Files!DeleChecksDirectory, Files!fsVars, Files!ownVars
<1>2. CASE Files!EndsWithoutChange(s)
  BY <1>1, <1>2, EndWithoutChange, EndIsWork DEF Works, FilesType
<1>3. CASE Files!Goes(s, "delete") /\ UNCHANGED wanted
  <2>1. "delete" \in Files!Pcs
    BY DEF Files!Pcs
  <2> QED BY <1>1, <1>3, <2>1, GoingOnIsWork DEF Works, FilesType
<1> QED BY <1>2, <1>3 DEF Files!DeleChecksDirectory

LEMMA DeleDeletesWorks ==
  ASSUME FilesType, AllFit, NEW s \in Sessions, Files!DeleDeletes(s)
  PROVE  Works(s)
<1>1. /\ cmd[s].pc = "delete"
      /\ UNCHANGED <<data, workingDir, renameFrom, started, killed, writers, raced>>
  BY DEF Files!DeleDeletes, Files!ownVars
<1>2. PICK P : Files!Ends(s, P, None) /\ tree' \in {tree, Files!Without({cmd[s].target})}
  BY DEF Files!DeleDeletes, Files!EndsWithoutChange
<1>3. TreeType(tree')
  BY <1>1, <1>2, AtWork, WithoutSome
<1> QED BY <1>1, <1>2, <1>3, EndOfCommand, EndIsWork DEF Works, FilesType, TreeType

\* What a removal is about lies below its target.
LEMMA EntryIsBelow ==
  ASSUME FilesType, AllFit, NEW s \in Sessions, cmd[s].pc # "idle"
  PROVE  /\ Files!Entry(s) \in Files!Paths /\ Files!Entry(s) \in Seq(Known)
         /\ Files!IsPrefix(cmd[s].target, Files!Entry(s))
<1>1. /\ cmd[s] \in Commands /\ Fits(cmd[s]) /\ cmd[s].target \in Files!Paths
      /\ cmd[s].target \in Seq(Known)
  BY AtWork
<1>2. cmd[s].entry \in Files!Paths \cup {None}
  BY <1>1 DEF Commands
<1>3. Files!IsPrefix(cmd[s].target, cmd[s].target)
  BY <1>1, PrefixIsOrder
<1> QED BY <1>1, <1>2, <1>3, PathsAreSequences DEF Files!Entry, Fits

FramesFit(p, frames) ==
  \A i \in 1..Len(frames) : /\ Files!IsPrefix(p, frames[i].dir)
                            /\ \A e \in frames[i].todo : Files!IsPrefix(p, e)

LEMMA FrontIsThere ==
  ASSUME NEW S, NEW f \in Seq(S), f # <<>>
  PROVE  /\ Files!Front(f) \in Seq(S) /\ Len(Files!Front(f)) = Len(f) - 1
         /\ \A i \in 1..(Len(f) - 1) : Files!Front(f)[i] = f[i]
<1> DEFINE n == Len(f) - 1
<1>1. n \in Nat /\ n \in 0..Len(f) /\ \A i \in 1..n : f[i] \in S
  OBVIOUS
<1>2. SubSeq(f, 1, n) = Restrict(f, 1..n)
  BY <1>1, SubSeqRestrict
<1>3. SubSeq(f, 1, n) = [i \in 1..n |-> f[i]]
  BY <1>2 DEF Restrict
<1> HIDE DEF n
<1>4. SubSeq(f, 1, n) \in [1..n -> S]
  BY <1>1, <1>3
<1>5. SubSeq(f, 1, n) \in Seq(S) /\ Len(SubSeq(f, 1, n)) = n
  BY <1>1, <1>4, SeqDef
<1> QED BY <1>3, <1>5 DEF Files!Front, n

\* The command that a removal is after a call has returned to its caller.
LEMMA ReturnIsWork ==
  ASSUME FilesType, AllFit, NEW s \in Sessions, cmd[s].pc \notin {"idle", "connect"},
         UNCHANGED started, NEW success \in BOOLEAN, NEW frames \in Seq(Frames),
         FramesFit(cmd[s].target, frames), Files!Returns(s, success, frames)
  PROVE  /\ cmd' \in [Sessions -> Commands] /\ AllFit' /\ Worked(s)
         /\ wanted' \in [Files!Paths -> Texts \cup {None, Unknown}]
         /\ cmd'[s].pc \in {"idle", "loop"}
<1>1. CASE frames = <<>>
  <2> DEFINE content == IF success THEN None ELSE Unknown
  <2>1. Files!Ends(s, {q \in Files!Paths : Files!IsPrefix(cmd[s].target, q)}, content)
    BY <1>1 DEF Files!Returns
  <2>2. content \in Texts \cup {None, Unknown}
    OBVIOUS
  <2> HIDE DEF content
  <2> QED BY <2>1, <2>2, EndOfCommand, EndIsWork, IdleIsCommand
<1>2. CASE frames # <<>>
  <2> DEFINE n == Len(frames)
             top == [frames[n] EXCEPT !.success = @ /\ success]
             more == [frames EXCEPT ![n] = top]
             c == [cmd[s] EXCEPT !.pc = "loop", !.frames = more]
  <2>1. cmd' = [cmd EXCEPT ![s] = c] /\ UNCHANGED wanted
    BY <1>2 DEF Files!Returns
  <2>2. n \in 1..n /\ frames[n] \in Frames
    BY <1>2
  <2>3. top \in Frames /\ top.dir = frames[n].dir /\ top.todo = frames[n].todo
    BY <2>2 DEF Frames
  <2> HIDE DEF top
  <2>4. more \in Seq(Frames) /\ Len(more) = n /\ more # <<>>
        /\ \A i \in 1..n : more[i] = IF i = n THEN top ELSE frames[i]
    BY <1>2, <2>2, <2>3
  <2>5. FramesFit(cmd[s].target, more)
    BY <2>2, <2>3, <2>4 DEF FramesFit
  <2> HIDE DEF more
  <2>6. cmd[s] \in Commands /\ Fits(cmd[s])
    BY AtWork
  <2>7. c \in Commands
    BY <2>4, <2>6 DEF Commands, Files!Pcs
  <2>8. /\ c.pc = "loop" /\ c.verb = cmd[s].verb /\ c.target = cmd[s].target
        /\ c.file = cmd[s].file /\ c.entry = cmd[s].entry /\ c.frames = more
        /\ c.number = cmd[s].number /\ c.alone = cmd[s].alone
    BY <2>6 DEF Commands
  <2> HIDE DEF c
  <2>9. Fits(c)
    BY <2>4, <2>5, <2>6, <2>8 DEF Fits, FramesFit
  <2>10. cmd' \in [Sessions -> Commands] /\ AllFit' /\ cmd'[s] = c
         /\ \A t \in Sessions \ {s} : cmd'[t] = cmd[t]
    BY <2>1, <2>7, <2>9, OneCommand
  <2> QED BY <2>1, <2>8, <2>10 DEF Worked, FilesType
<1> QED BY <1>1, <1>2

LEMMA RmdEntersWorks ==
  ASSUME FilesType, AllFit, NEW s \in Sessions, Files!RmdEnters(s)
  PROVE  Works(s)
<1>1. /\ cmd[s].pc = "enter"
      /\ UNCHANGED <<data, workingDir, renameFrom, started, killed, writers, raced>>
  BY DEF Files!RmdEnters, Files!Removing, Files!ownVars
<1>2. CASE Files!Goes(s, "list") /\ UNCHANGED <<tree, wanted>>
  <2>1. "list" \in Files!Pcs
    BY DEF Files!Pcs
  <2> QED BY <1>1, <1>2, <2>1, GoingOnIsWork DEF Works, FilesType
<1>3. CASE /\ tree' = IF Files!CanDelete(Files!Entry(s)) THEN Files!Without({Files!Entry(s)}) ELSE tree
           /\ Files!Returns(s, Files!CanDelete(Files!Entry(s)), cmd[s].frames)
  <2>1. Files!CanDelete(Files!Entry(s)) \in BOOLEAN
    BY DEF Files!CanDelete
  <2>2. cmd[s].frames \in Seq(Frames) /\ FramesFit(cmd[s].target, cmd[s].frames) /\ TreeType(tree)
    BY <1>1, AtWork DEF Commands, Fits, FramesFit
  <2>3. TreeType(tree')
    BY <1>3, <2>2, WithoutSome
  <2> QED BY <1>1, <1>3, <2>1, <2>2, <2>3, ReturnIsWork DEF Works, FilesType, TreeType
<1> QED BY <1>2, <1>3 DEF Files!RmdEnters

LEMMA RmdListsWorks ==
  ASSUME FilesType, AllFit, NEW s \in Sessions, ~killed, Files!RmdLists(s)
  PROVE  FilesType' /\ AllFit' /\ (killed' => UNCHANGED cmd) /\ (~killed' => Worked(s))
<1> DEFINE p == Files!Entry(s)
           new == [dir |-> p, todo |-> Files!Entries(p), success |-> TRUE]
           more == Append(cmd[s].frames, new)
           c == [cmd[s] EXCEPT !.pc = "loop", !.frames = more]
<1>1. /\ cmd[s].pc = "list"
      /\ UNCHANGED <<tree, data, workingDir, renameFrom, started, wanted, writers, raced>>
  BY DEF Files!RmdLists, Files!Removing, Files!fsVars, Files!ownVars, Files!historyVars
<1>2. CASE killed' = TRUE /\ UNCHANGED cmd
  BY <1>1, <1>2 DEF FilesType, AllFit
<1>3. CASE cmd' = [cmd EXCEPT ![s] = c] /\ UNCHANGED killed
  <2>1. /\ cmd[s] \in Commands /\ Fits(cmd[s]) /\ cmd[s].target \in Seq(Known) /\ TreeType(tree)
    BY <1>1, AtWork
  <2>2. p \in Files!Paths /\ p \in Seq(Known) /\ Files!IsPrefix(cmd[s].target, p)
    BY <1>1, EntryIsBelow
  <2>3. \A e \in Files!Entries(p) : e \in Files!Paths /\ Files!IsPrefix(cmd[s].target, e)
    <3> SUFFICES ASSUME NEW e \in Files!Entries(p)
                 PROVE  e \in Files!Paths /\ Files!IsPrefix(cmd[s].target, e)
      OBVIOUS
    <3>1. e \in Files!Paths /\ Files!IsPrefix(p, e)
      BY <2>1 DEF Files!Entries, Files!Below, TreeType
    <3>2. e \in Seq(Known)
      BY <3>1, PathsAreSequences
    <3> QED BY <2>1, <2>2, <3>1, <3>2, PrefixIsOrder
  <2>4. new \in Frames /\ new.dir = p /\ new.todo = Files!Entries(p)
    BY <2>2, <2>3 DEF Frames
  <2>5. cmd[s].frames \in Seq(Frames) /\ FramesFit(cmd[s].target, cmd[s].frames)
    BY <1>1, <2>1 DEF Commands, Fits, FramesFit
  <2> HIDE DEF p, new
  <2>6. more \in Seq(Frames) /\ Len(more) = Len(cmd[s].frames) + 1 /\ more # <<>>
        /\ more[Len(cmd[s].frames) + 1] = new
        /\ \A i \in 1..Len(cmd[s].frames) : more[i] = cmd[s].frames[i]
    BY <2>4, <2>5, AppendProperties
  <2> HIDE DEF more
  <2>7. FramesFit(cmd[s].target, more)
    <3>1. \A i \in 1..Len(more) : i = Len(cmd[s].frames) + 1 \/ i \in 1..Len(cmd[s].frames)
      BY <2>5, <2>6
    <3>2. Files!IsPrefix(cmd[s].target, new.dir) /\ \A e \in new.todo : Files!IsPrefix(cmd[s].target, e)
      BY <2>2, <2>3, <2>4
    <3> QED BY <2>5, <2>6, <3>1, <3>2 DEF FramesFit
  <2>8. c \in Commands
    BY <2>1, <2>6 DEF Commands, Files!Pcs
  <2>9. /\ c.pc = "loop" /\ c.verb = cmd[s].verb /\ c.target = cmd[s].target
        /\ c.file = cmd[s].file /\ c.entry = cmd[s].entry /\ c.frames = more
        /\ c.number = cmd[s].number /\ c.alone = cmd[s].alone
    BY <2>1 DEF Commands
  <2> HIDE DEF c
  <2>10. Fits(c)
    BY <1>1, <2>1, <2>6, <2>7, <2>9 DEF Fits, FramesFit
  <2>11. cmd' \in [Sessions -> Commands] /\ AllFit' /\ cmd'[s] = c
         /\ \A t \in Sessions \ {s} : cmd'[t] = cmd[t]
    BY <1>3, <2>8, <2>10, OneCommand
  <2>12. Worked(s)
    BY <1>1, <2>9, <2>11 DEF Worked
  <2> QED BY <1>1, <1>3, <2>11, <2>12 DEF FilesType
<1> QED BY <1>2, <1>3 DEF Files!RmdLists

LEMMA RmdLoopsWorks ==
  ASSUME FilesType, AllFit, NEW s \in Sessions, Files!RmdLoops(s)
  PROVE  Works(s)
<1> DEFINE frames == cmd[s].frames
           n == Len(frames)
           top == Files!Last(frames)
           deleted == top.success /\ Files!CanDelete(top.dir)
<1>1. /\ cmd[s].pc = "loop"
      /\ UNCHANGED <<data, workingDir, renameFrom, started, killed, writers, raced>>
  BY Zenon DEF Files!RmdLoops, Files!Removing, Files!ownVars
<1>2. /\ cmd[s] \in Commands /\ Fits(cmd[s]) /\ TreeType(tree)
  BY <1>1, AtWork
<1>3. /\ frames \in Seq(Frames) /\ frames # <<>> /\ FramesFit(cmd[s].target, frames)
      /\ n \in 1..n /\ top = frames[n] /\ top \in Frames
  <2>1. frames \in Seq(Frames) /\ frames # <<>> /\ FramesFit(cmd[s].target, frames)
    BY <1>1, <1>2 DEF Commands, Fits, FramesFit
  <2> HIDE DEF frames
  <2> QED BY <2>1 DEF Files!Last
<1>4. ASSUME NEW e \in top.todo,
             cmd' = [cmd EXCEPT ![s].pc = "enter", ![s].entry = e, ![s].frames[n].todo = @ \ {e}],
             UNCHANGED <<tree, wanted>>
      PROVE  Works(s)
  <2> DEFINE less == [top EXCEPT !.todo = @ \ {e}]
             more == [frames EXCEPT ![n] = less]
             c == [cmd[s] EXCEPT !.pc = "enter", !.entry = e, !.frames = more]
  <2>1. cmd' = [cmd EXCEPT ![s] = c]
    BY <1>3, <1>4
  <2>2. e \in Files!Paths /\ Files!IsPrefix(cmd[s].target, e)
    BY <1>3, <1>4 DEF Frames, FramesFit
  <2>3. less \in Frames /\ less.dir = top.dir /\ less.todo \subseteq top.todo
    BY <1>3 DEF Frames
  <2> HIDE DEF less, frames, top
  <2>4. more \in Seq(Frames) /\ Len(more) = n
        /\ \A i \in 1..n : more[i] = IF i = n THEN less ELSE frames[i]
    BY <1>3, <2>3
  <2>5. FramesFit(cmd[s].target, more)
    BY <1>3, <2>3, <2>4 DEF FramesFit
  <2> HIDE DEF more
  <2>6. c \in Commands
    BY <1>2, <2>2, <2>4 DEF Commands, Files!Pcs
  <2>7. /\ c.pc = "enter" /\ c.verb = cmd[s].verb /\ c.target = cmd[s].target
        /\ c.file = cmd[s].file /\ c.entry = e /\ c.frames = more
        /\ c.number = cmd[s].number /\ c.alone = cmd[s].alone
    BY <1>2 DEF Commands
  <2> HIDE DEF c
  <2>8. Fits(c)
    BY <1>1, <1>2, <2>2, <2>5, <2>7 DEF Fits, FramesFit
  <2>9. cmd' \in [Sessions -> Commands] /\ AllFit' /\ cmd'[s] = c
        /\ \A t \in Sessions \ {s} : cmd'[t] = cmd[t]
    BY <2>1, <2>6, <2>8, OneCommand
  <2>10. Worked(s)
    BY <1>1, <2>7, <2>9 DEF Worked
  <2> QED BY <1>1, <1>4, <2>9, <2>10 DEF Works, FilesType
<1>5. ASSUME tree' = IF deleted THEN Files!Without({top.dir}) ELSE tree,
             Files!Returns(s, deleted, Files!Front(frames))
      PROVE  Works(s)
  <2>1. deleted \in BOOLEAN
    BY DEF Files!CanDelete
  <2>2. /\ Files!Front(frames) \in Seq(Frames) /\ Len(Files!Front(frames)) = n - 1
        /\ \A i \in 1..(n - 1) : Files!Front(frames)[i] = frames[i]
    BY <1>3, FrontIsThere
  <2>3. FramesFit(cmd[s].target, Files!Front(frames))
    <3> HIDE DEF frames, top
    <3>1. n \in Nat /\ \A i \in 1..(n - 1) : i \in 1..n
      BY <1>3
    <3> HIDE DEF n
    <3>2. \A i \in 1..(n - 1) : /\ Files!IsPrefix(cmd[s].target, frames[i].dir)
                              /\ \A e \in frames[i].todo : Files!IsPrefix(cmd[s].target, e)
      BY <1>3, <3>1 DEF FramesFit, n
    <3> QED BY <2>2, <3>2 DEF FramesFit
  <2>4. TreeType(tree')
    BY <1>2, <1>5, WithoutSome
  <2> QED BY <1>1, <1>5, <2>1, <2>2, <2>3, <2>4, ReturnIsWork DEF Works, FilesType, TreeType
<1> QED BY <1>4, <1>5, Zenon DEF Files!RmdLoops

-----------------------------------------------------------------------------
(***************************************************************************)
(* The commands of one step, and all steps together.                       *)
(***************************************************************************)
\* The command changes nobody's work, but may be at work beside it.
Instantly(s) ==
  /\ cmd[s].pc = "idle" /\ started' \in 0..MaxCommands /\ started <= started'
  /\ UNCHANGED <<data, killed, writers>>
  /\ cmd' \in [Sessions -> Commands] /\ AllFit' /\ cmd'[s] = cmd[s]
  /\ \A t \in Sessions : SameCommand(cmd[t], cmd'[t])

LEMMA InstantIsInstant ==
  ASSUME FilesType, AllFit, NEW s \in Sessions, NEW P, Files!Instant(s),
         cmd' \in {cmd, Files!Disturb(s, P)}
  PROVE  Instantly(s)
<1>1. /\ cmd[s].pc = "idle" /\ started < MaxCommands /\ started' = started + 1
      /\ UNCHANGED <<data, killed, writers>>
  BY DEF Files!Instant
<1>2. started' \in 0..MaxCommands /\ started <= started'
  BY <1>1, FilesConstants DEF FilesType
<1>3. CASE cmd' = cmd
  BY <1>1, <1>2, <1>3 DEF Instantly, FilesType, AllFit, SameCommand
<1>4. CASE cmd' = Files!Disturb(s, P)
  <2>1. /\ cmd' \in [Sessions -> Commands] /\ AllFit' /\ cmd'[s] = cmd[s]
        /\ \A t \in Sessions : SameCommand(cmd[t], cmd'[t])
    BY <1>4, DisturbOthers
  <2> QED BY <1>1, <1>2, <2>1 DEF Instantly
<1> QED BY <1>3, <1>4

LEMMA InstantType ==
  ASSUME FilesType, AllFit, NEW s \in Sessions,
         \/ Files!Mkd(s) \/ Files!Rnfr(s) \/ Files!Rnto(s) \/ Files!RntoFails(s)
         \/ Files!Cwd(s) \/ Files!Cdup(s)
  PROVE  FilesType' /\ AllFit' /\ Instantly(s)
<1>1. TreeType(tree) /\ \A p : Files!Exists(p) => p \in Files!Paths
  BY DEF FilesType, TreeType, Files!Exists
<1>2. CASE Files!Mkd(s)
  <2>1. PICK p \in Files!Paths :
          /\ Files!Instant(s) /\ tree' = Files!With(p, None) /\ cmd' = Files!Disturb(s, {p})
          /\ wanted' \in {wanted, [wanted EXCEPT ![p] = Unknown]}
          /\ UNCHANGED <<workingDir, renameFrom, raced>>
    BY <1>2 DEF Files!Mkd, Files!CanMake, Files!Changeable, Files!ownVars
  <2>2. Instantly(s)
    BY <2>1, InstantIsInstant
  <2>3. TreeType(tree')
    BY <1>1, <2>1, WithOne
  <2> QED BY <2>1, <2>2, <2>3 DEF FilesType, TreeType, Instantly
<1>3. CASE Files!Rnfr(s)
  <2>1. PICK p : /\ Files!Instant(s) /\ UNCHANGED <<tree, workingDir, cmd, wanted, raced>>
                 /\ renameFrom' = [renameFrom EXCEPT ![s] = IF Files!Exists(p) THEN p ELSE None]
    BY <1>3 DEF Files!Rnfr
  <2>2. Instantly(s)
    BY <2>1, InstantIsInstant
  <2>3. renameFrom' \in [Sessions -> Files!Paths \cup {None}]
    BY <1>1, <2>1 DEF FilesType
  <2> QED BY <2>1, <2>2, <2>3 DEF FilesType, Instantly
<1>4. CASE Files!Rnto(s)
  <2> DEFINE p == renameFrom[s]
  <2>1. PICK q : /\ Files!Instant(s) /\ p # None /\ Files!CanRename(p, q)
                 /\ DOMAIN Files!Moved(p, q) \subseteq Files!Paths /\ tree' = Files!Moved(p, q)
                 /\ cmd' = Files!Disturb(s, {p, q})
                 /\ raced' = raced \cup {tree[r] : r \in {r \in DOMAIN tree :
                      Files!IsPrefix(p, r) /\ Files!IsFile(r) /\ Files!FindFree(s, q \o Rest(p, r)) # {}}}
                 /\ wanted' = [r \in Files!Paths |->
                      IF p = q THEN wanted[r]
                      ELSE IF ~Files!Undisturbed(s, {p, q})
                        THEN (IF Files!Overlap(p, r) \/ Files!Overlap(q, r) THEN Unknown ELSE wanted[r])
                      ELSE IF Files!IsPrefix(q, r)
                        THEN (IF p \o Rest(q, r) \in Files!Paths THEN wanted[p \o Rest(q, r)] ELSE None)
                      ELSE IF Files!IsPrefix(p, r) THEN None ELSE wanted[r]]
                 /\ renameFrom' = [renameFrom EXCEPT ![s] = None]
                 /\ UNCHANGED workingDir
    BY <1>4, ZenonT(30) DEF Files!Rnto, Rest
  <2>2. Instantly(s)
    BY <2>1, InstantIsInstant
  <2>3. p \in Files!Paths /\ q \in Files!Paths
    BY <2>1 DEF FilesType, Files!CanRename, Files!Changeable
  <2>4. TreeType(tree')
    BY <1>1, <2>1, <2>3, MovedType
  <2>5. wanted' \in [Files!Paths -> Texts \cup {None, Unknown}]
    <3>1. \A r \in Files!Paths : wanted[r] \in Texts \cup {None, Unknown}
      BY DEF FilesType
    <3> QED BY <2>1, <3>1
  <2>6. raced' \subseteq Files!Files
    <3>1. \A r \in DOMAIN tree : Files!IsFile(r) => tree[r] \in Files!Files
      BY <1>1 DEF TreeType, Files!IsFile
    <3> QED BY <2>1, <3>1 DEF FilesType
  <2>7. renameFrom' \in [Sessions -> Files!Paths \cup {None}]
    BY <2>1 DEF FilesType
  <2> QED BY <2>1, <2>2, <2>4, <2>5, <2>6, <2>7 DEF FilesType, TreeType, Instantly
<1>5. CASE Files!RntoFails(s)
  <2>1. /\ Files!Instant(s) /\ UNCHANGED <<tree, workingDir, cmd, wanted, raced>>
        /\ renameFrom' = [renameFrom EXCEPT ![s] = None]
    BY <1>5 DEF Files!RntoFails
  <2>2. Instantly(s)
    BY <2>1, InstantIsInstant
  <2> QED BY <2>1, <2>2 DEF FilesType, Instantly
<1>6. CASE Files!Cwd(s) \/ Files!Cdup(s)
  <2>1. PICK p : /\ Files!Instant(s) /\ UNCHANGED <<tree, renameFrom, cmd, wanted, raced>>
                 /\ Files!Exists(p) /\ workingDir' = [workingDir EXCEPT ![s] = p]
    BY <1>6 DEF Files!Cwd, Files!Cdup, Files!IsDirectory
  <2>2. Instantly(s)
    BY <2>1, InstantIsInstant
  <2>3. workingDir' \in [Sessions -> Files!Paths]
    BY <1>1, <2>1 DEF FilesType
  <2> QED BY <2>1, <2>2, <2>3 DEF FilesType, Instantly
<1> QED BY <1>2, <1>3, <1>4, <1>5, <1>6

\* The four commands that take several steps begin here.
Begins(s) ==
  \E verb \in Verbs, pc2 \in {"check", "open", "enter"}, p \in Files!Paths :
    /\ Files!Begin(s, verb, pc2, p)
    /\ verb = "RMD" <=> pc2 = "enter"
    /\ verb = "RETR" <=> pc2 = "open"

LEMMA BeginsSo ==
  ASSUME NEW s \in Sessions, NEW verb \in Verbs, NEW pc2 \in {"check", "open", "enter"},
         NEW p \in Files!Paths, Files!Begin(s, verb, pc2, p),
         verb = "RMD" <=> pc2 = "enter", verb = "RETR" <=> pc2 = "open"
  PROVE  Begins(s)
BY DEF Begins

\* An RMD that is refused at once.
Refuses(s) ==
  Files!Instant(s) /\ UNCHANGED <<tree, workingDir, renameFrom, cmd, wanted, raced>>

WorkSteps(s) ==
  \/ Files!StoreChecksDirectory(s) \/ Files!StoreChecksExists(s) \/ Files!StoreDeletes(s)
  \/ Files!StoreOpens(s) \/ Files!StoreCannotOpen(s) \/ Files!StoreConnects(s)
  \/ Files!StoreReceives(s) \/ Files!StoreEnds(s) \/ Files!StoreCannotWrite(s)
  \/ Files!RetrOpens(s) \/ Files!RetrConnects(s) \/ Files!RetrSends(s) \/ Files!RetrReplies(s)
  \/ Files!DeleChecksDirectory(s) \/ Files!DeleDeletes(s)
  \/ Files!RmdEnters(s) \/ Files!RmdLoops(s)

InstantSteps(s) ==
  \/ Refuses(s) \/ Files!Mkd(s) \/ Files!Rnfr(s) \/ Files!Rnto(s) \/ Files!RntoFails(s)
  \/ Files!Cwd(s) \/ Files!Cdup(s)

LEMMA StepsOfFiles ==
  ASSUME FilesType, Files!Next
  PROVE  ~killed /\ \E s \in Sessions :
           Begins(s) \/ WorkSteps(s) \/ Files!RmdLists(s) \/ InstantSteps(s)
<1>1. PICK s \in Sessions :
        \/ Files!Store(s) \/ Files!Retr(s) \/ Files!Dele(s) \/ Files!Rmd(s)
        \/ Files!Mkd(s) \/ Files!Rnfr(s) \/ Files!Rnto(s) \/ Files!RntoFails(s)
        \/ Files!Cwd(s) \/ Files!Cdup(s)
  BY DEF Files!Next
<1>2. ASSUME Files!BeginStore(s) PROVE Begins(s)
  <2>1. PICK verb \in {"STOR", "APPE"}, p \in Files!Paths : Files!Begin(s, verb, "check", p)
    BY <1>2 DEF Files!BeginStore
  <2> QED BY <2>1, BeginsSo DEF Verbs
<1>3. ASSUME Files!BeginRetr(s) PROVE Begins(s)
  <2>1. PICK p \in Files!Paths : Files!Begin(s, "RETR", "open", p)
    BY <1>3 DEF Files!BeginRetr
  <2> QED BY <2>1, BeginsSo DEF Verbs
<1>4. ASSUME Files!BeginDele(s) PROVE Begins(s)
  <2>1. PICK p \in Files!Paths : Files!Begin(s, "DELE", "check", p)
    BY <1>4 DEF Files!BeginDele
  <2> QED BY <2>1, BeginsSo DEF Verbs
<1>5. ASSUME Files!BeginRmd(s) PROVE Begins(s) \/ InstantSteps(s)
  <2>1. \/ \E p \in Files!Paths : Files!Begin(s, "RMD", "enter", p)
        \/ Refuses(s)
    BY <1>5 DEF Files!BeginRmd, Refuses, Files!ownVars
  <2>2. ASSUME NEW p \in Files!Paths, Files!Begin(s, "RMD", "enter", p) PROVE Begins(s)
    BY <2>2, BeginsSo DEF Verbs
  <2>3. Refuses(s) => InstantSteps(s)
    BY DEF InstantSteps
  <2> QED BY <2>1, <2>2, <2>3
<1>6. ~killed
  BY DEF Files!Next
<1>7. Begins(s) \/ WorkSteps(s) \/ Files!RmdLists(s) \/ InstantSteps(s)
  BY <1>1, <1>2, <1>3, <1>4, <1>5
     DEF Files!Store, Files!Retr, Files!Dele, Files!Rmd, WorkSteps, InstantSteps
<1> QED BY <1>6, <1>7

LEMMA WorkStepsWork ==
  ASSUME FilesType, AllFit, NEW s \in Sessions, WorkSteps(s)
  PROVE  Works(s)
BY StoreChecksDirectoryWorks, StoreChecksExistsWorks, StoreDeletesWorks, StoreOpensWorks,
   StoreCannotOpenWorks, StoreConnectsWorks, StoreReceivesWorks, StoreEndsWorks,
   RetrOpensWorks, RetrConnectsWorks, RetrSendsWorks, RetrRepliesWorks,
   DeleChecksDirectoryWorks, DeleDeletesWorks, RmdEntersWorks, RmdLoopsWorks DEF WorkSteps

LEMMA InstantStepsType ==
  ASSUME FilesType, AllFit, NEW s \in Sessions, InstantSteps(s)
  PROVE  FilesType' /\ AllFit' /\ Instantly(s)
<1>1. CASE Refuses(s)
  <2>1. Instantly(s)
    BY <1>1, InstantIsInstant DEF Refuses
  <2> QED BY <1>1, <2>1 DEF Refuses, FilesType, Instantly
<1> QED BY <1>1, InstantType DEF InstantSteps

LEMMA FilesTypeNext == FilesType /\ AllFit /\ Files!Next => FilesType' /\ AllFit'
<1> SUFFICES ASSUME FilesType, AllFit, Files!Next PROVE FilesType' /\ AllFit'
  OBVIOUS
<1>1. PICK s \in Sessions : Begins(s) \/ WorkSteps(s) \/ Files!RmdLists(s) \/ InstantSteps(s)
  BY StepsOfFiles
<1>2. ~killed
  BY StepsOfFiles
<1>3. CASE Begins(s)
  BY <1>3, BeginOfCommand DEF Begins
<1> QED BY <1>1, <1>2, <1>3, WorkStepsWork, RmdListsWorks, InstantStepsType DEF Works

LEMMA FilesTypeInit == Files!Init => FilesType /\ AllFit
<1> SUFFICES ASSUME Files!Init PROVE FilesType /\ AllFit
  OBVIOUS
<1>1. PICK p \in Kept : tree = [q \in {q \in Files!Paths : Files!IsPrefix(q, p)} |->
                                  IF q = p THEN 0 ELSE None]
  BY DEF Files!Init
<1>2. 0 \in Files!Files /\ started \in 0..MaxCommands /\ started = 0
  BY FilesConstants DEF Files!Init
<1>3. tree \in [DOMAIN tree -> Files!Files \cup {None}] /\ DOMAIN tree \subseteq Files!Paths
  BY <1>1, <1>2
<1>4. [k \in 1..MaxChunks |-> <<0, k>>] \in Texts /\ <<>> \in Texts
  <2>1. \A k \in 1..MaxChunks : <<0, k>> \in Files!Chunks
    BY FilesConstants DEF Files!Chunks
  <2>2. [k \in 1..MaxChunks |-> <<0, k>>] \in [1..MaxChunks -> Files!Chunks]
    BY <2>1
  <2> QED BY <2>2, SeqDef, FilesConstants DEF Texts
<1>5. data = [f \in Files!Files |-> IF f = 0 THEN [k \in 1..MaxChunks |-> <<0, k>>] ELSE <<>>]
  BY DEF Files!Init
<1>6. data \in [Files!Files -> Texts]
  BY <1>4, <1>5
<1>7. wanted \in [Files!Paths -> Texts \cup {None, Unknown}]
  <2>1. \A q \in Files!Paths : Files!Content(q) \in Texts \cup {None, Unknown}
    BY <1>3, <1>6 DEF Files!Content, Files!IsFile, Files!Exists
  <2> QED BY <2>1 DEF Files!Init
<1>8. cmd \in [Sessions -> Commands] /\ AllFit
  BY IdleIsCommand DEF Files!Init, AllFit
<1>9. /\ workingDir \in [Sessions -> Files!Paths] /\ renameFrom \in [Sessions -> Files!Paths \cup {None}]
      /\ killed \in BOOLEAN /\ writers \in [Files!Files -> SUBSET (0..MaxCommands)]
      /\ raced \subseteq Files!Files
  BY DEF Files!Init, Files!Paths
<1> QED BY <1>2, <1>3, <1>6, <1>7, <1>8, <1>9 DEF FilesType

-----------------------------------------------------------------------------
(***************************************************************************)
(* What a step of a command at work does to the tree: it takes one path    *)
(* away or fills it, at or below its target.                               *)
(***************************************************************************)
Fresh(c) == c.verb \in {"STOR", "APPE"} /\ c.pc \in {"check", "exists", "delete", "open"}
Found(c) == c.verb = "STOR" /\ c.pc = "open"
Lists(c) == c.verb = "RMD" /\ c.pc = "list"

ChangesBelow(s) ==
  \E r \in Files!Paths :
    /\ Files!IsPrefix(cmd[s].target, r)
    /\ \A q \in (DOMAIN tree) \ {r} : q \in DOMAIN tree' /\ tree'[q] = tree[q]

Shrinks == DOMAIN tree' \subseteq DOMAIN tree /\ \A q \in DOMAIN tree' : tree'[q] = tree[q]

\* Of the steps that make no file.
MakesNone(s) ==
  /\ UNCHANGED <<writers, raced>> /\ Shrinks
  /\ Fresh(cmd'[s]) => Fresh(cmd[s])
  /\ Found(cmd'[s]) => cmd'[s].target \notin DOMAIN tree'
  /\ Lists(cmd'[s]) => /\ Files!Entry(s) \in DOMAIN tree' /\ tree'[Files!Entry(s)] = None
                       /\ cmd'[s].entry = cmd[s].entry
  /\ tree' = tree \/ (Files!Changes(cmd[s]) /\ ChangesBelow(s))

LEMMA NoneIsMadeIfTreeStays ==
  ASSUME NEW s \in Sessions, UNCHANGED <<tree, writers, raced>>,
         ~Fresh(cmd'[s]) /\ ~Lists(cmd'[s])
  PROVE  MakesNone(s)
BY DEF MakesNone, Shrinks, Fresh, Found

LEMMA NoneIsMadeIfTreeShrinks ==
  ASSUME FilesType, AllFit, NEW s \in Sessions, UNCHANGED <<writers, raced>>,
         cmd[s].pc # "idle", cmd[s].verb # "RETR",
         NEW r \in Files!Paths, Files!IsPrefix(cmd[s].target, r),
         tree' \in {tree, Files!Without({r})},
         ~Fresh(cmd'[s]) /\ ~Lists(cmd'[s])
  PROVE  MakesNone(s)
<1>1. TreeType(tree) /\ Files!Changes(cmd[s])
  BY AtWork DEF Files!Changes
<1>2. Shrinks /\ \A q \in (DOMAIN tree) \ {r} : q \in DOMAIN tree' /\ tree'[q] = tree[q]
  <2>1. /\ DOMAIN Files!Without({r}) = (DOMAIN tree) \ {r}
        /\ \A q \in (DOMAIN tree) \ {r} : Files!Without({r})[q] = tree[q]
    BY <1>1, WithoutSome
  <2>2. CASE tree' = tree
    BY <2>2 DEF Shrinks
  <2>3. CASE tree' = Files!Without({r})
    BY <2>1, <2>3 DEF Shrinks
  <2> QED BY <2>2, <2>3
<1>3. ChangesBelow(s)
  BY <1>2 DEF ChangesBelow
<1> QED BY <1>1, <1>2, <1>3 DEF MakesNone, Fresh, Found

LEMMA IdleIsQuiet == ~Fresh(Files!Idle) /\ ~Lists(Files!Idle)
BY DEF Files!Idle, Fresh, Lists

\* A step after which a command of its verb has no stores to check and lists nothing.
LEMMA QuietPcs ==
  ASSUME FilesType, NEW s \in Sessions, NEW c,
         \/ c = Files!Idle
         \/ c.pc \notin {"check", "exists", "delete", "open", "list"}
         \/ c.verb = "RETR"
         \/ c.verb = "DELE"
         \/ c.verb = "RMD" /\ c.pc # "list"
  PROVE  ~Fresh(c) /\ ~Lists(c)
BY IdleIsQuiet DEF Fresh, Lists

LEMMA StoreChecksMakeNone ==
  ASSUME FilesType, AllFit, NEW s \in Sessions,
         Files!StoreChecksDirectory(s) \/ Files!StoreChecksExists(s)
  PROVE  MakesNone(s)
<1>1. /\ cmd[s].verb \in {"STOR", "APPE"} /\ cmd[s].pc \in {"check", "exists"}
      /\ UNCHANGED <<tree, writers, raced>> /\ cmd[s] \in Commands /\ DOMAIN cmd = Sessions
  BY DEF Files!StoreChecksDirectory, Files!StoreChecksExists, Files!Storing, Files!fsVars,
         Files!historyVars, FilesType
<1>2. CASE Files!EndsWithoutChange(s)
  BY <1>1, <1>2, EndWithoutChange, IdleIsQuiet, NoneIsMadeIfTreeStays
<1>3. CASE Files!StoreChecksDirectory(s) /\ Files!Goes(s, "exists")
  <2>1. cmd'[s] = [cmd[s] EXCEPT !.pc = "exists"]
    BY <1>1, <1>3 DEF Files!Goes
  <2> QED BY <1>1, <2>1 DEF Commands, MakesNone, Shrinks, Fresh, Found, Lists
<1>4. CASE Files!StoreChecksExists(s)
  <2>1. cmd'[s] = [cmd[s] EXCEPT !.pc =
                     IF Files!Exists(cmd[s].target) /\ cmd[s].verb = "STOR" THEN "delete" ELSE "open"]
    BY <1>1, <1>4 DEF Files!Goes, Files!StoreChecksExists
  <2> QED BY <1>1, <2>1 DEF Commands, MakesNone, Shrinks, Fresh, Found, Lists, Files!Exists
<1> QED BY <1>2, <1>3, <1>4 DEF Files!StoreChecksDirectory

LEMMA StoreDeletesMakesNone ==
  ASSUME FilesType, AllFit, NEW s \in Sessions, Files!StoreDeletes(s)
  PROVE  MakesNone(s)
<1>1. /\ cmd[s].verb \in {"STOR", "APPE"} /\ cmd[s].pc = "delete"
      /\ UNCHANGED <<writers, raced>> /\ cmd[s] \in Commands /\ DOMAIN cmd = Sessions
  BY DEF Files!StoreDeletes, Files!Storing, FilesType
<1>2. CASE Files!EndsWithoutChange(s) /\ UNCHANGED tree
  BY <1>1, <1>2, EndWithoutChange, IdleIsQuiet, NoneIsMadeIfTreeStays
<1>3. CASE tree' = Files!Without({cmd[s].target}) /\ Files!Goes(s, "open")
  <2> DEFINE p == cmd[s].target
  <2>1. cmd'[s] = [cmd[s] EXCEPT !.pc = "open"]
    BY <1>1, <1>3 DEF Files!Goes
  <2>2. /\ cmd'[s].target = p /\ cmd'[s].pc = "open" /\ cmd'[s].verb = cmd[s].verb
    BY <1>1, <2>1 DEF Commands
  <2>3. TreeType(tree) /\ p \in Files!Paths /\ Files!IsPrefix(p, p) /\ Files!Changes(cmd[s])
    BY <1>1, AtWork, PrefixIsOrder DEF Files!Changes
  <2>4. /\ DOMAIN tree' = (DOMAIN tree) \ {p} /\ \A q \in DOMAIN tree' : tree'[q] = tree[q]
    BY <1>3, <2>3, WithoutSome
  <2>5. ChangesBelow(s)
    BY <2>3, <2>4 DEF ChangesBelow
  <2> QED BY <1>1, <2>2, <2>3, <2>4, <2>5 DEF MakesNone, Shrinks, Fresh, Found, Lists
<1> QED BY <1>2, <1>3 DEF Files!StoreDeletes

LEMMA StoreTransfersMakeNone ==
  ASSUME FilesType, AllFit, NEW s \in Sessions,
         \/ Files!StoreCannotOpen(s) \/ Files!StoreConnects(s) \/ Files!StoreReceives(s)
         \/ Files!StoreEnds(s) \/ Files!StoreCannotWrite(s)
  PROVE  MakesNone(s)
<1>1. /\ cmd[s].verb \in {"STOR", "APPE"} /\ cmd[s].pc \in {"open", "connect", "receive"}
      /\ UNCHANGED <<tree, writers, raced>> /\ cmd[s] \in Commands /\ DOMAIN cmd = Sessions
  BY DEF Files!StoreCannotOpen, Files!StoreConnects, Files!StoreReceives, Files!StoreEnds,
         Files!StoreCannotWrite, Files!Storing, Files!fsVars, Files!historyVars, FilesType
<1>2. \/ cmd' = [cmd EXCEPT ![s] = Files!Idle]
      \/ cmd' = [cmd EXCEPT ![s] = [cmd[s] EXCEPT !.pc = "receive"]]
      \/ \E b, n : cmd[s].pc = "receive" /\ cmd' = [cmd EXCEPT ![s] = [cmd[s] EXCEPT !.pos = n, !.bytes = b]]
  <2>1. CASE Files!StoreReceives(s)
    BY <2>1, Zenon DEF Files!StoreReceives, Files!Storing
  <2>2. CASE Files!StoreConnects(s)
    BY <2>2, Zenon DEF Files!StoreConnects, Files!Ends, Files!Goes
  <2>3. CASE Files!StoreCannotOpen(s) \/ Files!StoreEnds(s) \/ Files!StoreCannotWrite(s)
    BY <2>3, Zenon
       DEF Files!StoreCannotOpen, Files!StoreEnds, Files!StoreCannotWrite,
           Files!EndsWithoutChange, Files!Ends
  <2> QED BY <2>1, <2>2, <2>3, Zenon
<1>3. cmd'[s] = Files!Idle \/ cmd'[s].pc = "receive"
  BY <1>1, <1>2, Zenon DEF Commands
<1> QED BY <1>1, <1>3, QuietPcs, NoneIsMadeIfTreeStays

LEMMA RetrMakesNone ==
  ASSUME FilesType, AllFit, NEW s \in Sessions,
         Files!RetrOpens(s) \/ Files!RetrConnects(s) \/ Files!RetrSends(s) \/ Files!RetrReplies(s)
  PROVE  MakesNone(s)
<1>1. /\ cmd[s].verb = "RETR" /\ UNCHANGED <<tree, writers, raced>> /\ WorkSteps(s)
  BY DEF Files!RetrOpens, Files!RetrConnects, Files!RetrSends, Files!RetrReplies,
         Files!Retrieving, Files!fsVars, Files!historyVars, WorkSteps
<1>2. cmd'[s] = Files!Idle \/ cmd'[s].verb = "RETR"
  BY <1>1, WorkStepsWork DEF Works, Worked
<1> QED BY <1>1, <1>2, QuietPcs, NoneIsMadeIfTreeStays

LEMMA DeleMakesNone ==
  ASSUME FilesType, AllFit, NEW s \in Sessions,
         Files!DeleChecksDirectory(s) \/ Files!DeleDeletes(s)
  PROVE  MakesNone(s)
<1>1. /\ cmd[s].verb = "DELE" /\ cmd[s].pc # "idle" /\ UNCHANGED <<writers, raced>> /\ WorkSteps(s)
      /\ tree' \in {tree, Files!Without({cmd[s].target})}
  BY DEF Files!DeleChecksDirectory, Files!DeleDeletes, Files!fsVars, WorkSteps
<1>2. cmd'[s] = Files!Idle \/ cmd'[s].verb = "DELE"
  BY <1>1, WorkStepsWork DEF Works, Worked
<1>3. cmd[s].target \in Files!Paths /\ Files!IsPrefix(cmd[s].target, cmd[s].target)
  BY <1>1, AtWork, PrefixIsOrder
<1> QED BY <1>1, <1>2, <1>3, QuietPcs, NoneIsMadeIfTreeShrinks

LEMMA RmdMakesNone ==
  ASSUME FilesType, AllFit, NEW s \in Sessions,
         Files!RmdEnters(s) \/ Files!RmdLoops(s)
  PROVE  MakesNone(s)
<1>1. /\ cmd[s].verb = "RMD" /\ cmd[s].pc \in {"enter", "loop"} /\ UNCHANGED <<writers, raced>>
      /\ WorkSteps(s) /\ cmd[s] \in Commands /\ DOMAIN cmd = Sessions
  BY Zenon DEF Files!RmdEnters, Files!RmdLoops, Files!Removing, WorkSteps, FilesType
<1>2. cmd'[s] = Files!Idle \/ cmd'[s].verb = "RMD"
  BY <1>1, WorkStepsWork DEF Works, Worked
<1>3. Files!Entry(s) \in Files!Paths /\ Files!IsPrefix(cmd[s].target, Files!Entry(s))
  BY <1>1, EntryIsBelow
<1>4. CASE Files!Goes(s, "list") /\ Files!IsDirectory(Files!Entry(s)) /\ UNCHANGED tree
  <2>1. cmd'[s] = [cmd[s] EXCEPT !.pc = "list"]
    BY <1>1, <1>4 DEF Files!Goes
  <2> QED BY <1>1, <1>4, <2>1
          DEF Commands, MakesNone, Shrinks, Fresh, Found, Lists, Files!IsDirectory, Files!Exists
<1>5. ASSUME NEW success, NEW frames, Files!Returns(s, success, frames)
      PROVE  ~Fresh(cmd'[s]) /\ ~Lists(cmd'[s])
  <2>1. \/ cmd' = [cmd EXCEPT ![s] = Files!Idle]
        \/ \E f : cmd' = [cmd EXCEPT ![s] = [cmd[s] EXCEPT !.pc = "loop", !.frames = f]]
    BY <1>5, Zenon DEF Files!Returns, Files!Ends
  <2>2. cmd'[s] = Files!Idle \/ cmd'[s].pc = "loop"
    BY <1>1, <2>1, Zenon DEF Commands
  <2> QED BY <2>2, QuietPcs
<1>6. CASE /\ tree' = IF Files!CanDelete(Files!Entry(s)) THEN Files!Without({Files!Entry(s)}) ELSE tree
           /\ Files!Returns(s, Files!CanDelete(Files!Entry(s)), cmd[s].frames)
  <2>1. tree' \in {tree, Files!Without({Files!Entry(s)})}
    BY <1>6
  <2> QED BY <1>1, <1>3, <1>5, <1>6, <2>1, NoneIsMadeIfTreeShrinks
<1>7. CASE Files!RmdEnters(s)
  BY <1>4, <1>6, <1>7 DEF Files!RmdEnters
<1>8. CASE Files!RmdLoops(s)
  <2> DEFINE frames == cmd[s].frames
             top == Files!Last(frames)
  <2>1. \/ /\ UNCHANGED tree
           /\ \E e, f : cmd' = [cmd EXCEPT ![s] = [cmd[s] EXCEPT !.pc = "enter", !.entry = e, !.frames = f]]
        \/ /\ tree' \in {tree, Files!Without({top.dir})}
           /\ Files!Returns(s, top.success /\ Files!CanDelete(top.dir), Files!Front(frames))
    <3>1. ASSUME NEW e \in top.todo, UNCHANGED <<tree, wanted>>,
                 cmd' = [cmd EXCEPT ![s].pc = "enter", ![s].entry = e,
                                    ![s].frames[Len(frames)].todo = @ \ {e}]
          PROVE  \E d, f : cmd' = [cmd EXCEPT ![s] = [cmd[s] EXCEPT !.pc = "enter", !.entry = d, !.frames = f]]
      <4>1. cmd' = [cmd EXCEPT ![s] = [cmd[s] EXCEPT !.pc = "enter", !.entry = e,
                                        !.frames = [frames EXCEPT ![Len(frames)].todo = @ \ {e}]]]
        BY <3>1
      <4> QED BY <4>1, Zenon
    <3> QED BY <1>8, <3>1, Zenon DEF Files!RmdLoops
  <2>2. CASE /\ UNCHANGED tree
             /\ \E e, f : cmd' = [cmd EXCEPT ![s] = [cmd[s] EXCEPT !.pc = "enter", !.entry = e, !.frames = f]]
    <3>1. cmd'[s].pc = "enter"
      BY <1>1, <2>2 DEF Commands
    <3> QED BY <1>1, <2>2, <3>1, QuietPcs, NoneIsMadeIfTreeStays
  <2>3. CASE /\ tree' \in {tree, Files!Without({top.dir})}
             /\ Files!Returns(s, top.success /\ Files!CanDelete(top.dir), Files!Front(frames))
    <3>1. /\ frames \in Seq(Frames) /\ frames # <<>> /\ FramesFit(cmd[s].target, frames)
      BY <1>1, <1>8, AtWork, Zenon DEF Files!RmdLoops, Files!Removing, Commands, Fits, FramesFit
    <3>2. top.dir \in Files!Paths /\ Files!IsPrefix(cmd[s].target, top.dir)
      <4> HIDE DEF frames
      <4>1. Len(frames) \in 1..Len(frames) /\ top = frames[Len(frames)] /\ frames[Len(frames)] \in Frames
        BY <3>1 DEF Files!Last
      <4> QED BY <3>1, <4>1 DEF FramesFit, Frames
    <3>3. ~Fresh(cmd'[s]) /\ ~Lists(cmd'[s])
      BY <1>5, <2>3
    <3> HIDE DEF top
    <3> QED BY <1>1, <2>3, <3>2, <3>3, NoneIsMadeIfTreeShrinks
  <2> QED BY <2>1, <2>2, <2>3, Zenon
<1> QED BY <1>7, <1>8

LEMMA WorkMakesNone ==
  ASSUME FilesType, AllFit, NEW s \in Sessions, WorkSteps(s), ~Files!StoreOpens(s)
  PROVE  MakesNone(s)
BY StoreChecksMakeNone, StoreDeletesMakesNone, StoreTransfersMakeNone, RetrMakesNone,
   DeleMakesNone, RmdMakesNone DEF WorkSteps

-----------------------------------------------------------------------------
(***************************************************************************)
(* Which STORs write into one file.  A file is named after the command     *)
(* that makes it, so that it is new; a STOR that is about to open a name   *)
(* has found it free, and what has come there since is in raced.           *)
(***************************************************************************)
Used(f) == writers[f] # {} \/ \E p \in DOMAIN tree : tree[p] = f

Named ==
  /\ \A s \in Sessions : Fresh(cmd[s]) => cmd[s].number \in 1..started
  /\ \A s \in Sessions : \A t \in Sessions :
       s # t /\ Fresh(cmd[s]) /\ Fresh(cmd[t]) => cmd[s].number # cmd[t].number
  /\ \A f \in Files!Files : Used(f) =>
       f <= started /\ \A s \in Sessions : Fresh(cmd[s]) => cmd[s].number # f

FoundFree ==
  \A s \in Sessions :
    Found(cmd[s]) /\ Files!IsFile(cmd[s].target) => tree[cmd[s].target] \in raced

StoresInv == Named /\ FoundFree /\ Files!StoresDoNotMix

\* No file comes into the tree.
NoNewFile == \A p \in DOMAIN tree' : tree'[p] # None => \E q \in DOMAIN tree : tree[q] = tree'[p]

LEMMA NamedStays ==
  ASSUME FilesType, Named, started \in Nat, started' \in Nat, started <= started',
         NoNewFile, UNCHANGED writers,
         \A t \in Sessions : Fresh(cmd'[t]) => Fresh(cmd[t]) /\ cmd'[t].number = cmd[t].number
  PROVE  Named'
<1>1. ASSUME NEW f \in Files!Files, Used(f)' PROVE Used(f)
  BY <1>1, FilesConstants DEF Used, NoNewFile
<1>2. \A n \in Nat : n <= started => n <= started'
  OBVIOUS
<1>3. \A n \in 1..started : n \in 1..started'
  OBVIOUS
<1>4. \A f \in Files!Files : f \in Nat
  BY FilesConstants
<1>5. \A f \in Files!Files : Used(f)' =>
        f <= started' /\ \A s \in Sessions : Fresh(cmd'[s]) => cmd'[s].number # f
  BY <1>1, <1>2, <1>4 DEF Named
<1> QED BY <1>3, <1>5 DEF Named

LEMMA StoresBegin ==
  ASSUME FilesType, AllFit, StoresInv, NEW s \in Sessions, Begins(s)
  PROVE  StoresInv'
<1>1. PICK verb \in Verbs, pc2 \in {"check", "open", "enter"}, p \in Files!Paths :
        /\ Files!Begin(s, verb, pc2, p)
        /\ verb = "RETR" <=> pc2 = "open"
  BY DEF Begins
<1>2. Begun(s, verb, pc2, p)
  BY <1>1, BeginOfCommand
<1>3. UNCHANGED <<tree, writers, raced>>
  BY <1>1 DEF Files!Begin, Files!fsVars, Files!historyVars
<1>4. \A t \in Sessions \ {s} : /\ Fresh(cmd'[t]) <=> Fresh(cmd[t])
                                /\ Found(cmd'[t]) <=> Found(cmd[t])
                                /\ cmd'[t].number = cmd[t].number /\ cmd'[t].target = cmd[t].target
  BY <1>2 DEF Begun, SameCommand, Fresh, Found
<1>5. /\ started \in Nat /\ started' = started + 1 /\ cmd'[s].number = started + 1
      /\ ~Found(cmd'[s])
  BY <1>1, <1>2, FilesConstants DEF Begun, Found, FilesType
<1>6. \A n \in 1..started : n \in 1..started' /\ n # started + 1
  BY <1>5
<1>7. \A n \in Nat : n <= started => n <= started' /\ n # started + 1
  BY <1>5
<1>8. started + 1 \in 1..started'
  BY <1>5
<1>9. \A f \in Files!Files : f \in Nat /\ (Used(f)' <=> Used(f))
  BY <1>3, FilesConstants DEF Used
<1>10. Named'
  <2>1. \A t \in Sessions : Fresh(cmd'[t]) => cmd'[t].number \in 1..started'
    BY <1>4, <1>5, <1>6, <1>8 DEF StoresInv, Named
  <2>2. \A t \in Sessions : \A u \in Sessions :
          t # u /\ Fresh(cmd'[t]) /\ Fresh(cmd'[u]) => cmd'[t].number # cmd'[u].number
    BY <1>4, <1>5, <1>6 DEF StoresInv, Named
  <2>3. \A f \in Files!Files : Used(f)' =>
          f <= started' /\ \A t \in Sessions : Fresh(cmd'[t]) => cmd'[t].number # f
    BY <1>4, <1>5, <1>7, <1>9 DEF StoresInv, Named
  <2> QED BY <2>1, <2>2, <2>3 DEF Named
<1>11. FoundFree'
  BY <1>3, <1>4, <1>5 DEF StoresInv, FoundFree, Files!IsFile, Files!Exists
<1>12. Files!StoresDoNotMix'
  BY <1>3 DEF StoresInv, Files!StoresDoNotMix
<1> QED BY <1>10, <1>11, <1>12 DEF StoresInv

LEMMA StoresWork ==
  ASSUME FilesType, AllFit, StoresInv, NEW s \in Sessions, Worked(s), MakesNone(s)
  PROVE  StoresInv'
<1>1. started \in Nat /\ started' = started
  BY FilesConstants DEF FilesType, Worked
<1>2. NoNewFile
  BY DEF NoNewFile, MakesNone, Shrinks
<1>3. \A t \in Sessions : Fresh(cmd'[t]) => Fresh(cmd[t]) /\ cmd'[t].number = cmd[t].number
  BY IdleIsQuiet DEF Worked, MakesNone
<1>4. Named'
  BY <1>1, <1>2, <1>3, NamedStays DEF StoresInv, MakesNone
<1>5. FoundFree'
  <2> SUFFICES ASSUME NEW t \in Sessions, Found(cmd'[t]), Files!IsFile(cmd[t].target)'
               PROVE  tree'[cmd'[t].target] \in raced'
    BY DEF FoundFree, Files!IsFile, Files!Exists
  <2>1. t # s
    BY DEF MakesNone, Files!IsFile, Files!Exists
  <2>2. cmd'[t] = cmd[t]
    BY <2>1 DEF Worked
  <2>3. /\ cmd[t].target \in DOMAIN tree' /\ tree'[cmd[t].target] # None
        /\ cmd[t].target \in DOMAIN tree /\ tree'[cmd[t].target] = tree[cmd[t].target]
    BY <2>2 DEF MakesNone, Shrinks, Files!IsFile, Files!Exists
  <2>4. Found(cmd[t]) /\ Files!IsFile(cmd[t].target)
    BY <2>2, <2>3 DEF Files!IsFile, Files!Exists
  <2>5. tree[cmd[t].target] \in raced
    BY <2>4 DEF StoresInv, FoundFree
  <2> QED BY <2>2, <2>3, <2>5 DEF MakesNone
<1>6. Files!StoresDoNotMix'
  BY DEF StoresInv, Files!StoresDoNotMix, MakesNone
<1> QED BY <1>4, <1>5, <1>6 DEF StoresInv

LEMMA StoresList ==
  ASSUME FilesType, AllFit, StoresInv, NEW s \in Sessions, ~killed, Files!RmdLists(s)
  PROVE  StoresInv'
<1>1. UNCHANGED <<tree, started, writers, raced>> /\ cmd[s].verb = "RMD" /\ DOMAIN cmd = Sessions
  BY DEF Files!RmdLists, Files!Removing, Files!fsVars, Files!historyVars, FilesType
<1>2. cmd[s] \in Commands
  BY DEF FilesType
<1>3. cmd' = cmd \/ \E f : cmd' = [cmd EXCEPT ![s] = [cmd[s] EXCEPT !.pc = "loop", !.frames = f]]
  BY Zenon DEF Files!RmdLists
<1>4. ~Fresh(cmd'[s]) /\ ~Found(cmd'[s]) /\ \A t \in Sessions \ {s} : cmd'[t] = cmd[t]
  BY <1>1, <1>2, <1>3, Zenon DEF Fresh, Found, Commands
<1>5. Named'
  <2>1. NoNewFile
    BY <1>1 DEF NoNewFile
  <2>2. started \in Nat /\ started' \in Nat /\ started <= started'
    BY <1>1, FilesConstants DEF FilesType
  <2> QED BY <1>1, <1>4, <2>1, <2>2, NamedStays DEF StoresInv
<1>6. FoundFree'
  BY <1>1, <1>4 DEF StoresInv, FoundFree, Files!IsFile, Files!Exists
<1>7. Files!StoresDoNotMix'
  BY <1>1 DEF StoresInv, Files!StoresDoNotMix
<1> QED BY <1>5, <1>6, <1>7 DEF StoresInv

LEMMA StoresOpen ==
  ASSUME FilesType, AllFit, StoresInv, NEW s \in Sessions, Files!StoreOpens(s)
  PROVE  StoresInv'
<1> DEFINE p == cmd[s].target
           isFile == Files!IsFile(p)
           f == IF isFile THEN tree[p] ELSE cmd[s].number
<1>1. /\ cmd[s].verb \in {"STOR", "APPE"} /\ cmd[s].pc = "open" /\ tree' = Files!With(p, f)
      /\ cmd' = [cmd EXCEPT ![s] = [cmd[s] EXCEPT !.pc = "connect", !.file = f]]
      /\ writers' = IF cmd[s].verb = "STOR" THEN [writers EXCEPT ![f] = @ \cup {cmd[s].number}]
                    ELSE writers
      /\ raced' = IF ~isFile /\ Files!FindFree(s, p) # {} THEN raced \cup {f} ELSE raced
      /\ UNCHANGED started
  BY DEF Files!StoreOpens, Files!Storing, Files!ownVars
<1>2. /\ cmd[s] \in Commands /\ p \in Files!Paths /\ TreeType(tree) /\ Fresh(cmd[s])
      /\ cmd[s].number \in Files!Files /\ DOMAIN cmd = Sessions
  BY <1>1, AtWork, FilesConstants DEF Fresh, FilesType
<1>3. /\ f \in Files!Files /\ f # None
      /\ isFile => f = tree[p] /\ p \in DOMAIN tree
      /\ ~isFile => f = cmd[s].number
  BY <1>2, FilesConstants DEF TreeType, Files!IsFile, Files!Exists
<1>4. isFile => Used(f)
  BY <1>3 DEF Used
<1> HIDE DEF f, isFile
<1>5. /\ DOMAIN tree' = (DOMAIN tree) \cup {p} /\ tree'[p] = f
      /\ \A q \in (DOMAIN tree) \ {p} : tree'[q] = tree[q]
  <2>1. /\ tree' = Files!With(p, f) /\ TreeType(tree) /\ p \in Files!Paths
        /\ f \in Files!Files \cup {None}
    BY <1>1, <1>2, <1>3
  <2> HIDE DEF p
  <2> QED BY ONLY <2>1, WithOne
<1>6. ~Fresh(cmd'[s]) /\ ~Found(cmd'[s]) /\ \A t \in Sessions \ {s} : cmd'[t] = cmd[t]
  BY <1>1, <1>2 DEF Fresh, Found, Commands
<1>7. \A g \in Files!Files : Used(g)' => Used(g) \/ g = f
  <2>1. \A g \in Files!Files : g # f => writers'[g] = writers[g]
    BY <1>1 DEF FilesType
  <2> QED BY <1>5, <2>1 DEF Used
<1>8. f <= started /\ \A t \in Sessions \ {s} : Fresh(cmd[t]) => cmd[t].number # f
  <2>1. CASE isFile
    BY <1>3, <1>4, <2>1 DEF StoresInv, Named
  <2>2. CASE ~isFile
    <3>1. f \in 1..started
      BY <1>2, <1>3, <2>2 DEF StoresInv, Named
    <3> QED BY <1>2, <1>3, <2>2, <3>1, FilesConstants DEF StoresInv, Named, FilesType
  <2> QED BY <2>1, <2>2
<1>9. Named'
  <2>1. \A t \in Sessions : Fresh(cmd'[t]) => t # s /\ Fresh(cmd[t]) /\ cmd'[t] = cmd[t]
    BY <1>6
  <2> QED BY <1>1, <1>7, <1>8, <2>1 DEF StoresInv, Named
<1>10. FoundFree'
  <2> SUFFICES ASSUME NEW t \in Sessions, Found(cmd'[t]), Files!IsFile(cmd[t].target)'
               PROVE  tree'[cmd'[t].target] \in raced'
    BY DEF FoundFree, Files!IsFile, Files!Exists
  <2>1. t # s /\ cmd'[t] = cmd[t] /\ Found(cmd[t])
    BY <1>6
  <2>2. CASE cmd[t].target = p /\ ~isFile
    <3>1. t \in Files!FindFree(s, p)
      BY <2>1, <2>2 DEF Files!FindFree, Found
    <3> QED BY <1>1, <1>5, <2>1, <2>2, <3>1
  <2>3. CASE cmd[t].target = p /\ isFile
    <3>1. tree[p] \in raced
      BY <2>1, <2>3 DEF StoresInv, FoundFree, isFile
    <3> QED BY <1>1, <1>3, <1>5, <2>1, <2>3, <3>1
  <2>4. CASE cmd[t].target # p
    <3>1. cmd[t].target \in DOMAIN tree /\ tree'[cmd[t].target] = tree[cmd[t].target]
      BY <1>5, <2>1, <2>4 DEF Files!IsFile, Files!Exists
    <3>2. Files!IsFile(cmd[t].target)
      BY <2>1, <3>1 DEF Files!IsFile, Files!Exists
    <3> QED BY <1>1, <2>1, <3>1, <3>2 DEF StoresInv, FoundFree
  <2> QED BY <2>2, <2>3, <2>4
<1>11. Files!StoresDoNotMix'
  <2>1. raced \subseteq raced'
    BY <1>1
  <2>2. CASE isFile /\ cmd[s].verb = "STOR"
    <3>1. Found(cmd[s])
      BY <1>1, <2>2 DEF Found
    <3>2. f \in raced
      BY <1>3, <2>2, <3>1 DEF StoresInv, FoundFree, isFile
    <3>3. \A g \in Files!Files \ {f} : writers'[g] = writers[g]
      BY <1>1 DEF FilesType
    <3> QED BY <2>1, <3>2, <3>3 DEF StoresInv, Files!StoresDoNotMix
  <2>3. CASE ~isFile /\ cmd[s].verb = "STOR"
    <3>1. writers[f] = {}
      BY <1>2, <1>3, <2>3 DEF StoresInv, Named, Used
    <3>2. writers'[f] = {cmd[s].number}
      BY <1>1, <1>3, <2>3, <3>1 DEF FilesType
    <3>3. \A g \in Files!Files \ {f} : writers'[g] = writers[g]
      BY <1>1 DEF FilesType
    <3> QED BY <2>1, <3>2, <3>3 DEF StoresInv, Files!StoresDoNotMix
  <2>4. CASE cmd[s].verb # "STOR"
    BY <1>1, <2>1, <2>4 DEF StoresInv, Files!StoresDoNotMix
  <2> QED BY <2>2, <2>3, <2>4
<1> QED BY <1>9, <1>10, <1>11 DEF StoresInv

\* A file that a rename takes along comes from the tree, and gets into raced
\* where a STOR has found its new name free.
LEMMA StoresInstant ==
  ASSUME FilesType, AllFit, StoresInv, NEW s \in Sessions, InstantSteps(s)
  PROVE  StoresInv'
<1>1. Instantly(s) /\ TreeType(tree)
  BY InstantStepsType DEF FilesType, TreeType
<1>2. /\ started \in Nat /\ started' \in Nat /\ started <= started' /\ UNCHANGED writers
      /\ cmd[s].pc = "idle"
  BY <1>1, FilesConstants DEF Instantly, FilesType
<1>3. \A t \in Sessions : /\ Fresh(cmd'[t]) => Fresh(cmd[t])
                          /\ Found(cmd'[t]) => Found(cmd[t]) /\ t # s
                          /\ cmd'[t].number = cmd[t].number /\ cmd'[t].target = cmd[t].target
  BY <1>1, <1>2 DEF Instantly, SameCommand, Fresh, Found
<1>4. \/ UNCHANGED <<tree, raced>>
      \/ /\ UNCHANGED raced
         /\ \E p \in Files!Paths : ~Files!Exists(p) /\ tree' = Files!With(p, None)
      \/ Files!Rnto(s)
  BY DEF InstantSteps, Refuses, Files!Mkd, Files!Rnfr, Files!RntoFails, Files!Cwd, Files!Cdup,
         Files!CanMake, Files!Changeable
<1>5. CASE UNCHANGED <<tree, raced>>
  <2>1. NoNewFile
    BY <1>5 DEF NoNewFile
  <2>2. Named'
    BY <1>2, <1>3, <2>1, NamedStays DEF StoresInv
  <2>3. FoundFree'
    BY <1>3, <1>5 DEF StoresInv, FoundFree, Files!IsFile, Files!Exists
  <2>4. Files!StoresDoNotMix'
    BY <1>2, <1>5 DEF StoresInv, Files!StoresDoNotMix
  <2> QED BY <2>2, <2>3, <2>4 DEF StoresInv
<1>6. ASSUME NEW p \in Files!Paths, ~Files!Exists(p), tree' = Files!With(p, None), UNCHANGED raced
      PROVE  StoresInv'
  <2>1. /\ DOMAIN tree' = (DOMAIN tree) \cup {p} /\ tree'[p] = None
        /\ \A q \in (DOMAIN tree) \ {p} : tree'[q] = tree[q]
    BY <1>1, <1>6, WithOne
  <2>2. \A q \in DOMAIN tree' : tree'[q] # None => q \in DOMAIN tree /\ tree'[q] = tree[q]
    BY <2>1
  <2>3. NoNewFile
    BY <2>2 DEF NoNewFile
  <2>4. Named'
    BY <1>2, <1>3, <2>3, NamedStays DEF StoresInv
  <2>5. FoundFree'
    BY <1>3, <1>6, <2>2 DEF StoresInv, FoundFree, Files!IsFile, Files!Exists
  <2>6. Files!StoresDoNotMix'
    BY <1>2, <1>6 DEF StoresInv, Files!StoresDoNotMix
  <2> QED BY <2>4, <2>5, <2>6 DEF StoresInv
<1>7. CASE Files!Rnto(s)
  <2> DEFINE p == renameFrom[s]
  <2>1. PICK q : /\ p # None /\ Files!CanRename(p, q) /\ tree' = Files!Moved(p, q)
                 /\ raced' = raced \cup {tree[r] : r \in {r \in DOMAIN tree :
                      Files!IsPrefix(p, r) /\ Files!IsFile(r) /\ Files!FindFree(s, q \o Rest(p, r)) # {}}}
    BY <1>7 DEF Files!Rnto, Rest
  <2>2. p \in Files!Paths /\ q \in Files!Paths
    BY <2>1 DEF FilesType, Files!CanRename, Files!Changeable
  <2> HIDE DEF p
  <2>3. \A e \in DOMAIN tree' :
          \/ \E r \in DOMAIN tree : /\ Files!IsPrefix(p, r) /\ e = q \o Rest(p, r)
                                    /\ tree'[e] = tree[r]
          \/ e \in DOMAIN tree /\ tree'[e] = tree[e]
    BY <1>1, <2>1, <2>2, MovedFrom
  <2>4. NoNewFile
    BY <2>3 DEF NoNewFile
  <2>5. Named'
    BY <1>2, <1>3, <2>4, NamedStays DEF StoresInv
  <2>6. FoundFree'
    <3> SUFFICES ASSUME NEW t \in Sessions, Found(cmd'[t]), Files!IsFile(cmd[t].target)'
                 PROVE  tree'[cmd'[t].target] \in raced'
      BY DEF FoundFree, Files!IsFile, Files!Exists
    <3> DEFINE e == cmd[t].target
    <3>1. Found(cmd[t]) /\ t # s /\ cmd'[t].target = e
      BY <1>3
    <3>2. e \in DOMAIN tree' /\ tree'[e] # None
      BY <3>1 DEF Files!IsFile, Files!Exists
    <3>3. CASE e \in DOMAIN tree /\ tree'[e] = tree[e]
      BY <2>1, <3>1, <3>2, <3>3 DEF StoresInv, FoundFree, Files!IsFile, Files!Exists
    <3>4. ASSUME NEW r \in DOMAIN tree, Files!IsPrefix(p, r), e = q \o Rest(p, r), tree'[e] = tree[r]
          PROVE  tree'[cmd'[t].target] \in raced'
      <4>1. t \in Files!FindFree(s, q \o Rest(p, r))
        BY <3>1, <3>4 DEF Files!FindFree, Found
      <4>2. Files!IsFile(r)
        BY <3>2, <3>4 DEF Files!IsFile, Files!Exists
      <4>3. tree[r] \in raced'
        BY <2>1, <3>4, <4>1, <4>2
      <4> QED BY <3>1, <3>4, <4>3
    <3> QED BY <2>3, <3>2, <3>3, <3>4
  <2>7. Files!StoresDoNotMix'
    BY <1>2, <2>1 DEF StoresInv, Files!StoresDoNotMix
  <2> QED BY <2>5, <2>6, <2>7 DEF StoresInv
<1> QED BY <1>4, <1>5, <1>6, <1>7

LEMMA StoresInit == Files!Init => StoresInv
<1> SUFFICES ASSUME Files!Init PROVE StoresInv
  OBVIOUS
<1>1. \A s \in Sessions : ~Fresh(cmd[s]) /\ ~Found(cmd[s])
  BY IdleIsQuiet DEF Files!Init, Fresh, Found, Files!Idle
<1>2. \A f \in Files!Files : writers[f] = {} /\ (Used(f) => f = 0)
  BY FilesConstants DEF Files!Init, Used
<1>3. started = 0
  BY DEF Files!Init
<1> QED BY <1>1, <1>2, <1>3 DEF StoresInv, Named, FoundFree, Files!StoresDoNotMix

LEMMA StoresNext == FilesType /\ AllFit /\ StoresInv /\ Files!Next => StoresInv'
<1> SUFFICES ASSUME FilesType, AllFit, StoresInv, Files!Next PROVE StoresInv'
  OBVIOUS
<1>1. PICK s \in Sessions : Begins(s) \/ WorkSteps(s) \/ Files!RmdLists(s) \/ InstantSteps(s)
  BY StepsOfFiles
<1>2. ~killed
  BY StepsOfFiles
<1>3. CASE WorkSteps(s) /\ ~Files!StoreOpens(s)
  BY <1>3, WorkStepsWork, WorkMakesNone, StoresWork DEF Works
<1> QED BY <1>1, <1>2, <1>3, StoresBegin, StoresOpen, StoresList, StoresInstant

-----------------------------------------------------------------------------
(***************************************************************************)
(* Who is alone, and what a removal lists.  A directory that an RMD is     *)
(* about to list is there unless another command is at work at, above or   *)
(* below its target, and then neither of the two is alone.                 *)
(***************************************************************************)
Apart ==
  \A s \in Sessions : \A t \in Sessions :
    s # t /\ cmd[s].pc # "idle" /\ cmd[s].alone /\ Files!Changes(cmd[t]) =>
      ~Files!Overlap(cmd[s].target, cmd[t].target)

Listing ==
  \A s \in Sessions : Lists(cmd[s]) /\ cmd[s].alone => Files!IsDirectory(Files!Entry(s))

RemovalInv == Apart /\ Listing /\ Files!CrashNeedsOther

LEMMA OverlapIsSymmetric ==
  ASSUME NEW p, NEW q PROVE Files!Overlap(p, q) <=> Files!Overlap(q, p)
BY DEF Files!Overlap

LEMMA RemovalBegin ==
  ASSUME FilesType, AllFit, RemovalInv, ~killed, NEW s \in Sessions, Begins(s)
  PROVE  RemovalInv'
<1>1. PICK verb \in Verbs, pc2 \in {"check", "open", "enter"}, p \in Files!Paths :
        Files!Begin(s, verb, pc2, p)
  BY DEF Begins
<1>2. Begun(s, verb, pc2, p)
  BY <1>1, BeginOfCommand
<1>3. UNCHANGED <<tree, killed>>
  BY <1>1 DEF Files!Begin, Files!fsVars
<1>4. \A t \in Sessions \ {s} : SameCommand(cmd[t], cmd'[t])
  BY <1>2 DEF Begun
<1>5. \A t \in Sessions \ {s} : Files!Changes(cmd'[t]) <=> Files!Changes(cmd[t])
  BY <1>4 DEF SameCommand, Files!Changes
<1>6. Apart'
  <2> SUFFICES ASSUME NEW t \in Sessions, NEW u \in Sessions, t # u, cmd'[t].pc # "idle",
                      cmd'[t].alone, Files!Changes(cmd'[u])
               PROVE  ~Files!Overlap(cmd'[t].target, cmd'[u].target)
    BY DEF Apart
  <2>1. CASE t # s /\ u # s
    BY <1>4, <1>5, <2>1 DEF RemovalInv, Apart, SameCommand
  <2>2. CASE t = s
    BY <1>2, <1>4, <1>5, <2>2 DEF Begun, SameCommand
  <2>3. CASE u = s
    <3>1. verb # "RETR" /\ cmd'[s].target = p /\ cmd'[t].target = cmd[t].target
      BY <1>2, <1>4, <2>3 DEF Begun, Files!Changes, SameCommand
    <3> QED BY <1>2, <2>3, <3>1, OverlapIsSymmetric DEF Begun
  <2> QED BY <2>1, <2>2, <2>3
<1>7. Listing'
  <2> SUFFICES ASSUME NEW t \in Sessions, Lists(cmd'[t]), cmd'[t].alone
               PROVE  Files!IsDirectory(Files!Entry(t))'
    BY DEF Listing
  <2>1. t # s
    BY <1>2 DEF Begun, Lists
  <2>2. Lists(cmd[t]) /\ cmd[t].alone /\ Files!Entry(t)' = Files!Entry(t)
    BY <1>4, <2>1 DEF SameCommand, Lists, Files!Entry
  <2> QED BY <1>3, <2>2 DEF RemovalInv, Listing, Files!IsDirectory, Files!Exists
<1> QED BY <1>3, <1>6, <1>7 DEF RemovalInv, Files!CrashNeedsOther

\* What a command at work takes away is no other one's that is alone.
LEMMA OthersKeepTheirs ==
  ASSUME FilesType, AllFit, Apart, NEW s \in Sessions, NEW t \in Sessions, t # s,
         Files!Changes(cmd[s]), ChangesBelow(s), Lists(cmd[t]), cmd[t].alone,
         Files!IsDirectory(Files!Entry(t))
  PROVE  Files!Entry(t) \in DOMAIN tree' /\ tree'[Files!Entry(t)] = None
<1> DEFINE e == Files!Entry(t)
<1>1. PICK r \in Files!Paths :
        /\ Files!IsPrefix(cmd[s].target, r)
        /\ \A q \in (DOMAIN tree) \ {r} : q \in DOMAIN tree' /\ tree'[q] = tree[q]
  BY DEF ChangesBelow
<1>2. cmd[t].pc # "idle" /\ cmd[s].pc # "idle"
  BY DEF Lists, Files!Changes
<1>3. e \in Seq(Known) /\ Files!IsPrefix(cmd[t].target, e)
  BY <1>2, EntryIsBelow
<1>4. cmd[t].target \in Seq(Known) /\ cmd[s].target \in Seq(Known)
  BY <1>2, AtWork
<1>5. e # r
  <2>1. ~Files!Overlap(cmd[t].target, cmd[s].target)
    BY <1>2 DEF Apart
  <2> QED BY <1>1, <1>3, <1>4, <2>1, PrefixIsOrder
<1>6. e \in DOMAIN tree /\ tree[e] = None
  BY DEF Files!IsDirectory, Files!Exists
<1> QED BY <1>1, <1>5, <1>6

LEMMA ApartAfterWork ==
  ASSUME FilesType, AllFit, Apart, NEW s \in Sessions, Worked(s)
  PROVE  Apart'
<1>1. \A t \in Sessions : cmd'[t].pc # "idle" =>
        /\ cmd[t].pc # "idle" /\ cmd'[t].verb = cmd[t].verb
        /\ cmd'[t].target = cmd[t].target /\ cmd'[t].alone = cmd[t].alone
  BY IdleIsCommand DEF Worked
<1> QED BY <1>1 DEF Apart, Files!Changes

LEMMA RemovalWork ==
  ASSUME FilesType, AllFit, RemovalInv, ~killed, UNCHANGED killed, NEW s \in Sessions,
         Worked(s), Lists(cmd'[s]) => /\ Files!Entry(s) \in DOMAIN tree' /\ tree'[Files!Entry(s)] = None
                                      /\ cmd'[s].entry = cmd[s].entry,
         tree' = tree \/ (Files!Changes(cmd[s]) /\ ChangesBelow(s))
  PROVE  RemovalInv'
<1>1. Apart'
  BY ApartAfterWork DEF RemovalInv
<1>2. Listing'
  <2> SUFFICES ASSUME NEW t \in Sessions, Lists(cmd'[t]), cmd'[t].alone
               PROVE  Files!IsDirectory(Files!Entry(t))'
    BY DEF Listing
  <2>1. CASE t = s
    <3>1. cmd'[s].target = cmd[s].target
      BY <2>1, IdleIsQuiet DEF Worked
    <3> QED BY <2>1, <3>1 DEF Files!Entry, Files!IsDirectory, Files!Exists
  <2>2. CASE t # s
    <3>1. cmd'[t] = cmd[t]
      BY <2>2 DEF Worked
    <3>2. Files!Entry(t)' = Files!Entry(t)
      BY <3>1 DEF Files!Entry
    <3>3. Files!IsDirectory(Files!Entry(t))
      BY <3>1 DEF RemovalInv, Listing
    <3>4. Files!Entry(t) \in DOMAIN tree' /\ tree'[Files!Entry(t)] = None
      <4>1. CASE tree' = tree
        BY <3>3, <4>1 DEF Files!IsDirectory, Files!Exists
      <4>2. CASE Files!Changes(cmd[s]) /\ ChangesBelow(s)
        BY <2>2, <3>1, <3>3, <4>2, OthersKeepTheirs DEF RemovalInv
      <4> QED BY <4>1, <4>2
    <3> QED BY <3>2, <3>4 DEF Files!IsDirectory, Files!Exists
  <2> QED BY <2>1, <2>2
<1> QED BY <1>1, <1>2 DEF RemovalInv, Files!CrashNeedsOther

LEMMA RemovalOpen ==
  ASSUME FilesType, AllFit, RemovalInv, ~killed, NEW s \in Sessions, Files!StoreOpens(s)
  PROVE  RemovalInv'
<1> DEFINE p == cmd[s].target
           f == IF Files!IsFile(p) THEN tree[p] ELSE cmd[s].number
<1>1. /\ cmd[s].verb \in {"STOR", "APPE"} /\ cmd[s].pc = "open" /\ tree' = Files!With(p, f)
      /\ cmd' = [cmd EXCEPT ![s] = [cmd[s] EXCEPT !.pc = "connect", !.file = f]]
      /\ UNCHANGED killed
  BY DEF Files!StoreOpens, Files!Storing
<1>2. /\ cmd[s] \in Commands /\ p \in Files!Paths /\ TreeType(tree)
      /\ Files!IsPrefix(p, p) /\ DOMAIN cmd = Sessions
  BY <1>1, AtWork, PrefixIsOrder DEF FilesType
<1>3. Worked(s)
  BY StoreOpensWorks DEF Works
<1>4. ~Lists(cmd'[s])
  BY <1>1, <1>2 DEF Lists, Commands
<1>5. Files!Changes(cmd[s])
  BY <1>1 DEF Files!Changes
<1>6. ChangesBelow(s)
  <2>1. \A q \in (DOMAIN tree) \ {p} : q \in DOMAIN tree' /\ tree'[q] = tree[q]
    BY <1>1 DEF Files!With
  <2> QED BY <1>2, <2>1 DEF ChangesBelow
<1> QED BY <1>1, <1>3, <1>4, <1>5, <1>6, RemovalWork

LEMMA RemovalLists ==
  ASSUME FilesType, AllFit, RemovalInv, ~killed, NEW s \in Sessions, Files!RmdLists(s)
  PROVE  RemovalInv'
<1>1. /\ Files!Removing(s, "list") /\ UNCHANGED tree /\ DOMAIN cmd = Sessions
  BY DEF Files!RmdLists, Files!fsVars, FilesType
<1>2. CASE /\ killed' = TRUE /\ UNCHANGED cmd
           /\ ~(Files!IsDirectory(Files!Entry(s)) /\ Files!Entry(s) \notin Unlistable)
  <2>1. Apart' /\ Listing'
    BY <1>1, <1>2 DEF RemovalInv, Apart, Listing, Files!Entry, Files!IsDirectory, Files!Exists
  <2>2. ~cmd[s].alone \/ Files!Entry(s) \in Unlistable
    BY <1>1, <1>2 DEF RemovalInv, Listing, Lists, Files!Removing
  <2>3. Files!Removing(s, "list")' /\ (~cmd'[s].alone \/ Files!Entry(s)' \in Unlistable)
    BY <1>1, <1>2, <2>2 DEF Files!Removing, Files!Entry
  <2>4. Files!CrashNeedsOther'
    BY <2>3 DEF Files!CrashNeedsOther
  <2> QED BY <2>1, <2>4 DEF RemovalInv
<1>3. ASSUME UNCHANGED killed, NEW f,
             cmd' = [cmd EXCEPT ![s] = [cmd[s] EXCEPT !.pc = "loop", !.frames = f]]
      PROVE  RemovalInv'
  <2>1. cmd[s] \in Commands
    BY DEF FilesType
  <2>2. ~Lists(cmd'[s])
    BY <1>1, <1>3, <2>1 DEF Lists, Commands
  <2>3. Worked(s)
    BY <1>3, RmdListsWorks
  <2> QED BY <1>1, <1>3, <2>2, <2>3, RemovalWork
<1> QED BY <1>2, <1>3, Zenon DEF Files!RmdLists

LEMMA RemovalInstant ==
  ASSUME FilesType, AllFit, RemovalInv, ~killed, NEW s \in Sessions, InstantSteps(s)
  PROVE  RemovalInv'
<1>1. Instantly(s) /\ TreeType(tree)
  BY InstantStepsType DEF FilesType, TreeType
<1>2. \A t \in Sessions : SameCommand(cmd[t], cmd'[t]) /\ (cmd[t].pc # "idle" => t # s)
  BY <1>1 DEF Instantly
<1>3. Apart'
  BY <1>2 DEF RemovalInv, Apart, SameCommand, Files!Changes
<1>4. UNCHANGED killed
  BY <1>1 DEF Instantly
<1>5. SUFFICES ASSUME NEW t \in Sessions, Lists(cmd'[t]), cmd'[t].alone
               PROVE  Files!Entry(t) \in DOMAIN tree' /\ tree'[Files!Entry(t)] = None
  <2>1. ASSUME NEW t \in Sessions PROVE Files!Entry(t)' = Files!Entry(t)
    BY <1>2 DEF SameCommand, Files!Entry
  <2> QED BY <1>3, <1>4, <2>1
          DEF RemovalInv, Listing, Files!CrashNeedsOther, Files!IsDirectory, Files!Exists
<1> DEFINE e == Files!Entry(t)
<1>6. Lists(cmd[t]) /\ cmd[t].alone /\ cmd[t].pc # "idle" /\ t # s
  BY <1>2, <1>5 DEF SameCommand, Lists
<1>7. e \in DOMAIN tree /\ tree[e] = None
  BY <1>6 DEF RemovalInv, Listing, Files!IsDirectory, Files!Exists
<1>8. e \in Seq(Known) /\ Files!IsPrefix(cmd[t].target, e) /\ cmd[t].target \in Seq(Known)
  BY <1>6, EntryIsBelow, AtWork
<1> HIDE DEF e
<1>9. \/ UNCHANGED tree
      \/ \E p \in Files!Paths : ~Files!Exists(p) /\ tree' = Files!With(p, None)
      \/ Files!Rnto(s)
  BY DEF InstantSteps, Refuses, Files!Mkd, Files!Rnfr, Files!RntoFails, Files!Cwd, Files!Cdup,
         Files!CanMake, Files!Changeable
<1>10. ASSUME NEW p \in Files!Paths, ~Files!Exists(p), tree' = Files!With(p, None)
       PROVE  e \in DOMAIN tree' /\ tree'[e] = None
  BY <1>7, <1>10 DEF Files!With, Files!Exists
<1>11. ASSUME Files!Rnto(s) PROVE e \in DOMAIN tree' /\ tree'[e] = None
  <2> DEFINE p == renameFrom[s]
  <2>1. PICK q : /\ p # None /\ Files!CanRename(p, q) /\ tree' = Files!Moved(p, q)
                 /\ cmd' = Files!Disturb(s, {p, q})
    BY <1>11 DEF Files!Rnto
  <2>2. p \in Files!Paths /\ q \in Files!Paths
    BY <2>1 DEF FilesType, Files!CanRename, Files!Changeable
  <2>3. ~Files!Overlap(p, cmd[t].target) /\ ~Files!Overlap(q, cmd[t].target)
    <3> DEFINE P == {p, q}
    <3>1. cmd' = Files!Disturb(s, P) /\ p \in P /\ q \in P
      BY <2>1
    <3> HIDE DEF P
    <3>2. cmd'[t].alone /\ t # s /\ cmd'[t].pc # "idle" =>
            \A r \in P : ~Files!Overlap(r, cmd[t].target)
      BY <3>1, DisturbOthers
    <3>3. cmd'[t].alone /\ t # s /\ cmd'[t].pc # "idle"
      BY <1>5, <1>6 DEF Lists
    <3> QED BY <3>1, <3>2, <3>3
  <2> HIDE DEF p
  <2>4. p \in Seq(Known) /\ q \in Seq(Known)
    BY <2>2, PathsAreSequences
  <2>5. ~Files!IsPrefix(p, e) /\ ~Files!IsPrefix(q, e)
    BY <1>8, <2>3, <2>4, PrefixIsOrder
  <2> QED BY <1>1, <1>7, <2>1, <2>2, <2>5, MovedFrom
<1> QED BY <1>7, <1>9, <1>10, <1>11 DEF e

LEMMA RemovalInit == Files!Init => RemovalInv
<1> SUFFICES ASSUME Files!Init PROVE RemovalInv
  OBVIOUS
<1>1. \A s \in Sessions : cmd[s].pc = "idle" /\ ~Lists(cmd[s])
  BY IdleIsQuiet, IdleIsCommand DEF Files!Init
<1> QED BY <1>1 DEF RemovalInv, Apart, Listing, Files!CrashNeedsOther, Files!Init

LEMMA RemovalNext == FilesType /\ AllFit /\ RemovalInv /\ Files!Next => RemovalInv'
<1> SUFFICES ASSUME FilesType, AllFit, RemovalInv, Files!Next PROVE RemovalInv'
  OBVIOUS
<1>1. PICK s \in Sessions : Begins(s) \/ WorkSteps(s) \/ Files!RmdLists(s) \/ InstantSteps(s)
  BY StepsOfFiles
<1>2. ~killed
  BY StepsOfFiles
<1>3. CASE WorkSteps(s) /\ ~Files!StoreOpens(s)
  <2>1. UNCHANGED killed
    BY <1>3, Zenon DEF WorkSteps, Files!StoreChecksDirectory, Files!StoreChecksExists, Files!StoreDeletes,
       Files!StoreCannotOpen, Files!StoreConnects, Files!StoreReceives, Files!StoreEnds,
       Files!StoreCannotWrite, Files!RetrOpens, Files!RetrConnects, Files!RetrSends,
       Files!RetrReplies, Files!DeleChecksDirectory, Files!DeleDeletes, Files!RmdEnters,
       Files!RmdLoops
  <2>2. Worked(s) /\ MakesNone(s)
    BY <1>3, WorkStepsWork, WorkMakesNone DEF Works
  <2> QED BY <1>2, <2>1, <2>2, RemovalWork DEF MakesNone
<1> QED BY <1>1, <1>2, <1>3, RemovalBegin, RemovalOpen, RemovalLists, RemovalInstant

-----------------------------------------------------------------------------
\* The part of SessionSpec that is about files.
FilesInv == part = "files" => FilesType /\ AllFit /\ StoresInv /\ RemovalInv

LEMMA FilesInvAlways == SessionSpec => []FilesInv
<1>1. SessionInit => FilesInv
  BY FilesTypeInit, StoresInit, RemovalInit DEF SessionInit, FilesInv
<1>2. FilesInv /\ [SessionNext]_sessionsVars => FilesInv'
  <2> SUFFICES ASSUME FilesInv, [SessionNext]_sessionsVars, part' = "files"
               PROVE  (FilesType /\ AllFit /\ StoresInv /\ RemovalInv)'
    BY DEF FilesInv
  <2>1. CASE part = "files" /\ Files!Next
    BY <2>1, FilesTypeNext, StoresNext, RemovalNext DEF FilesInv
  <2>2. CASE UNCHANGED <<part, filesVars>>
    BY <2>2
       DEF FilesInv, filesVars, FilesType, AllFit, Fits, StoresInv, Named, FoundFree, Used, Fresh,
           Found, RemovalInv, Apart, Listing, Lists, Files!StoresDoNotMix, Files!CrashNeedsOther,
           Files!Changes, Files!IsFile, Files!IsDirectory, Files!Exists, Files!Entry,
           Files!Removing
  <2> QED BY <2>1, <2>2 DEF SessionNext, sessionsVars
<1> QED BY <1>1, <1>2, PTL DEF SessionSpec

\* CmdAbstractStore.java:66-76, CmdRMD.java:85-93 - two STORs write into one file only
\* where it got its name while one of them had found the name free, and listFiles()
\* answers null only for a directory that cannot be read or that another command took
\* away: for any number of sessions and commands, and any tree.
THEOREM StoresAndRemovals == SessionSpec => []SessionsStayApart
<1>1. FilesInv => SessionsStayApart
  BY DEF FilesInv, SessionsStayApart, StoresInv, RemovalInv
<1> QED BY <1>1, FilesInvAlways, PTL

-----------------------------------------------------------------------------
(***************************************************************************)
(* More of paths: what is above a path, and what a rename makes of it.     *)
(***************************************************************************)
LEMMA SameElements ==
  ASSUME NEW S, NEW p \in Seq(S), NEW q \in Seq(S), Len(p) = Len(q),
         \A i \in 1..Len(p) : p[i] = q[i]
  PROVE  p = q
OBVIOUS

LEMMA PrefixesAreEqual ==
  ASSUME NEW S, NEW p \in Seq(S), NEW q \in Seq(S), Files!IsPrefix(p, q), Files!IsPrefix(q, p)
  PROVE  p = q
<1>1. Len(p) \in Nat /\ Len(q) \in Nat
  OBVIOUS
<1>2. Len(p) = Len(q) /\ \A i \in 1..Len(p) : p[i] = q[i]
  BY <1>1, PrefixMeans
<1> QED BY <1>2

LEMMA PrefixesArePaths ==
  ASSUME NEW p \in Files!Paths, NEW q \in Seq(Known), Files!IsPrefix(q, p)
  PROVE  q \in Files!Paths
<1> DEFINE m == Len(q)
<1>1. m \in Nat /\ p \in Seq(Known) /\ m <= Len(p) /\ \A i \in 1..m : q[i] = p[i]
  BY PathsAreSequences, PrefixMeans
<1>2. \A k \in 1..2 : Files!Storage[k] = IF k = 1 THEN "storage" ELSE "0"
  BY DEF Files!Storage
<1>3. CASE m <= 2 /\ \A i \in 1..m : q[i] = Files!Storage[i]
  <2>1. m = 0 => q = <<>>
    OBVIOUS
  <2>2. m = 1 => q = <<"storage">>
    BY <1>2, <1>3
  <2>3. m = 2 => q = <<"storage", "0">>
    BY <1>2, <1>3
  <2>4. q \in {Files!Root, Files!Chroot, Files!Storage}
    <3>1. m = 0 \/ m = 1 \/ m = 2
      <4> HIDE DEF m
      <4> QED BY <1>1, <1>3
    <3> QED BY <2>1, <2>2, <2>3, <3>1 DEF Files!Root, Files!Chroot, Files!Storage
  <2> QED BY <2>4 DEF Files!Paths
<1>4. CASE p \in {Files!Root, Files!Chroot, Files!Storage}
  <2>1. Len(p) <= 2 /\ \A i \in 1..Len(p) : p[i] = Files!Storage[i]
    <3>1. ASSUME p = Files!Root PROVE Len(p) = 0
      BY <3>1 DEF Files!Root
    <3>2. ASSUME p = Files!Chroot PROVE Len(p) = 1 /\ p[1] = "storage"
      BY <3>2 DEF Files!Chroot
    <3>3. ASSUME p = Files!Storage PROVE Len(p) = 2
      BY <3>3 DEF Files!Storage
    <3>4. CASE p = Files!Root
      BY <3>1, <3>4
    <3>5. CASE p = Files!Chroot
      <4>1. Files!Storage[1] = "storage"
        BY <1>2
      <4>2. Len(p) = 1 /\ p[1] = "storage"
        BY <3>2, <3>5
      <4>3. \A i \in 1..1 : i = 1
        OBVIOUS
      <4> QED BY <4>1, <4>2, <4>3
    <3>6. CASE p = Files!Storage
      BY <3>3, <3>6
    <3> QED BY <1>4, <3>4, <3>5, <3>6
  <2>2. m <= 2 /\ \A i \in 1..m : q[i] = Files!Storage[i]
    BY <1>1, <2>1
  <2> QED BY <1>3, <2>2
<1>5. ASSUME NEW n \in 1..MaxDepth, NEW x \in [1..n -> Names], p = Files!Storage \o x
      PROVE  q \in Files!Paths
  <2>1. n \in Nat /\ x \in Seq(Names) /\ Len(x) = n /\ MaxDepth \in Nat
    BY SeqDef, PartsAssumption DEF Files!FileSystemAssumption
  <2>2. /\ Len(p) = n + 2
        /\ \A i \in 1..2 : p[i] = Files!Storage[i]
        /\ \A i \in 1..n : p[i + 2] = x[i]
    BY <1>5, <2>1 DEF Files!Storage
  <2>3. CASE m <= 2
    BY <1>1, <1>3, <2>2, <2>3
  <2>4. CASE m > 2
    <3> DEFINE y == [i \in 1..(m - 2) |-> q[i + 2]]
    <3>1. m - 2 \in 1..MaxDepth /\ m - 2 <= n
      BY <1>1, <2>1, <2>2, <2>4
    <3>2. \A i \in 1..(m - 2) : q[i + 2] = x[i] /\ x[i] \in Names
      BY <1>1, <2>1, <2>2, <3>1
    <3>3. y \in [1..(m - 2) -> Names] /\ \A i \in 1..(m - 2) : y[i] = q[i + 2]
      BY <3>2
    <3> HIDE DEF y
    <3>4. y \in Seq(Names) /\ Len(y) = m - 2 /\ \A i \in 1..(m - 2) : y[i] = q[i + 2]
      <4>1. m - 2 \in Nat
        BY <1>1, <2>4
      <4> DEFINE k == m - 2
      <4>2. k \in Nat /\ y \in [1..k -> Names]
        BY <3>3, <4>1
      <4> HIDE DEF k
      <4>3. y \in Seq(Names) /\ Len(y) = k
        BY <4>2, SeqDef
      <4> QED BY <3>3, <4>3 DEF k
    <3>5. q = Files!Storage \o y
      <4>1. Len(Files!Storage \o y) = m
        BY <1>1, <3>1, <3>4 DEF Files!Storage
      <4>2. \A i \in 1..m : q[i] = (Files!Storage \o y)[i]
        <5>1. \A i \in 1..2 : q[i] = (Files!Storage \o y)[i]
          BY <1>1, <2>2, <2>4, <3>4 DEF Files!Storage
        <5>2. \A i \in 3..m : q[i] = (Files!Storage \o y)[i]
          BY <1>1, <3>1, <3>4 DEF Files!Storage
        <5>3. \A i \in 1..m : i \in 1..2 \/ i \in 3..m
          BY <1>1, <2>4
        <5> QED BY <5>1, <5>2, <5>3
      <4>3. Files!Storage \o y \in Seq(Known)
        BY <3>4 DEF Files!Storage, Known
      <4> QED BY <4>1, <4>2, <4>3, SameElements
    <3> QED BY <3>1, <3>3, <3>5 DEF Files!Paths
  <2> QED BY <1>1, <2>1, <2>3, <2>4
<1> QED BY <1>4, <1>5 DEF Files!Paths

\* A path and its front.
LEMMA FrontIsAbove ==
  ASSUME NEW S, NEW q \in Seq(S), q # <<>>
  PROVE  /\ Files!Front(q) \in Seq(S) /\ Files!Below(Files!Front(q), q)
         /\ \A d \in Seq(S) : Files!Below(d, q) => Files!IsPrefix(d, Files!Front(q))
<1> DEFINE f == Files!Front(q)
<1>1. f \in Seq(S) /\ Len(f) = Len(q) - 1 /\ \A i \in 1..(Len(q) - 1) : f[i] = q[i]
  BY FrontIsThere
<1>2. Len(q) \in Nat /\ Len(q) > 0
  OBVIOUS
<1> HIDE DEF f
<1>3. Files!IsPrefix(f, q) /\ f # q
  BY <1>1, <1>2, PrefixMeans
<1>4. ASSUME NEW d \in Seq(S), Files!IsPrefix(d, q), d # q
      PROVE  Files!IsPrefix(d, f)
  <2>1. Len(d) \in Nat /\ Len(d) <= Len(q) /\ \A i \in 1..Len(d) : d[i] = q[i]
    BY <1>4, PrefixMeans
  <2>2. Len(d) # Len(q)
    BY <1>4, <2>1
  <2>3. Len(d) <= Len(f) /\ \A i \in 1..Len(d) : d[i] = f[i]
    BY <1>1, <1>2, <2>1, <2>2
  <2> QED BY <1>1, <2>3, PrefixMeans
<1> QED BY <1>1, <1>3, <1>4 DEF Files!Below, f

\* What lies between q and q \o x lies so below p as well.
LEMMA Transplanted ==
  ASSUME NEW S, NEW p \in Seq(S), NEW q \in Seq(S), NEW e \in Seq(S), NEW d \in Seq(S),
         Files!IsPrefix(q, d), Files!IsPrefix(d, e)
  PROVE  /\ Files!IsPrefix(q, e)
         /\ Files!IsPrefix(p \o Rest(q, d), p \o Rest(q, e))
         /\ Files!Below(d, e) => Files!Below(p \o Rest(q, d), p \o Rest(q, e))
<1>1. Files!IsPrefix(q, e)
  BY PrefixIsOrder
<1>2. /\ Rest(q, d) \in Seq(S) /\ q \o Rest(q, d) = d
      /\ Rest(q, e) \in Seq(S) /\ q \o Rest(q, e) = e
  <2>1. Rest(q, d) \in Seq(S) /\ q \o Rest(q, d) = d
    BY RestIsThere
  <2>2. Rest(q, e) \in Seq(S) /\ q \o Rest(q, e) = e
    BY <1>1, RestIsThere
  <2> QED BY <2>1, <2>2
<1> DEFINE y == Rest(q, d)
           x == Rest(q, e)
<1> HIDE DEF x, y
<1>3. /\ y \in Seq(S) /\ q \o y = d /\ x \in Seq(S) /\ q \o x = e
  BY <1>2 DEF x, y
<1>4. /\ Len(p) \in Nat /\ Len(q) \in Nat /\ Len(y) \in Nat /\ Len(x) \in Nat
      /\ Len(d) = Len(q) + Len(y) /\ Len(e) = Len(q) + Len(x)
  BY <1>3
<1>5. Len(d) <= Len(e) /\ \A i \in 1..Len(d) : d[i] = e[i]
  BY PrefixMeans
<1>6. Len(y) <= Len(x)
  BY <1>4, <1>5
<1>7. \A i \in 1..Len(y) : y[i] = x[i]
  <2> SUFFICES ASSUME NEW i \in 1..Len(y) PROVE y[i] = x[i]
    OBVIOUS
  <2>1. i + Len(q) \in 1..Len(d) /\ i \in 1..Len(x)
    BY <1>4, <1>6
  <2>2. (q \o y)[i + Len(q)] = y[i] /\ (q \o x)[i + Len(q)] = x[i]
    BY <1>3, <1>4, <2>1
  <2> QED BY <1>3, <1>5, <2>1, <2>2
<1>8. Files!IsPrefix(p \o y, p \o x)
  <2>1. /\ p \o y \in Seq(S) /\ p \o x \in Seq(S)
        /\ Len(p \o y) = Len(p) + Len(y) /\ Len(p \o x) = Len(p) + Len(x)
    BY <1>3
  <2>2. \A i \in 1..Len(p \o y) : (p \o y)[i] = (p \o x)[i]
    BY <1>3, <1>4, <1>6, <1>7, <2>1
  <2>3. Len(p \o y) <= Len(p \o x)
    BY <1>4, <1>6, <2>1
  <2> QED BY <2>1, <2>2, <2>3, PrefixMeans
<1>9. ASSUME p \o y = p \o x PROVE d = e
  <2>1. Len(y) = Len(x)
    BY <1>3, <1>4, <1>9
  <2>2. y = x
    BY <1>3, <1>7, <2>1, SameElements
  <2> QED BY <1>3, <2>2
<1>10. Files!Below(d, e) => Files!Below(p \o y, p \o x)
  BY <1>8, <1>9 DEF Files!Below
<1> QED BY <1>1, <1>8, <1>10 DEF x, y

LEMMA OneBelow ==
  ASSUME NEW S, NEW p \in Seq(S), NEW e \in Seq(S), Files!Below(p, e)
  PROVE  \E d \in Seq(S) : /\ Files!Below(p, d) /\ Files!IsPrefix(d, e)
                           /\ Len(d) = Len(p) + 1
<1> DEFINE n == Len(p) + 1
           d == SubSeq(e, 1, n)
<1>1. /\ Len(p) \in Nat /\ Len(e) \in Nat /\ Len(p) <= Len(e) /\ p # e
      /\ \A i \in 1..Len(p) : p[i] = e[i]
  BY PrefixMeans DEF Files!Below
<1>2. Len(p) # Len(e)
  BY <1>1, SameElements
<1>3. n \in 1..Len(e) /\ n \in Nat
  BY <1>1, <1>2
<1> HIDE DEF n
<1>4. d \in Seq(S) /\ Len(d) = n /\ \A i \in 1..n : d[i] = e[i]
  BY <1>1, <1>3
<1> HIDE DEF d
<1>5. Files!IsPrefix(d, e)
  BY <1>1, <1>3, <1>4, PrefixMeans
<1>6. Files!IsPrefix(p, d) /\ p # d
  <2>1. Len(p) <= n /\ Len(p) # n /\ \A i \in 1..Len(p) : i \in 1..n
    BY <1>1 DEF n
  <2> QED BY <1>1, <1>4, <2>1, PrefixMeans
<1> QED BY <1>4, <1>5, <1>6 DEF Files!Below, n

-----------------------------------------------------------------------------
(***************************************************************************)
(* A tree of files: what is above a path that exists is a directory, and a *)
(* file has one name.                                                      *)
(***************************************************************************)
DirectoriesAbove(T) ==
  \A p \in DOMAIN T : \A q \in Files!Paths : Files!Below(q, p) => q \in DOMAIN T /\ T[q] = None
OneName(T) ==
  \A p \in DOMAIN T : \A q \in DOMAIN T : T[p] = T[q] /\ T[p] # None => p = q
IsTree(T) == TreeType(T) /\ DirectoriesAbove(T) /\ OneName(T)

\* A path that is in one tree what it is in the other.
SameAt(T, U, q) == (q \in DOMAIN T <=> q \in DOMAIN U) /\ (q \in DOMAIN T => T[q] = U[q])

LEMMA NothingBelow ==
  ASSUME IsTree(tree), NEW p \in Files!Paths, p \in DOMAIN tree => Files!Entries(p) = {}
  PROVE  \A e \in DOMAIN tree : ~Files!Below(p, e)
<1> SUFFICES ASSUME NEW e \in DOMAIN tree, Files!Below(p, e) PROVE FALSE
  OBVIOUS
<1>1. e \in Files!Paths /\ e \in Seq(Known) /\ p \in Seq(Known)
  BY PathsAreSequences DEF IsTree, TreeType
<1>2. p \in DOMAIN tree
  BY DEF IsTree, DirectoriesAbove
<1>3. PICK d \in Seq(Known) : /\ Files!Below(p, d) /\ Files!IsPrefix(d, e)
                              /\ Len(d) = Len(p) + 1
  BY <1>1, OneBelow
<1>4. d \in Files!Paths
  BY <1>1, <1>3, PrefixesArePaths
<1>5. d \in DOMAIN tree
  BY <1>3, <1>4 DEF IsTree, DirectoriesAbove, Files!Below
<1> QED BY <1>2, <1>3, <1>5 DEF Files!Entries

LEMMA DeletedTree ==
  ASSUME IsTree(tree), NEW p, Files!CanDelete(p)
  PROVE  /\ IsTree(Files!Without({p}))
         /\ p \in Files!Paths
         /\ \A e \in Files!Paths : Files!IsPrefix(p, e) => e \notin DOMAIN Files!Without({p})
         /\ \A e \in Files!Paths : e # p => SameAt(Files!Without({p}), tree, e)
<1> DEFINE T == Files!Without({p})
<1>1. /\ p \in Files!Paths /\ TreeType(T) /\ DOMAIN T = (DOMAIN tree) \ {p}
      /\ \A e \in DOMAIN T : T[e] = tree[e]
  BY WithoutSome DEF IsTree, Files!CanDelete, Files!Changeable
<1>2. \A e \in DOMAIN tree : ~Files!Below(p, e)
  BY NothingBelow, <1>1 DEF Files!CanDelete
<1> HIDE DEF T
<1>3. DirectoriesAbove(T)
  BY <1>1, <1>2 DEF IsTree, DirectoriesAbove
<1>4. OneName(T)
  BY <1>1 DEF IsTree, OneName
<1>5. \A e \in Files!Paths : Files!IsPrefix(p, e) => e \notin DOMAIN T
  BY <1>1, <1>2 DEF Files!Below
<1>6. \A e \in Files!Paths : e # p => SameAt(T, tree, e)
  BY <1>1 DEF SameAt
<1> QED BY <1>1, <1>3, <1>4, <1>5, <1>6 DEF IsTree, T

LEMMA GrownTree ==
  ASSUME IsTree(tree), NEW p, Files!CanMake(p), NEW what \in Files!Files \cup {None},
         \A e \in DOMAIN tree : what = None \/ tree[e] # what
  PROVE  /\ IsTree(Files!With(p, what))
         /\ p \in Files!Paths /\ p \notin DOMAIN tree
         /\ p \in DOMAIN Files!With(p, what) /\ Files!With(p, what)[p] = what
         /\ \A e \in Files!Paths : e # p => SameAt(Files!With(p, what), tree, e)
<1> DEFINE T == Files!With(p, what)
<1>1. p \in Files!Paths /\ p \notin DOMAIN tree /\ Files!IsDirectory(Files!Front(p)) /\ p # <<>>
  BY DEF Files!CanMake, Files!Changeable, Files!Exists, Files!Below,
         Files!IsPrefix, Files!Storage
<1>2. /\ TreeType(T) /\ DOMAIN T = (DOMAIN tree) \cup {p} /\ T[p] = what
      /\ \A e \in DOMAIN tree : T[e] = tree[e]
  <2>1. /\ TreeType(T) /\ DOMAIN T = (DOMAIN tree) \cup {p} /\ T[p] = what
        /\ \A e \in (DOMAIN tree) \ {p} : T[e] = tree[e]
    BY <1>1, WithOne DEF IsTree
  <2> HIDE DEF T
  <2> QED BY <1>1, <2>1
<1> HIDE DEF T
<1>3. /\ p \in Seq(Known) /\ Files!Front(p) \in Seq(Known)
      /\ \A d \in Seq(Known) : Files!Below(d, p) => Files!IsPrefix(d, Files!Front(p))
  BY <1>1, FrontIsAbove, PathsAreSequences
<1>4. DirectoriesAbove(T)
  <2> SUFFICES ASSUME NEW e \in DOMAIN T, NEW d \in Files!Paths, Files!Below(d, e)
               PROVE  d \in DOMAIN T /\ T[d] = None
    BY DEF DirectoriesAbove
  <2>1. CASE e \in DOMAIN tree
    BY <1>1, <1>2, <2>1 DEF IsTree, DirectoriesAbove
  <2>2. CASE e = p
    <3>1. Files!IsPrefix(d, Files!Front(p))
      BY <1>3, <2>2, PathsAreSequences
    <3>2. d = Files!Front(p) \/ Files!Below(d, Files!Front(p))
      BY <3>1 DEF Files!Below
    <3>3. d \in DOMAIN tree /\ tree[d] = None
      BY <1>1, <3>2 DEF IsTree, DirectoriesAbove, Files!IsDirectory, Files!Exists
    <3> QED BY <1>2, <3>3
  <2> QED BY <1>2, <2>1, <2>2
<1>5. OneName(T)
  BY <1>1, <1>2 DEF IsTree, OneName
<1>6. \A e \in Files!Paths : e # p => SameAt(T, tree, e)
  BY <1>2 DEF SameAt
<1> QED BY <1>1, <1>2, <1>4, <1>5, <1>6 DEF IsTree, T

\* The tree after a rename to another name: all of p is at q, nothing else has changed.
LEMMA RenamedTree ==
  ASSUME IsTree(tree), NEW p, NEW q, Files!CanRename(p, q), p # q,
         DOMAIN Files!Moved(p, q) \subseteq Files!Paths
  PROVE  LET T == Files!Moved(p, q)
         IN  /\ p \in Files!Paths /\ q \in Files!Paths /\ ~Files!Overlap(p, q)
             /\ \A e \in Files!Paths :
                  /\ Files!IsPrefix(q, e) =>
                       /\ e \in DOMAIN T <=> p \o Rest(q, e) \in DOMAIN tree
                       /\ e \in DOMAIN T => T[e] = tree[p \o Rest(q, e)]
                  /\ Files!IsPrefix(p, e) => e \notin DOMAIN T
                  /\ ~Files!IsPrefix(p, e) /\ ~Files!IsPrefix(q, e) => SameAt(T, tree, e)
             /\ IsTree(T)
<1> DEFINE T == Files!Moved(p, q)
<1>1. /\ p \in Files!Paths /\ q \in Files!Paths /\ p \in DOMAIN tree
      /\ Files!IsDirectory(Files!Front(q)) /\ q # <<>> /\ ~Files!Below(p, q)
      /\ q \in DOMAIN tree => Files!Entries(q) = {}
  BY DEF Files!CanRename, Files!Changeable, Files!Exists, Files!Below,
         Files!IsPrefix, Files!Storage
<1>2. \A e \in DOMAIN tree : ~Files!Below(q, e)
  BY <1>1, NothingBelow
<1>3. /\ p \in Seq(Known) /\ q \in Seq(Known) /\ TreeType(tree) /\ TreeType(T)
      /\ \A e \in Files!Paths : e \in Seq(Known)
      /\ DOMAIN tree \subseteq Files!Paths
  BY <1>1, PathsAreSequences, MovedType DEF IsTree, TreeType
<1>4. ~Files!Overlap(p, q)
  BY <1>1, <1>2 DEF Files!Overlap, Files!Below
<1>5. /\ \A e \in DOMAIN T :
           \/ \E r \in DOMAIN tree : /\ Files!IsPrefix(p, r) /\ e = q \o Rest(p, r)
                                     /\ T[e] = tree[r]
           \/ /\ e \in DOMAIN tree /\ T[e] = tree[e]
              /\ ~Files!IsPrefix(p, e) /\ e # q
      /\ \A e \in DOMAIN tree :
           ~Files!IsPrefix(p, e) /\ ~Files!IsPrefix(q, e) => e \in DOMAIN T /\ T[e] = tree[e]
  <2> HIDE DEF T
  <2>1. TreeType(tree) /\ p \in Files!Paths /\ q \in Files!Paths
    BY <1>1, <1>3
  <2> USE DEF T
  <2> QED BY ONLY <2>1, MovedFrom
<1>6. \A r \in DOMAIN tree : Files!IsPrefix(p, r) => q \o Rest(p, r) \in DOMAIN T
  BY DEF Files!Moved, Rest
<1> HIDE DEF T
\* What comes to q was below p, at the same place.
<1>7. ASSUME NEW e \in DOMAIN T, NEW r \in DOMAIN tree, Files!IsPrefix(p, r), e = q \o Rest(p, r)
      PROVE  /\ Files!IsPrefix(q, e) /\ p \o Rest(q, e) = r /\ ~Files!IsPrefix(p, e)
  <2>1. r \in Seq(Known) /\ e \in Seq(Known)
    BY <1>3 DEF TreeType
  <2>2. Rest(p, r) \in Seq(Known) /\ p \o Rest(p, r) = r
    BY <1>3, <1>7, <2>1, RestIsThere
  <2>3. Files!IsPrefix(q, e) /\ Rest(q, e) = Rest(p, r)
    BY <1>3, <1>7, <2>2, RestIsThere
  <2>4. ~Files!IsPrefix(p, e)
    BY <1>3, <1>4, <2>1, <2>3, PrefixIsOrder
  <2> QED BY <2>2, <2>3, <2>4
<1>8. ASSUME NEW e \in Files!Paths, Files!IsPrefix(q, e)
      PROVE  /\ e \in DOMAIN T <=> p \o Rest(q, e) \in DOMAIN tree
             /\ e \in DOMAIN T => T[e] = tree[p \o Rest(q, e)]
  <2>1. ASSUME p \o Rest(q, e) \in DOMAIN tree PROVE e \in DOMAIN T
    <3> DEFINE x == Rest(q, e)
    <3>1. x \in Seq(Known) /\ q \o x = e
      BY <1>3, <1>8, RestIsThere
    <3> HIDE DEF x
    <3>2. Rest(p, p \o x) = x /\ Files!IsPrefix(p, p \o x)
      BY <1>3, <3>1, RestIsThere
    <3>3. q \o Rest(p, p \o x) \in DOMAIN T
      BY <1>6, <2>1, <3>2 DEF x
    <3> QED BY <3>1, <3>2, <3>3
  <2>2. ASSUME e \in DOMAIN T
        PROVE  p \o Rest(q, e) \in DOMAIN tree /\ T[e] = tree[p \o Rest(q, e)]
    <3>1. e \in DOMAIN tree => e = q
      BY <1>2, <1>8 DEF Files!Below
    <3>2. PICK r \in DOMAIN tree : /\ Files!IsPrefix(p, r) /\ e = q \o Rest(p, r)
                                   /\ T[e] = tree[r]
      BY <1>5, <2>2, <3>1
    <3>3. p \o Rest(q, e) = r
      BY <1>7, <2>2, <3>2
    <3> QED BY <3>2, <3>3
  <2> QED BY <2>1, <2>2
<1>9. ASSUME NEW e \in Files!Paths, Files!IsPrefix(p, e)
      PROVE  e \notin DOMAIN T
  BY <1>5, <1>7, <1>9
<1>10. ASSUME NEW e \in Files!Paths, ~Files!IsPrefix(p, e), ~Files!IsPrefix(q, e)
       PROVE  SameAt(T, tree, e)
  <2>1. e \in DOMAIN T => e \in DOMAIN tree
    BY <1>5, <1>7, <1>10
  <2> QED BY <1>5, <1>10, <2>1 DEF SameAt
<1>11. DirectoriesAbove(T)
  <2> SUFFICES ASSUME NEW e \in DOMAIN T, NEW d \in Files!Paths, Files!Below(d, e)
               PROVE  d \in DOMAIN T /\ T[d] = None
    BY DEF DirectoriesAbove
  <2>1. /\ e \in Files!Paths /\ e \in Seq(Known) /\ d \in Seq(Known)
        /\ Files!IsPrefix(d, e) /\ d # e
    BY <1>3 DEF TreeType, Files!Below
  <2>2. ~Files!IsPrefix(p, e)
    BY <1>9, <2>1
  <2>3. ~Files!IsPrefix(p, d)
    BY <1>3, <2>1, <2>2, PrefixIsOrder
  <2>4. CASE Files!IsPrefix(q, d)
    <3> DEFINE y == p \o Rest(q, d)
               x == p \o Rest(q, e)
    <3>1. Files!IsPrefix(q, e) /\ Files!Below(y, x)
      <4>1. p \in Seq(Known) /\ q \in Seq(Known) /\ e \in Seq(Known) /\ d \in Seq(Known)
        BY <1>3, <2>1
      <4>2. Files!IsPrefix(q, d) /\ Files!IsPrefix(d, e) /\ Files!Below(d, e)
        BY <2>1, <2>4
      <4> QED BY ONLY <4>1, <4>2, Transplanted
    <3>2. x \in DOMAIN tree
      BY <1>8, <2>1, <3>1
    <3>3. y \in Seq(Known)
      <4>1. Rest(q, d) \in Seq(Known)
        BY <1>3, <2>1, <2>4, RestIsThere
      <4> QED BY <1>3, <4>1
    <3>4. y \in Files!Paths
      BY <1>3, <3>1, <3>2, <3>3, PrefixesArePaths DEF Files!Below
    <3>5. y \in DOMAIN tree /\ tree[y] = None
      BY <3>1, <3>2, <3>4 DEF IsTree, DirectoriesAbove
    <3> QED BY <1>8, <2>4, <3>5
  <2>5. CASE ~Files!IsPrefix(q, d) /\ Files!IsPrefix(q, e)
    <3>1. Files!IsPrefix(d, q) /\ d # q
      <4>1. Files!Overlap(d, q)
        BY <1>3, <2>1, <2>5, PrefixIsOrder
      <4>2. Files!IsPrefix(q, q)
        BY <1>3, PrefixIsOrder
      <4> QED BY <2>5, <4>1, <4>2 DEF Files!Overlap
    <3>2. Files!IsPrefix(d, Files!Front(q))
      BY <1>1, <1>3, <2>1, <3>1, FrontIsAbove DEF Files!Below
    <3>3. d = Files!Front(q) \/ Files!Below(d, Files!Front(q))
      BY <3>2 DEF Files!Below
    <3>4. d \in DOMAIN tree /\ tree[d] = None
      BY <1>1, <3>3 DEF IsTree, DirectoriesAbove, Files!IsDirectory, Files!Exists
    <3> QED BY <1>5, <2>3, <2>5, <3>4
  <2>6. CASE ~Files!IsPrefix(q, d) /\ ~Files!IsPrefix(q, e)
    <3>1. e \in DOMAIN tree
      BY <1>10, <2>1, <2>2, <2>6 DEF SameAt
    <3>2. d \in DOMAIN tree /\ tree[d] = None
      BY <3>1 DEF IsTree, DirectoriesAbove
    <3> QED BY <1>5, <2>3, <2>6, <3>2
  <2> QED BY <2>4, <2>5, <2>6
\* Where a path that exists now was before.
<1>12. ASSUME NEW e \in DOMAIN T
       PROVE  \E r \in DOMAIN tree :
                /\ T[e] = tree[r]
                /\ IF Files!IsPrefix(p, r) THEN e = q \o Rest(p, r) ELSE e = r
  BY <1>5
<1>13. OneName(T)
  <2> SUFFICES ASSUME NEW d \in DOMAIN T, NEW e \in DOMAIN T, T[d] = T[e], T[d] # None
               PROVE  d = e
    BY DEF OneName
  <2>1. PICK r \in DOMAIN tree : /\ T[d] = tree[r]
                                 /\ IF Files!IsPrefix(p, r) THEN d = q \o Rest(p, r) ELSE d = r
    BY <1>12
  <2>2. PICK u \in DOMAIN tree : /\ T[e] = tree[u]
                                 /\ IF Files!IsPrefix(p, u) THEN e = q \o Rest(p, u) ELSE e = u
    BY <1>12
  <2>3. r = u
    BY <2>1, <2>2 DEF IsTree, OneName
  <2> HIDE DEF T
  <2>4. CASE Files!IsPrefix(p, r)
    <3>1. d = q \o Rest(p, r) /\ e = q \o Rest(p, u)
      BY <2>1, <2>2, <2>3, <2>4
    <3> QED BY <2>3, <3>1
  <2>5. CASE ~Files!IsPrefix(p, r)
    BY <2>1, <2>2, <2>3, <2>5
  <2> QED BY <2>4, <2>5
<1> QED BY <1>1, <1>3, <1>4, <1>8, <1>9, <1>10, <1>11, <1>13 DEF IsTree, T

\* A rename to the same name.
LEMMA RenamedToItself ==
  ASSUME TreeType(tree), NEW p \in Files!Paths
  PROVE  Files!Moved(p, p) = tree
<1> DEFINE T == Files!Moved(p, p)
<1>1. /\ \A e \in DOMAIN T :
           \/ \E r \in DOMAIN tree : /\ Files!IsPrefix(p, r) /\ e = p \o Rest(p, r)
                                     /\ T[e] = tree[r]
           \/ /\ e \in DOMAIN tree /\ T[e] = tree[e]
      /\ \A e \in DOMAIN tree :
           ~Files!IsPrefix(p, e) => e \in DOMAIN T /\ T[e] = tree[e]
  BY MovedFrom
<1>2. \A r \in DOMAIN tree : Files!IsPrefix(p, r) => p \o Rest(p, r) \in DOMAIN T
  BY DEF Files!Moved, Rest
<1>3. \A r \in DOMAIN tree : Files!IsPrefix(p, r) => p \o Rest(p, r) = r
  BY PathsAreSequences, RestIsThere DEF TreeType
<1>4. T = [e \in DOMAIN T |-> T[e]]
  BY DEF Files!Moved
<1> HIDE DEF T
<1>5. DOMAIN T = DOMAIN tree /\ \A e \in DOMAIN T : T[e] = tree[e]
  BY <1>1, <1>2, <1>3
<1>6. tree = [e \in DOMAIN tree |-> tree[e]]
  BY DEF TreeType
<1> QED BY <1>4, <1>5, <1>6 DEF T

-----------------------------------------------------------------------------
(***************************************************************************)
(* What the files hold while commands are at work.  A path holds what the  *)
(* replies have promised, unless a command is at work that may change it.  *)
(* How far a command has come it can rely on only when it is alone.        *)
(***************************************************************************)
Streams(c) == c.verb \in {"STOR", "APPE"} /\ c.pc \in {"connect", "receive"}
Fetches(c) == c.verb = "RETR" /\ c.pc \in {"connect", "send", "sent"}

\* The command may change what is at the path.
Affects(c, p) ==
  Files!Changes(c) /\ IF c.verb = "RMD" THEN Files!IsPrefix(c.target, p) ELSE p = c.target

\* Before a file is open nothing is moved; APPE deletes nothing; the outermost call of
\* recursiveDelete is about the target.
Sound(c) ==
  /\ c.pc \in {"check", "exists", "delete", "open"} => c.bytes = <<>> /\ c.pos = 0
  /\ c.verb = "APPE" => c.pc # "delete"
  /\ c.pc = "sent" => c.verb = "RETR"
  /\ c.verb = "RMD" => /\ c.pc \in {"enter", "list"} /\ c.frames = <<>> => c.entry = None
                       /\ c.frames # <<>> => c.frames[1].dir = c.target

AllSound == \A s \in Sessions : Sound(cmd[s])

\* A file that nobody has made yet is empty and open nowhere.
Numbered ==
  /\ \A f \in Files!Files : f > started => data[f] = <<>>
  /\ \A s \in Sessions : Fresh(cmd[s]) => data[cmd[s].number] = <<>>
  /\ \A s \in Sessions : Streams(cmd[s]) => cmd[s].file <= started
  /\ \A s \in Sessions : \A t \in Sessions :
       Streams(cmd[s]) /\ Fresh(cmd[t]) => cmd[s].file # cmd[t].number

Held ==
  \A p \in Files!Paths :
    wanted[p] # Unknown /\ (\A s \in Sessions : ~Affects(cmd[s], p)) =>
      Files!Content(p) = wanted[p]

\* A file that is open for writing under another name than the one it was opened by is
\* where nothing is promised.
Astray ==
  \A s \in Sessions : Streams(cmd[s]) =>
    \A p \in DOMAIN tree : tree[p] = cmd[s].file => p = cmd[s].target \/ wanted[p] = Unknown

HasChangedNothing(c) ==
  \/ c.verb = "DELE"
  \/ c.verb = "APPE" /\ c.pc \in {"check", "exists", "open"}
  \/ c.verb = "STOR" /\ c.pc \in {"check", "exists", "delete"}

Untouched(s) ==
  HasChangedNothing(cmd[s]) =>
    \/ wanted[cmd[s].target] = Unknown
    \/ Files!Content(cmd[s].target) = wanted[cmd[s].target]

NoDirectory(s) ==
  cmd[s].verb \in {"STOR", "APPE"} /\ cmd[s].pc \in {"exists", "open"} =>
    ~Files!IsDirectory(cmd[s].target)

\* A STOR that cannot make its file has deleted nothing.
Freed(s) ==
  Found(cmd[s]) =>
    /\ ~Files!Exists(cmd[s].target)
    /\ wanted[cmd[s].target] \in {None, Unknown} \/ Files!CanMake(cmd[s].target)

Old(p) == IF wanted[p] = None THEN <<>> ELSE wanted[p]

Receiving(s) ==
  LET c == cmd[s]
  IN  Streams(c) =>
        /\ c.target \in DOMAIN tree /\ tree[c.target] = c.file
        /\ c.verb = "STOR" =>
             /\ data[c.file] = c.bytes /\ c.pos = Len(c.bytes)
             /\ \A t \in Sessions \ {s} : Streams(cmd[t]) => cmd[t].file # c.file
        /\ c.verb = "APPE" =>
             wanted[c.target] = Unknown \/ data[c.file] = Old(c.target) \o c.bytes

Sending(s) ==
  LET c == cmd[s]
  IN  Fetches(c) =>
        /\ c.target \in DOMAIN tree /\ tree[c.target] = c.file
        /\ \/ wanted[c.target] = Unknown
           \/ /\ c.pos <= Len(data[c.file]) /\ c.bytes = SubSeq(data[c.file], 1, c.pos)
              /\ c.pc = "sent" => c.pos = Len(data[c.file])

Reached(s) == Untouched(s) /\ NoDirectory(s) /\ Freed(s) /\ Receiving(s) /\ Sending(s)
Progress == \A s \in Sessions : cmd[s].pc # "idle" /\ cmd[s].alone => Reached(s)

ContentInv == IsTree(tree) /\ Numbered /\ Held /\ Astray /\ Progress

\* A command that is alone: no other may change its target, or what is above it.
LEMMA NobodyElse ==
  ASSUME FilesType, AllFit, Apart, NEW u \in Sessions, NEW s \in Sessions \ {u},
         cmd[u].pc # "idle", cmd[u].alone, NEW q \in Seq(Known),
         Files!IsPrefix(q, cmd[u].target)
  PROVE  /\ ~Affects(cmd[s], q)
         /\ Files!Changes(cmd[s]) => ~Files!Overlap(cmd[u].target, cmd[s].target)
<1>1. ASSUME Files!Changes(cmd[s]) PROVE ~Files!Overlap(cmd[u].target, cmd[s].target)
  BY <1>1 DEF Apart
<1>2. ASSUME Files!Changes(cmd[s]), Files!IsPrefix(cmd[s].target, q) PROVE FALSE
  <2>1. cmd[u].target \in Seq(Known) /\ cmd[s].target \in Seq(Known)
    BY <1>2, AtWork DEF Files!Changes
  <2>2. Files!IsPrefix(cmd[s].target, cmd[u].target)
    BY <1>2, <2>1, PrefixIsOrder
  <2> QED BY <1>1, <1>2, <2>2 DEF Files!Overlap
<1>3. Files!IsPrefix(q, q)
  BY PrefixIsOrder
<1> QED BY <1>1, <1>2, <1>3 DEF Affects

\* How far a command has come stays true when nothing changes at its target.
LEMMA ReachedStays ==
  ASSUME FilesType, AllFit, NEW u \in Sessions, cmd[u].pc # "idle", Reached(u),
         SameCommand(cmd[u], cmd'[u]),
         wanted'[cmd[u].target] = wanted[cmd[u].target],
         SameAt(tree', tree, cmd[u].target),
         cmd[u].target # <<>> => SameAt(tree', tree, Files!Front(cmd[u].target)),
         \A t \in Sessions \ {u} : Streams(cmd'[t]) =>
           \/ Streams(cmd[t]) /\ cmd'[t].file = cmd[t].file
           \/ Files!IsFile(cmd[u].target) => cmd'[t].file # tree[cmd[u].target],
         Files!IsFile(cmd[u].target) =>
           \/ data'[tree[cmd[u].target]] = data[tree[cmd[u].target]]
           \/ /\ wanted[cmd[u].target] = Unknown
              /\ ~(Streams(cmd[u]) /\ cmd[u].verb = "STOR")
  PROVE  Reached(u)'
<1> DEFINE c == cmd[u]
           p == cmd[u].target
<1>1. /\ cmd'[u].pc = c.pc /\ cmd'[u].verb = c.verb /\ cmd'[u].target = p
      /\ cmd'[u].file = c.file /\ cmd'[u].pos = c.pos /\ cmd'[u].bytes = c.bytes
  BY DEF SameCommand
<1>2. /\ Files!Exists(p)' <=> Files!Exists(p)
      /\ Files!IsDirectory(p)' <=> Files!IsDirectory(p)
      /\ Files!IsFile(p)' <=> Files!IsFile(p)
      /\ Files!Exists(p) => tree'[p] = tree[p]
  BY <1>1 DEF SameAt, Files!Exists, Files!IsDirectory, Files!IsFile
<1>3. Untouched(u)'
  <2> SUFFICES ASSUME HasChangedNothing(c), wanted[p] # Unknown
               PROVE  Files!Content(p)' = wanted[p]
    BY <1>1 DEF Untouched, HasChangedNothing, Files!Content, Files!IsFile, Files!Exists
  <2>1. Files!Content(p) = wanted[p]
    BY DEF Reached, Untouched
  <2>2. Files!IsFile(p) => tree'[p] = tree[p] /\ data'[tree[p]] = data[tree[p]]
    BY <1>2 DEF Files!IsFile
  <2>3. CASE Files!IsFile(p)
    BY <1>1, <1>2, <2>1, <2>2, <2>3 DEF Files!Content, Files!IsFile, Files!Exists
  <2>4. CASE ~Files!IsFile(p)
    BY <1>2, <2>1, <2>4 DEF Files!Content, Files!IsFile, Files!Exists
  <2> QED BY <2>3, <2>4
<1>4. NoDirectory(u)'
  BY <1>1, <1>2 DEF Reached, NoDirectory, Files!IsDirectory, Files!Exists
<1>5. Freed(u)'
  <2>1. Files!CanMake(p) => Files!CanMake(p)'
    <3>1. Files!CanMake(p) => p # <<>>
      BY DEF Files!CanMake, Files!Changeable, Files!Below,
             Files!IsPrefix, Files!Storage
    <3>2. Files!CanMake(p) => Files!IsDirectory(Files!Front(p))'
      BY <1>1, <3>1 DEF SameAt, Files!CanMake, Files!IsDirectory, Files!Exists
    <3> QED BY <1>1, <1>2, <3>2 DEF Files!CanMake, Files!IsDirectory, Files!Exists
  <2> QED BY <1>1, <1>2, <2>1 DEF Reached, Freed, Found, Files!CanMake, Files!Exists
<1>6. ASSUME p \in DOMAIN tree, tree[p] = c.file, c.file \in Files!Files
      PROVE  Files!IsFile(p) /\ p \in DOMAIN tree' /\ tree'[p] = c.file
  <2>1. c.file # None
    BY <1>6, FilesConstants
  <2>2. Files!IsFile(p) /\ Files!Exists(p)
    BY <1>6, <2>1 DEF Files!IsFile, Files!Exists
  <2>3. Files!IsFile(p)' /\ tree'[p] = tree[p]
    BY <1>2, <2>2
  <2> QED BY <1>1, <1>6, <2>2, <2>3 DEF Files!IsFile, Files!Exists
<1>7. (Streams(c) \/ Fetches(c)) => c.file \in Files!Files
  BY AtWork DEF Fits, Streams, Fetches
<1>8. Receiving(u)'
  <2> SUFFICES ASSUME Streams(c)
               PROVE  Receiving(u)'
    BY <1>1 DEF Receiving, Streams
  <2>1. Files!IsFile(p) /\ tree[p] = c.file /\ p \in DOMAIN tree' /\ tree'[p] = c.file
    BY <1>6, <1>7 DEF Reached, Receiving
  <2>2. ASSUME c.verb = "STOR"
        PROVE  /\ data'[c.file] = c.bytes /\ c.pos = Len(c.bytes)
               /\ \A t \in Sessions \ {u} : Streams(cmd'[t]) => cmd'[t].file # c.file
    BY <2>1, <2>2 DEF Reached, Receiving
  <2>3. ASSUME c.verb = "APPE", wanted[p] # Unknown
        PROVE  data'[c.file] = Old(p) \o c.bytes
    BY <2>1, <2>3 DEF Reached, Receiving
  <2>4. Old(p)' = Old(p)
    BY <1>1 DEF Old
  <2> QED BY <1>1, <2>1, <2>2, <2>3, <2>4, Zenon DEF Receiving, Old
<1>9. Sending(u)'
  <2> SUFFICES ASSUME Fetches(c)
               PROVE  Sending(u)'
    BY <1>1 DEF Sending, Fetches
  <2>1. Files!IsFile(p) /\ tree[p] = c.file /\ p \in DOMAIN tree' /\ tree'[p] = c.file
    BY <1>6, <1>7 DEF Reached, Sending
  <2>2. wanted[p] # Unknown => data'[c.file] = data[c.file]
    BY <2>1
  <2> QED BY <1>1, <2>1, <2>2 DEF Reached, Sending
<1> QED BY <1>3, <1>4, <1>5, <1>8, <1>9 DEF Reached

-----------------------------------------------------------------------------
(***************************************************************************)
(* A step of a command that makes no file.  What the reply says is true,   *)
(* and says nothing of what other commands are at work on.                 *)
(***************************************************************************)
Replies(s) ==
  /\ cmd'[s].pc # "idle" \/ ~Files!Changes(cmd[s]) => UNCHANGED wanted
  /\ \A q \in Files!Paths :
       /\ ~Files!Overlap(q, cmd[s].target) => wanted'[q] = wanted[q]
       /\ wanted'[q] # Unknown /\ ~Affects(cmd[s], q) => wanted'[q] = wanted[q]
       /\ cmd'[s].pc = "idle" /\ Affects(cmd[s], q) /\ wanted'[q] # Unknown =>
            Files!Content(q)' = wanted'[q]
       /\ q \in DOMAIN tree' /\ wanted[q] = Unknown =>
            \/ wanted'[q] = Unknown
            \/ \A t \in Sessions \ {s} : Streams(cmd[t]) => cmd[t].file # tree'[q]

Quiet(s) ==
  /\ Worked(s)
  /\ \A f \in Files!Files : data'[f] = data[f] \/ (Streams(cmd[s]) /\ f = cmd[s].file)
  /\ \/ tree' = tree
     \/ \E r \in Files!Paths : /\ Files!CanDelete(r) /\ Affects(cmd[s], r)
                               /\ tree' = Files!Without({r})
  /\ Fresh(cmd'[s]) => Fresh(cmd[s])
  /\ Streams(cmd'[s]) => Streams(cmd[s]) /\ cmd'[s].file = cmd[s].file
  /\ Replies(s)
  /\ cmd'[s].pc # "idle" /\ cmd[s].alone => Reached(s)'

LEMMA NothingIsReplied ==
  ASSUME NEW s \in Sessions, cmd'[s].pc # "idle" \/ ~Files!Changes(cmd[s]), UNCHANGED wanted
  PROVE  Replies(s)
BY DEF Replies, Affects

\* What a command affects overlaps its target.
LEMMA AffectsBelow ==
  ASSUME FilesType, AllFit, NEW s \in Sessions, NEW q \in Files!Paths, Affects(cmd[s], q)
  PROVE  /\ Files!IsPrefix(cmd[s].target, q) /\ Files!Overlap(q, cmd[s].target)
         /\ \A p \in Files!Paths : Files!Overlap(p, q) => Files!Overlap(p, cmd[s].target)
<1>1. cmd[s].target \in Seq(Known) /\ q \in Seq(Known) /\ Files!Paths \subseteq Seq(Known)
  BY AtWork, PathsAreSequences DEF Affects, Files!Changes
<1>2. Files!IsPrefix(cmd[s].target, q)
  BY <1>1, PrefixIsOrder DEF Affects
<1>3. ASSUME NEW p \in Files!Paths, Files!Overlap(p, q) PROVE Files!Overlap(p, cmd[s].target)
  BY <1>1, <1>2, <1>3, PrefixIsOrder DEF Files!Overlap
<1> QED BY <1>2, <1>3 DEF Files!Overlap

\* The end of a command that changes files.
LEMMA EndsWell ==
  ASSUME FilesType, AllFit, NEW s \in Sessions, Files!Changes(cmd[s]),
         NEW P \in SUBSET {q \in Files!Paths : Affects(cmd[s], q)}, NEW content,
         Files!Ends(s, P, content),
         cmd[s].alone => \A q \in Files!Paths : Affects(cmd[s], q) =>
           /\ q \in P /\ content # Unknown => Files!Content(q)' = content
           /\ q \notin P /\ wanted[q] # Unknown => Files!Content(q)' = wanted[q],
         cmd[s].alone /\ content # Unknown => \A q \in P :
           q \in DOMAIN tree' /\ wanted[q] = Unknown =>
             \A t \in Sessions \ {s} : Streams(cmd[t]) => cmd[t].file # tree'[q]
  PROVE  Replies(s)
<1>1. \A q \in Files!Paths : wanted'[q] =
        IF cmd[s].alone THEN (IF q \in P THEN content ELSE wanted[q])
        ELSE IF \E r \in P \cup {cmd[s].target} : Files!Overlap(q, r) THEN Unknown ELSE wanted[q]
  BY DEF Files!Ends
<1>2. cmd'[s].pc = "idle"
  BY IdleIsCommand DEF Files!Ends, FilesType
<1>3. /\ cmd[s].target \in Files!Paths /\ Affects(cmd[s], cmd[s].target)
      /\ \A q \in Files!Paths : Affects(cmd[s], q) => Files!Overlap(q, cmd[s].target)
  <2>1. cmd[s].target \in Files!Paths /\ Files!IsPrefix(cmd[s].target, cmd[s].target)
    BY AtWork, PrefixIsOrder DEF Files!Changes
  <2> QED BY <2>1, AffectsBelow DEF Affects
<1>4. ASSUME NEW q \in Files!Paths, ~Files!Overlap(q, cmd[s].target)
      PROVE  wanted'[q] = wanted[q]
  <2>1. q \notin P
    BY <1>3, <1>4
  <2>2. \A r \in P \cup {cmd[s].target} : ~Files!Overlap(q, r)
    BY <1>3, <1>4, AffectsBelow
  <2> QED BY <1>1, <2>1, <2>2
<1>5. ASSUME NEW q \in Files!Paths, wanted'[q] # Unknown, ~Affects(cmd[s], q)
      PROVE  wanted'[q] = wanted[q]
  BY <1>1, <1>5
<1>6. ASSUME NEW q \in Files!Paths, Affects(cmd[s], q), wanted'[q] # Unknown
      PROVE  Files!Content(q)' = wanted'[q]
  <2>1. cmd[s].alone
    BY <1>1, <1>3, <1>6
  <2> QED BY <1>1, <1>6, <2>1
<1>7. ASSUME NEW q \in Files!Paths, q \in DOMAIN tree', wanted[q] = Unknown, wanted'[q] # Unknown
      PROVE  \A t \in Sessions \ {s} : Streams(cmd[t]) => cmd[t].file # tree'[q]
  BY <1>1, <1>7
<1> QED BY <1>2, <1>4, <1>5, <1>6, <1>7 DEF Replies

LEMMA EndsAsItWas ==
  ASSUME FilesType, AllFit, NEW s \in Sessions, Files!Changes(cmd[s]), Files!EndsWithoutChange(s),
         cmd[s].alone => \A q \in Files!Paths :
           Affects(cmd[s], q) /\ wanted[q] # Unknown => Files!Content(q)' = wanted[q]
  PROVE  Replies(s)
BY EndsWell DEF Files!EndsWithoutChange

LEMMA QuietTree ==
  ASSUME IsTree(tree), NEW s \in Sessions, Quiet(s)
  PROVE  /\ IsTree(tree') /\ DOMAIN tree' \subseteq DOMAIN tree
         /\ \A e \in DOMAIN tree' : tree'[e] = tree[e]
         /\ \A e \in Files!Paths : ~Affects(cmd[s], e) => SameAt(tree', tree, e)
<1>1. CASE tree' = tree
  BY <1>1 DEF SameAt
<1>2. ASSUME NEW r \in Files!Paths, Files!CanDelete(r), Affects(cmd[s], r),
             tree' = Files!Without({r})
      PROVE  /\ IsTree(tree') /\ DOMAIN tree' \subseteq DOMAIN tree
             /\ \A e \in DOMAIN tree' : tree'[e] = tree[e]
             /\ \A e \in Files!Paths : ~Affects(cmd[s], e) => SameAt(tree', tree, e)
  <2>1. /\ IsTree(tree') /\ \A e \in Files!Paths : e # r => SameAt(tree', tree, e)
    BY <1>2, DeletedTree
  <2>2. DOMAIN tree' \subseteq DOMAIN tree /\ \A e \in DOMAIN tree' : tree'[e] = tree[e]
    BY <1>2, WithoutSome DEF IsTree
  <2> QED BY <1>2, <2>1, <2>2
<1> QED BY <1>1, <1>2 DEF Quiet

\* Which files others write into, and which commands may make one.
LEMMA WorkOfOthers ==
  ASSUME NEW s \in Sessions, Quiet(s)
  PROVE  \A t \in Sessions :
           /\ Fresh(cmd'[t]) => Fresh(cmd[t]) /\ cmd'[t].number = cmd[t].number
           /\ Streams(cmd'[t]) => /\ Streams(cmd[t]) /\ cmd'[t].file = cmd[t].file
                                  /\ cmd'[t].target = cmd[t].target
           /\ cmd'[t].pc # "idle" => /\ cmd[t].pc # "idle" /\ cmd'[t].alone = cmd[t].alone
                                     /\ \A q : Affects(cmd'[t], q) <=> Affects(cmd[t], q)
<1>1. CASE cmd'[s] = Files!Idle
  <2>1. cmd'[s].pc = "idle" /\ ~Fresh(cmd'[s]) /\ ~Streams(cmd'[s])
    BY <1>1, IdleIsCommand DEF Fresh, Streams
  <2> QED BY <2>1 DEF Quiet, Worked
<1>2. CASE cmd'[s] # Files!Idle
  BY <1>2 DEF Quiet, Worked, Affects, Files!Changes
<1> QED BY <1>1, <1>2

LEMMA QuietNumbered ==
  ASSUME FilesType, AllFit, Numbered, NEW s \in Sessions, Quiet(s)
  PROVE  Numbered'
<1>1. UNCHANGED started
  BY DEF Quiet, Worked
<1>2. \A f \in Files!Files : data'[f] = data[f] \/ (Streams(cmd[s]) /\ f = cmd[s].file)
  BY DEF Quiet
<1>3. ASSUME NEW f \in Files!Files, f > started' PROVE data'[f] = <<>>
  <2>1. ~(Streams(cmd[s]) /\ f = cmd[s].file)
    BY <1>1, <1>3, FilesConstants DEF Numbered, FilesType
  <2> QED BY <1>1, <1>2, <1>3, <2>1 DEF Numbered
<1>4. ASSUME NEW t \in Sessions, Fresh(cmd'[t]) PROVE data'[cmd'[t].number] = <<>>
  <2>1. Fresh(cmd[t]) /\ cmd'[t].number = cmd[t].number
    BY <1>4, WorkOfOthers
  <2>2. cmd[t].number \in Files!Files
    BY <2>1, AtWork, FilesConstants DEF Fresh
  <2>3. data[cmd[t].number] = <<>> /\ ~(Streams(cmd[s]) /\ cmd[t].number = cmd[s].file)
    BY <2>1 DEF Numbered
  <2> QED BY <1>2, <2>1, <2>2, <2>3
<1>5. ASSUME NEW t \in Sessions, Streams(cmd'[t])
      PROVE  /\ cmd'[t].file <= started'
             /\ \A u \in Sessions : Fresh(cmd'[u]) => cmd'[t].file # cmd'[u].number
  BY <1>1, <1>5, WorkOfOthers DEF Numbered
<1> QED BY <1>3, <1>4, <1>5 DEF Numbered

\* A path that the command does not affect, and of which something is promised.
LEMMA QuietElsewhere ==
  ASSUME FilesType, AllFit, IsTree(tree), Astray, NEW s \in Sessions, Quiet(s),
         NEW p \in Files!Paths, ~Affects(cmd[s], p), wanted[p] # Unknown
  PROVE  Files!Content(p)' = Files!Content(p)
<1>1. SameAt(tree', tree, p)
  BY QuietTree
<1>2. ASSUME Files!IsFile(p) PROVE data'[tree[p]] = data[tree[p]]
  <2>1. p \in DOMAIN tree /\ tree[p] \in Files!Files
    BY <1>2 DEF IsTree, TreeType, Files!IsFile, Files!Exists
  <2>2. ~(Streams(cmd[s]) /\ tree[p] = cmd[s].file)
    <3> SUFFICES ASSUME Streams(cmd[s]), tree[p] = cmd[s].file PROVE FALSE
      OBVIOUS
    <3>1. p = cmd[s].target
      BY <2>1 DEF Astray
    <3> QED BY <3>1 DEF Affects, Files!Changes, Streams
  <2> QED BY <2>1, <2>2 DEF Quiet
<1>3. CASE Files!IsFile(p)
  BY <1>1, <1>2, <1>3 DEF SameAt, Files!Content, Files!IsFile, Files!Exists
<1>4. CASE ~Files!IsFile(p)
  BY <1>1, <1>4 DEF SameAt, Files!Content, Files!IsFile, Files!Exists
<1> QED BY <1>3, <1>4

LEMMA QuietHeld ==
  ASSUME FilesType, AllFit, IsTree(tree), Astray, Held, NEW s \in Sessions, Quiet(s)
  PROVE  Held'
<1> SUFFICES ASSUME NEW p \in Files!Paths, wanted'[p] # Unknown,
                    \A t \in Sessions : ~Affects(cmd'[t], p)
             PROVE  Files!Content(p)' = wanted'[p]
  BY DEF Held
<1>1. Replies(s) /\ \A t \in Sessions \ {s} : cmd'[t] = cmd[t]
  BY DEF Quiet, Worked
<1>2. CASE Affects(cmd[s], p)
  <2>1. cmd'[s].pc = "idle"
    BY <1>2, WorkOfOthers
  <2> QED BY <1>1, <1>2, <2>1 DEF Replies
<1>3. CASE ~Affects(cmd[s], p)
  <2>1. wanted'[p] = wanted[p] /\ \A t \in Sessions : ~Affects(cmd[t], p)
    BY <1>1, <1>3 DEF Replies
  <2>2. Files!Content(p) = wanted[p]
    BY <2>1 DEF Held
  <2>3. Files!Content(p)' = Files!Content(p)
    BY <1>3, <2>1, QuietElsewhere
  <2> QED BY <2>1, <2>2, <2>3
<1> QED BY <1>2, <1>3

LEMMA QuietAstray ==
  ASSUME IsTree(tree), Astray, NEW s \in Sessions, Quiet(s)
  PROVE  Astray'
<1> SUFFICES ASSUME NEW t \in Sessions, Streams(cmd'[t]), NEW p \in DOMAIN tree',
                    tree'[p] = cmd'[t].file
             PROVE  p = cmd'[t].target \/ wanted'[p] = Unknown
  BY DEF Astray
<1>1. /\ Streams(cmd[t]) /\ cmd'[t].file = cmd[t].file /\ cmd'[t].target = cmd[t].target
      /\ cmd'[t].pc # "idle"
  BY WorkOfOthers DEF Streams
<1>2. p \in DOMAIN tree /\ tree'[p] = tree[p] /\ p \in Files!Paths
  BY QuietTree DEF IsTree, TreeType
<1>3. p = cmd[t].target \/ wanted[p] = Unknown
  BY <1>1, <1>2 DEF Astray
<1>4. wanted[p] = Unknown => wanted'[p] = Unknown
  <2>1. CASE t = s
    BY <1>1, <2>1 DEF Quiet, Replies
  <2>2. CASE t # s
    BY <1>1, <1>2, <2>2 DEF Quiet, Replies
  <2> QED BY <2>1, <2>2
<1> QED BY <1>1, <1>3, <1>4

LEMMA QuietProgress ==
  ASSUME FilesType, AllFit, Apart, ContentInv, NEW s \in Sessions, Quiet(s)
  PROVE  Progress'
<1> SUFFICES ASSUME NEW u \in Sessions, cmd'[u].pc # "idle", cmd'[u].alone
             PROVE  Reached(u)'
  BY DEF Progress
<1>1. cmd[u].pc # "idle" /\ cmd[u].alone
  BY WorkOfOthers
<1>2. CASE u = s
  BY <1>1, <1>2 DEF Quiet
<1>3. CASE u # s
  <2> DEFINE p == cmd[u].target
  <2>1. /\ cmd'[u] = cmd[u] /\ SameCommand(cmd[u], cmd'[u]) /\ Reached(u)
        /\ p \in Files!Paths /\ p \in Seq(Known) /\ Files!IsPrefix(p, p)
    BY <1>1, <1>3, AtWork, PrefixIsOrder DEF Quiet, Worked, SameCommand, ContentInv, Progress
  <2>2. ~Affects(cmd[s], p) /\ (Files!Changes(cmd[s]) => ~Files!Overlap(p, cmd[s].target))
    <3> HIDE DEF p
    <3>1. s \in Sessions \ {u} /\ Files!IsPrefix(p, cmd[u].target)
      BY <1>3, <2>1 DEF p
    <3>2. ~Affects(cmd[s], p) /\ (Files!Changes(cmd[s]) => ~Files!Overlap(cmd[u].target, cmd[s].target))
      BY <1>1, <2>1, <3>1, NobodyElse
    <3> QED BY <3>2 DEF p
  <2>3. wanted'[p] = wanted[p]
    <3>1. CASE Files!Changes(cmd[s])
      BY <2>1, <2>2, <3>1 DEF Quiet, Replies
    <3>2. CASE ~Files!Changes(cmd[s])
      BY <3>2 DEF Quiet, Replies
    <3> QED BY <3>1, <3>2
  <2>4. SameAt(tree', tree, p)
    BY <2>1, <2>2, QuietTree DEF ContentInv
  <2>5. p # <<>> => SameAt(tree', tree, Files!Front(p))
    <3> SUFFICES ASSUME p # <<>> PROVE SameAt(tree', tree, Files!Front(p))
      OBVIOUS
    <3> DEFINE d == Files!Front(p)
    <3>1. d \in Seq(Known) /\ Files!IsPrefix(d, p)
      BY <2>1, FrontIsAbove DEF Files!Below
    <3>2. d \in Files!Paths
      BY <2>1, <3>1, PrefixesArePaths
    <3> HIDE DEF d, p
    <3>3. s \in Sessions \ {u} /\ Files!IsPrefix(d, cmd[u].target)
      BY <1>3, <3>1 DEF p
    <3>4. ~Affects(cmd[s], d)
      BY <1>1, <3>1, <3>3, NobodyElse
    <3> QED BY <3>2, <3>4, QuietTree DEF ContentInv, d
  <2>6. \A t \in Sessions \ {u} : Streams(cmd'[t]) => Streams(cmd[t]) /\ cmd'[t].file = cmd[t].file
    BY WorkOfOthers
  <2>7. ASSUME Files!IsFile(p)
        PROVE  \/ data'[tree[p]] = data[tree[p]]
               \/ wanted[p] = Unknown /\ ~(Streams(cmd[u]) /\ cmd[u].verb = "STOR")
    <3>1. p \in DOMAIN tree /\ tree[p] \in Files!Files
      BY <2>7 DEF ContentInv, IsTree, TreeType, Files!IsFile, Files!Exists
    <3> SUFFICES ASSUME Streams(cmd[s]), tree[p] = cmd[s].file
                 PROVE  wanted[p] = Unknown /\ ~(Streams(cmd[u]) /\ cmd[u].verb = "STOR")
      BY <3>1 DEF Quiet
    <3>2. p # cmd[s].target
      BY <2>2 DEF Affects, Files!Changes, Streams
    <3>3. wanted[p] = Unknown
      BY <3>1, <3>2 DEF ContentInv, Astray
    <3>4. Streams(cmd[u]) /\ cmd[u].verb = "STOR" => tree[p] # cmd[s].file
      BY <1>3, <2>1 DEF Reached, Receiving
    <3> QED BY <3>3, <3>4
  <2> HIDE DEF p
  <2> QED BY <1>1, <2>1, <2>3, <2>4, <2>5, <2>6, <2>7, ReachedStays DEF p
<1> QED BY <1>2, <1>3

LEMMA QuietKeeps ==
  ASSUME FilesType, AllFit, Apart, ContentInv, NEW s \in Sessions, Quiet(s)
  PROVE  ContentInv'
BY QuietTree, QuietNumbered, QuietHeld, QuietAstray, QuietProgress DEF ContentInv

-----------------------------------------------------------------------------
(***************************************************************************)
(* The steps of a command at work, but for the one that makes a file.      *)
(***************************************************************************)
TreeLoses(s) ==
  \/ tree' = tree
  \/ \E r \in Files!Paths : /\ Files!CanDelete(r) /\ Affects(cmd[s], r)
                            /\ tree' = Files!Without({r})

\* A command that ends.
LEMMA QuietEnd ==
  ASSUME NEW s \in Sessions, Worked(s), cmd'[s] = Files!Idle, UNCHANGED data, TreeLoses(s),
         Replies(s)
  PROVE  Quiet(s)
<1>1. cmd'[s].pc = "idle" /\ ~Fresh(cmd'[s]) /\ ~Streams(cmd'[s])
  BY IdleIsCommand DEF Fresh, Streams
<1> QED BY <1>1 DEF Quiet, TreeLoses

\* A command that goes on, where only its pc changes.
LEMMA QuietGoing ==
  ASSUME FilesType, AllFit, NEW s \in Sessions, NEW pc2 \in Files!Pcs,
         cmd[s].pc # "idle", pc2 \notin {"idle", "loop"}, Files!Goes(s, pc2),
         pc2 \in {"connect", "receive", "send", "sent"} => cmd[s].file \in Files!Files,
         UNCHANGED <<data, started, wanted>>, TreeLoses(s),
         cmd[s].verb \in {"STOR", "APPE"} =>
           /\ pc2 \in {"check", "exists", "delete", "open"} => Fresh(cmd[s])
           /\ pc2 \in {"connect", "receive"} => Streams(cmd[s]),
         cmd[s].alone => Reached(s)'
  PROVE  Quiet(s)
<1>1. Worked(s) /\ cmd'[s] = [cmd[s] EXCEPT !.pc = pc2] /\ cmd[s] \in Commands
  BY GoingOnIsWork, AtWork
<1>2. /\ cmd'[s].pc = pc2 /\ cmd'[s].verb = cmd[s].verb /\ cmd'[s].file = cmd[s].file
  BY <1>1 DEF Commands
<1>3. Fresh(cmd'[s]) => Fresh(cmd[s])
  BY <1>2 DEF Fresh
<1>4. Streams(cmd'[s]) => Streams(cmd[s]) /\ cmd'[s].file = cmd[s].file
  BY <1>2 DEF Streams
<1>5. Replies(s)
  BY <1>2, NothingIsReplied
<1> QED BY <1>1, <1>2, <1>3, <1>4, <1>5 DEF Quiet, TreeLoses

\* What is said of a command at its target when its pc changes.
LEMMA AfterGoing ==
  ASSUME FilesType, NEW s \in Sessions, NEW pc2, Files!Goes(s, pc2)
  PROVE  /\ cmd'[s].pc = pc2 /\ cmd'[s].verb = cmd[s].verb /\ cmd'[s].target = cmd[s].target
         /\ cmd'[s].file = cmd[s].file /\ cmd'[s].pos = cmd[s].pos
         /\ cmd'[s].bytes = cmd[s].bytes /\ cmd'[s].number = cmd[s].number
<1>1. cmd[s] \in Commands /\ cmd'[s] = [cmd[s] EXCEPT !.pc = pc2]
  BY DEF FilesType, Files!Goes
<1> QED BY <1>1 DEF Commands

\* The target of a command other than RMD is all it affects.
LEMMA OnlyTarget ==
  ASSUME FilesType, AllFit, NEW s \in Sessions, cmd[s].verb \notin {"RMD", "RETR"},
         cmd[s].pc # "idle"
  PROVE  /\ Files!Changes(cmd[s]) /\ cmd[s].target \in Files!Paths
         /\ \A q \in Files!Paths : Affects(cmd[s], q) <=> q = cmd[s].target
BY AtWork DEF Affects, Files!Changes

LEMMA SameContent ==
  ASSUME UNCHANGED <<tree, data>>, NEW p
  PROVE  /\ Files!Content(p)' = Files!Content(p) /\ (Files!Exists(p)' <=> Files!Exists(p))
         /\ (Files!IsDirectory(p)' <=> Files!IsDirectory(p))
         /\ (Files!IsFile(p)' <=> Files!IsFile(p))
         /\ (Files!CanMake(p)' <=> Files!CanMake(p))
BY DEF Files!Content, Files!Exists, Files!IsDirectory, Files!IsFile, Files!CanMake

LEMMA StoreChecksDirectoryQuiet ==
  ASSUME FilesType, AllFit, ContentInv, NEW s \in Sessions, Files!StoreChecksDirectory(s)
  PROVE  Quiet(s)
<1>1. /\ cmd[s].pc = "check" /\ cmd[s].verb \in {"STOR", "APPE"}
      /\ UNCHANGED <<tree, data, started>>
  BY DEF Files!StoreChecksDirectory, Files!Storing, Files!fsVars
<1>2. cmd[s].alone => Untouched(s) /\ HasChangedNothing(cmd[s])
  BY <1>1 DEF ContentInv, Progress, Reached, HasChangedNothing
<1>3. CASE Files!EndsWithoutChange(s)
  <2>1. Replies(s)
    BY <1>1, <1>2, <1>3, OnlyTarget, EndsAsItWas, SameContent DEF Untouched
  <2> QED BY <1>1, <1>3, <2>1, EndWithoutChange, EndIsWork, QuietEnd DEF TreeLoses
<1>4. CASE ~Files!IsDirectory(cmd[s].target) /\ Files!Goes(s, "exists") /\ UNCHANGED wanted
  <2>1. cmd[s].alone => Reached(s)'
    <3> SUFFICES ASSUME cmd[s].alone PROVE Reached(s)'
      OBVIOUS
    <3>1. /\ cmd'[s].pc = "exists" /\ cmd'[s].verb = cmd[s].verb
          /\ cmd'[s].target = cmd[s].target
      BY <1>4, AfterGoing
    <3>2. Untouched(s)'
      BY <1>1, <1>2, <1>4, <3>1, SameContent DEF Untouched
    <3>3. NoDirectory(s)'
      BY <1>1, <1>4, <3>1 DEF NoDirectory, Files!IsDirectory, Files!Exists
    <3> QED BY <1>1, <3>1, <3>2, <3>3 DEF Reached, Freed, Found, Receiving, Sending, Streams, Fetches
  <2>2. "exists" \in Files!Pcs /\ Fresh(cmd[s])
    BY <1>1 DEF Files!Pcs, Fresh
  <2> QED BY <1>1, <1>4, <2>1, <2>2, QuietGoing DEF TreeLoses
<1> QED BY <1>3, <1>4 DEF Files!StoreChecksDirectory

LEMMA StoreChecksExistsQuiet ==
  ASSUME FilesType, AllFit, ContentInv, NEW s \in Sessions, Files!StoreChecksExists(s)
  PROVE  Quiet(s)
<1> DEFINE p == cmd[s].target
           pc2 == IF Files!Exists(p) /\ cmd[s].verb = "STOR" THEN "delete" ELSE "open"
<1>1. /\ cmd[s].pc = "exists" /\ cmd[s].verb \in {"STOR", "APPE"} /\ Files!Goes(s, pc2)
      /\ UNCHANGED <<tree, data, started, wanted>>
  BY DEF Files!StoreChecksExists, Files!Storing, Files!fsVars, Files!historyVars
<1>2. /\ cmd'[s].pc = pc2 /\ cmd'[s].verb = cmd[s].verb /\ cmd'[s].target = p
  BY <1>1, AfterGoing
<1>3. ASSUME cmd[s].alone PROVE Reached(s)'
  <2>1. /\ wanted[p] = Unknown \/ Files!Content(p) = wanted[p]
        /\ ~Files!IsDirectory(p)
    BY <1>1, <1>3 DEF ContentInv, Progress, Reached, Untouched, HasChangedNothing, NoDirectory
  <2>2. Untouched(s)' /\ NoDirectory(s)'
    BY <1>1, <1>2, <2>1, SameContent DEF Untouched, NoDirectory
  <2>3. Freed(s)'
    <3> SUFFICES ASSUME Found(cmd'[s])
                 PROVE  ~Files!Exists(p)' /\ wanted'[p] \in {None, Unknown}
      BY <1>2 DEF Freed
    <3>1. ~Files!Exists(p)
      BY <1>1, <1>2 DEF Found
    <3>2. wanted[p] \in {None, Unknown}
      BY <2>1, <3>1 DEF Files!Content, Files!IsFile
    <3> QED BY <1>1, <1>2, <3>1, <3>2, SameContent
  <2> QED BY <1>2, <2>2, <2>3, <1>1 DEF Reached, Receiving, Sending, Streams, Fetches
<1>4. pc2 \in Files!Pcs /\ pc2 \in {"delete", "open"} /\ Fresh(cmd[s])
  BY <1>1 DEF Files!Pcs, Fresh
<1> HIDE DEF pc2
<1> QED BY <1>1, <1>3, <1>4, QuietGoing DEF TreeLoses

LEMMA StoreDeletesQuiet ==
  ASSUME FilesType, AllFit, AllSound, ContentInv, NEW s \in Sessions, Files!StoreDeletes(s)
  PROVE  Quiet(s)
<1> DEFINE p == cmd[s].target
<1>1. /\ cmd[s].pc = "delete" /\ cmd[s].verb = "STOR" /\ p \in Files!Paths
      /\ UNCHANGED <<data, started>>
  BY AtWork DEF Files!StoreDeletes, Files!Storing, AllSound, Sound
<1>2. cmd[s].alone => wanted[p] = Unknown \/ Files!Content(p) = wanted[p]
  BY <1>1 DEF ContentInv, Progress, Reached, Untouched, HasChangedNothing
<1>3. CASE Files!EndsWithoutChange(s) /\ UNCHANGED tree
  <2>1. Replies(s)
    BY <1>1, <1>2, <1>3, OnlyTarget, EndsAsItWas, SameContent
  <2> QED BY <1>1, <1>3, <2>1, EndWithoutChange, EndIsWork, QuietEnd DEF TreeLoses
<1>4. CASE /\ Files!CanDelete(p) /\ tree' = Files!Without({p}) /\ Files!Goes(s, "open")
           /\ UNCHANGED wanted
  <2>1. /\ cmd'[s].pc = "open" /\ cmd'[s].verb = cmd[s].verb /\ cmd'[s].target = p
    BY <1>4, AfterGoing
  <2>2. Affects(cmd[s], p)
    BY <1>1, OnlyTarget
  <2>3. TreeLoses(s)
    BY <1>1, <1>4, <2>2 DEF TreeLoses
  <2>4. /\ p \notin DOMAIN tree' /\ \A e \in Files!Paths : e # p => SameAt(tree', tree, e)
    <3>1. p \in Seq(Known) /\ Files!IsPrefix(p, p)
      BY <1>1, PathsAreSequences, PrefixIsOrder
    <3> QED BY <1>1, <1>4, <3>1, DeletedTree DEF ContentInv
  <2>5. Files!CanMake(p)'
    <3> DEFINE d == Files!Front(p)
    <3>1. Files!Changeable(p) /\ p \in DOMAIN tree
      BY <1>4 DEF Files!CanDelete, Files!Exists
    <3>2. p # <<>>
      BY <3>1 DEF Files!Changeable, Files!Below, Files!IsPrefix, Files!Storage
    <3>3. p \in Seq(Known)
      BY <1>1, PathsAreSequences
    <3>4. d \in Seq(Known) /\ Files!Below(d, p)
      BY <3>2, <3>3, FrontIsAbove
    <3>5. d \in Files!Paths /\ d # p
      BY <1>1, <3>4, PrefixesArePaths DEF Files!Below
    <3>6. d \in DOMAIN tree /\ tree[d] = None
      BY <3>1, <3>4, <3>5 DEF ContentInv, IsTree, DirectoriesAbove
    <3>7. d \in DOMAIN tree' /\ tree'[d] = None
      BY <2>4, <3>5, <3>6 DEF SameAt
    <3> QED BY <2>1, <2>4, <3>1, <3>7 DEF Files!CanMake, Files!IsDirectory, Files!Exists
  <2>6. Reached(s)'
    <3>1. Untouched(s)' /\ Receiving(s)' /\ Sending(s)'
      BY <1>1, <2>1 DEF Untouched, HasChangedNothing, Receiving, Sending, Streams, Fetches
    <3>2. NoDirectory(s)'
      BY <2>1, <2>4 DEF NoDirectory, Files!IsDirectory, Files!Exists
    <3>3. Freed(s)'
      BY <2>1, <2>4, <2>5 DEF Freed, Files!Exists, Files!CanMake, Files!IsDirectory
    <3> QED BY <3>1, <3>2, <3>3 DEF Reached
  <2>7. "open" \in Files!Pcs /\ Fresh(cmd[s])
    BY <1>1 DEF Files!Pcs, Fresh
  <2> QED BY <1>1, <1>4, <2>3, <2>6, <2>7, QuietGoing
<1> QED BY <1>3, <1>4 DEF Files!StoreDeletes

LEMMA StoreCannotOpenQuiet ==
  ASSUME FilesType, AllFit, ContentInv, NEW s \in Sessions, Files!StoreCannotOpen(s)
  PROVE  Quiet(s)
<1> DEFINE p == cmd[s].target
<1>1. /\ cmd[s].pc = "open" /\ cmd[s].verb \in {"STOR", "APPE"}
      /\ UNCHANGED <<tree, data, started>> /\ Files!EndsWithoutChange(s)
      /\ ~Files!CanMake(p)
  BY DEF Files!StoreCannotOpen, Files!Storing, Files!fsVars, Files!CanOpen
<1>2. ASSUME cmd[s].alone, wanted[p] # Unknown PROVE Files!Content(p) = wanted[p]
  <2>1. Reached(s)
    BY <1>1, <1>2 DEF ContentInv, Progress
  <2>2. CASE cmd[s].verb = "APPE"
    BY <1>1, <1>2, <2>1, <2>2 DEF Reached, Untouched, HasChangedNothing
  <2>3. CASE cmd[s].verb = "STOR"
    BY <1>1, <1>2, <2>1, <2>3 DEF Reached, Freed, Found, Files!Content, Files!IsFile
  <2> QED BY <1>1, <2>2, <2>3
<1>3. Replies(s)
  BY <1>1, <1>2, OnlyTarget, EndsAsItWas, SameContent
<1> QED BY <1>1, <1>3, EndWithoutChange, EndIsWork, QuietEnd DEF TreeLoses

\* The transfer that ends has sent what its reply says.
LEMMA TransferReplies ==
  ASSUME FilesType, AllFit, ContentInv, NEW s \in Sessions, Streams(cmd[s]),
         UNCHANGED <<tree, data>>,
         NEW content \in {Files!AfterTransfer(s), Unknown}, Files!Ends(s, {cmd[s].target}, content)
  PROVE  Replies(s)
<1> DEFINE p == cmd[s].target
           c == cmd[s]
<1>1. /\ c.pc # "idle" /\ c.verb \in {"STOR", "APPE"} /\ p \in Files!Paths
      /\ c \in Commands /\ c.file \in Files!Files
  BY AtWork DEF Streams, Fits
<1>2. ASSUME c.alone, content # Unknown, NEW q \in Files!Paths, q = p
      PROVE  /\ Files!Content(q)' = content
             /\ wanted[q] = Unknown =>
                  \A t \in Sessions \ {s} : Streams(cmd[t]) => cmd[t].file # tree'[q]
  <2>1. /\ p \in DOMAIN tree /\ tree[p] = c.file /\ c.file # None
        /\ c.verb = "STOR" =>
             /\ data[c.file] = c.bytes
             /\ \A t \in Sessions \ {s} : Streams(cmd[t]) => cmd[t].file # c.file
        /\ c.verb = "APPE" =>
             wanted[c.target] = Unknown \/ data[c.file] = Old(c.target) \o c.bytes
    BY <1>1, <1>2, FilesConstants DEF ContentInv, Progress, Reached, Receiving
  <2>2. Files!Content(q)' = data[c.file]
    <3>1. Files!Content(q) = data[c.file]
      BY <1>2, <2>1 DEF Files!Content, Files!IsFile, Files!Exists
    <3> QED BY <3>1, SameContent
  <2>3. content = IF c.verb = "STOR" THEN c.bytes
                  ELSE IF Old(p) = Unknown THEN Unknown ELSE Old(p) \o c.bytes
    BY <1>2, Zenon DEF Files!AfterTransfer, Old
  <2>4. wanted[p] = Unknown => Old(p) = Unknown
    BY PartsAssumption DEF Old, Files!CommandsAssumption
  <2>5. CASE c.verb = "STOR"
    BY <1>2, <2>1, <2>2, <2>3, <2>5
  <2>6. CASE c.verb = "APPE"
    <3>1. wanted[p] # Unknown /\ Old(p) # Unknown
      BY <1>2, <2>3, <2>4, <2>6
    <3> QED BY <1>2, <2>1, <2>2, <2>3, <2>6, <3>1, Zenon
  <2> QED BY <1>1, <2>5, <2>6
<1>3. /\ Files!Changes(c) /\ \A q \in Files!Paths : Affects(c, q) <=> q = p
  BY <1>1, OnlyTarget
<1>4. {p} \in SUBSET {q \in Files!Paths : Affects(c, q)}
  BY <1>1, <1>3
<1>5. c.alone => \A q \in Files!Paths : Affects(c, q) =>
        /\ q \in {p} /\ content # Unknown => Files!Content(q)' = content
        /\ q \notin {p} /\ wanted[q] # Unknown => Files!Content(q)' = wanted[q]
  BY <1>2, <1>3
<1>6. c.alone /\ content # Unknown => \A q \in {p} :
        q \in DOMAIN tree' /\ wanted[q] = Unknown =>
          \A t \in Sessions \ {s} : Streams(cmd[t]) => cmd[t].file # tree'[q]
  BY <1>1, <1>2
<1> QED BY <1>3, <1>4, <1>5, <1>6, EndsWell

LEMMA StoreEndsQuiet ==
  ASSUME FilesType, AllFit, ContentInv, NEW s \in Sessions,
         \/ Files!StoreEnds(s) \/ Files!StoreCannotWrite(s)
         \/ Files!StoreConnects(s) /\ Files!Ends(s, {cmd[s].target}, Files!AfterTransfer(s))
  PROVE  Quiet(s)
<1>1. /\ Streams(cmd[s]) /\ UNCHANGED <<tree, data, started>> /\ cmd[s].pc # "idle"
      /\ \E content \in {Files!AfterTransfer(s), Unknown} : Files!Ends(s, {cmd[s].target}, content)
  BY DEF Files!StoreEnds, Files!StoreCannotWrite, Files!StoreConnects, Files!Storing,
         Files!fsVars, Streams
<1>2. Replies(s)
  BY <1>1, TransferReplies
<1>3. cmd'[s] = Files!Idle /\ Worked(s)
  <2>1. Files!AfterTransfer(s) \in Texts \cup {None, Unknown}
    BY <1>1, AtWork
  <2> QED BY <1>1, <2>1, EndOfCommand, EndIsWork
<1> QED BY <1>1, <1>2, <1>3, QuietEnd DEF TreeLoses

LEMMA StoreConnectsQuiet ==
  ASSUME FilesType, AllFit, ContentInv, NEW s \in Sessions, Files!StoreConnects(s)
  PROVE  Quiet(s)
<1>1. CASE Files!Ends(s, {cmd[s].target}, Files!AfterTransfer(s))
  BY <1>1, StoreEndsQuiet
<1>2. CASE Files!Goes(s, "receive") /\ UNCHANGED wanted
  <2>1. /\ cmd[s].pc = "connect" /\ cmd[s].verb \in {"STOR", "APPE"} /\ Streams(cmd[s])
        /\ UNCHANGED <<tree, data, started>>
    BY DEF Files!StoreConnects, Files!Storing, Files!fsVars, Streams
  <2>2. /\ cmd'[s].pc = "receive" /\ cmd'[s].verb = cmd[s].verb
        /\ cmd'[s].target = cmd[s].target /\ cmd'[s].file = cmd[s].file
        /\ cmd'[s].pos = cmd[s].pos /\ cmd'[s].bytes = cmd[s].bytes
    BY <1>2, AfterGoing
  <2>3. "receive" \in Files!Pcs /\ cmd[s].file \in Files!Files
    BY <2>1, AtWork DEF Files!Pcs, Fits
  <2>4. \A t \in Sessions \ {s} : cmd'[t] = cmd[t]
    BY <1>2, <2>1, <2>3, GoingOn
  <2>5. ASSUME cmd[s].alone PROVE Reached(s)'
    <3>1. Receiving(s)
      BY <2>1, <2>5 DEF ContentInv, Progress, Reached
    <3>2. Receiving(s)'
      BY <1>2, <2>1, <2>2, <2>4, <3>1 DEF Receiving, Streams, Old
    <3> QED BY <2>1, <2>2, <3>2 DEF Reached, Untouched, HasChangedNothing, NoDirectory, Freed,
                                    Found, Sending, Fetches
  <2> QED BY <1>2, <2>1, <2>3, <2>5, QuietGoing DEF TreeLoses
<1> QED BY <1>1, <1>2 DEF Files!StoreConnects

\* A write at the end of a file.
LEMMA WrittenAtEnd ==
  ASSUME NEW text \in Texts, NEW chunk \in Files!Chunks
  PROVE  Files!Written(text, Len(text), chunk) = Append(text, chunk)
<1> DEFINE n == Len(text)
<1>1. n \in Nat
  BY DEF Texts
<1>2. Files!Written(text, n, chunk) =
        [k \in 1..(n + 1) |-> IF k = n + 1 THEN chunk
                              ELSE IF k <= n THEN text[k] ELSE Files!Hole]
  BY <1>1 DEF Files!Written
<1>3. /\ Append(text, chunk) \in Seq(Files!Chunks) /\ Len(Append(text, chunk)) = n + 1
      /\ \A k \in 1..(n + 1) : Append(text, chunk)[k] = IF k = n + 1 THEN chunk ELSE text[k]
  BY DEF Texts
<1> DEFINE w == Files!Written(text, n, chunk)
<1>4. w \in Texts
  BY <1>1, WrittenText
<1>5. Len(w) = n + 1 /\ \A k \in 1..(n + 1) : w[k] = IF k = n + 1 THEN chunk ELSE text[k]
  <2>1. DOMAIN w = 1..(n + 1) /\ \A k \in 1..(n + 1) : w[k] = IF k = n + 1 THEN chunk ELSE text[k]
    <3> HIDE DEF n
    <3> QED BY <1>1, <1>2
  <2>2. DOMAIN w = 1..Len(w) /\ Len(w) \in Nat
    BY <1>4 DEF Texts
  <2> HIDE DEF w, n
  <2> QED BY <1>1, <2>1, <2>2
<1> HIDE DEF w, n
<1>6. w = Append(text, chunk)
  <2>1. w \in Seq(Files!Chunks)
    BY <1>4 DEF Texts
  <2>2. Len(w) = Len(Append(text, chunk)) /\ \A k \in 1..Len(w) : w[k] = Append(text, chunk)[k]
    BY <1>3, <1>5
  <2> QED BY <1>3, <2>1, <2>2, SameElements
<1> QED BY <1>6 DEF w, n

LEMMA StoreReceivesQuiet ==
  ASSUME FilesType, AllFit, ContentInv, NEW s \in Sessions, Files!StoreReceives(s)
  PROVE  Quiet(s)
<1> DEFINE c == cmd[s]
           f == c.file
           chunk == <<c.number, Len(c.bytes) + 1>>
           pos == IF c.verb = "APPE" THEN Len(data[f]) ELSE c.pos
           d == [c EXCEPT !.pos = @ + 1, !.bytes = Append(@, chunk)]
<1>1. /\ c.pc = "receive" /\ c.verb \in {"STOR", "APPE"} /\ Streams(c)
      /\ Len(c.bytes) < MaxChunks /\ data' = [data EXCEPT ![f] = Files!Written(@, pos, chunk)]
      /\ cmd' = [cmd EXCEPT ![s] = d]
      /\ UNCHANGED <<tree, wanted>>
  BY DEF Files!StoreReceives, Files!Storing, Files!historyVars, Streams
<1>2. /\ c \in Commands /\ f \in Files!Files /\ f # None /\ DOMAIN cmd = Sessions
      /\ c.number \in 0..MaxCommands /\ data \in [Files!Files -> Texts]
  BY <1>1, AtWork, FilesConstants DEF Fits, FilesType
<1>3. c.bytes \in Texts /\ c.pos \in Nat
  BY <1>2 DEF Commands
<1>4. chunk \in Files!Chunks
  <2>1. Len(c.bytes) \in Nat
    BY <1>3 DEF Texts
  <2>2. Len(c.bytes) < MaxChunks /\ MaxChunks \in Nat
    BY <1>1, FilesConstants
  <2>3. Len(c.bytes) + 1 \in 1..MaxChunks
    BY ONLY <2>1, <2>2
  <2> QED BY <1>2, <2>3 DEF Files!Chunks
<1>5. /\ cmd'[s].pc = "receive" /\ cmd'[s].verb = c.verb /\ cmd'[s].target = c.target
      /\ cmd'[s].file = f /\ cmd'[s].pos = c.pos + 1
      /\ \A t \in Sessions \ {s} : cmd'[t] = cmd[t]
  BY <1>1, <1>2 DEF Commands
<1>6. cmd'[s].bytes = Append(c.bytes, chunk)
  BY <1>1, <1>2 DEF Commands
<1>7. Worked(s)
  BY StoreReceivesWorks DEF Works
<1> HIDE DEF chunk
<1>8. ASSUME c.alone PROVE Receiving(s)'
  <2>1. /\ c.target \in DOMAIN tree /\ tree[c.target] = f
        /\ c.verb = "STOR" =>
             /\ data[f] = c.bytes /\ c.pos = Len(c.bytes)
             /\ \A t \in Sessions \ {s} : Streams(cmd[t]) => cmd[t].file # f
        /\ c.verb = "APPE" => wanted[c.target] = Unknown \/ data[f] = Old(c.target) \o c.bytes
    BY <1>1, <1>8 DEF ContentInv, Progress, Reached, Receiving
  <2>2. data'[f] = Files!Written(data[f], pos, chunk) /\ data[f] \in Texts
    BY <1>1, <1>2
  <2>3. pos = Len(data[f])
    BY <1>1, <2>1
  <2>4. data'[f] = Append(data[f], chunk)
    BY <1>4, <2>2, <2>3, WrittenAtEnd
  <2>5. c.verb = "STOR" => /\ data'[f] = cmd'[s].bytes /\ cmd'[s].pos = Len(cmd'[s].bytes)
    BY <1>3, <1>5, <1>6, <2>1, <2>4 DEF Texts
  <2>6. ASSUME c.verb = "APPE", wanted[c.target] # Unknown
        PROVE  data'[f] = Old(c.target) \o cmd'[s].bytes
    <3>1. Old(c.target) \in Texts
      BY <1>1, <2>6, AtWork DEF FilesType, Old, Texts
    <3>2. data[f] = Old(c.target) \o c.bytes
      BY <2>1, <2>6
    <3>3. Append(Old(c.target) \o c.bytes, chunk) = Old(c.target) \o Append(c.bytes, chunk)
      <4> DEFINE o == Old(c.target)
                 b == c.bytes
      <4>1. o \in Seq(Files!Chunks) /\ b \in Seq(Files!Chunks) /\ chunk \in Files!Chunks
        BY <1>3, <1>4, <3>1 DEF Texts
      <4> HIDE DEF o, b
      <4>2. Append(o \o b, chunk) = o \o Append(b, chunk)
        BY <4>1
      <4> QED BY <4>2 DEF o, b
    <3> QED BY <1>6, <2>4, <3>2, <3>3
  <2>7. Old(c.target)' = Old(cmd'[s].target) /\ Old(cmd'[s].target) = Old(c.target)
    BY <1>1, <1>5 DEF Old
  <2> QED BY <1>1, <1>5, <2>1, <2>5, <2>6, <2>7 DEF Receiving, Streams, Old
<1>9. c.alone => Reached(s)'
  BY <1>1, <1>5, <1>8 DEF Reached, Untouched, HasChangedNothing, NoDirectory, Freed, Found,
                          Sending, Fetches
<1>10. \A g \in Files!Files : data'[g] = data[g] \/ g = f
  BY <1>1, <1>2
<1>11. Replies(s)
  BY <1>1, <1>5, NothingIsReplied
<1>12. ~Fresh(cmd'[s])
  BY <1>5 DEF Fresh
<1> QED BY <1>1, <1>5, <1>7, <1>9, <1>10, <1>11, <1>12 DEF Quiet

-----------------------------------------------------------------------------
\* RETR only reads: what a step of it can do wrong is to have sent something else.
LEMMA RetrQuiet ==
  ASSUME FilesType, AllFit, AllSound, ContentInv, NEW s \in Sessions,
         \/ Files!RetrOpens(s) \/ Files!RetrConnects(s) \/ Files!RetrSends(s)
         \/ Files!RetrReplies(s)
  PROVE  Quiet(s)
<1> DEFINE c == cmd[s]
           p == c.target
           f == c.file
<1>1. /\ c.verb = "RETR" /\ c.pc # "idle" /\ c.pc \in {"open", "connect", "send", "sent"}
      /\ UNCHANGED <<tree, data, wanted>>
      /\ ~Files!Changes(c) /\ ~Streams(c) /\ c \in Commands /\ Fits(c) /\ DOMAIN cmd = Sessions
      /\ c.bytes \in Texts /\ c.pos \in Nat
  BY DEF Files!RetrOpens, Files!RetrConnects, Files!RetrSends, Files!RetrReplies,
         Files!Retrieving, Files!fsVars, Files!historyVars, Files!Changes, Streams, FilesType,
         AllFit, Commands
<1>2. Worked(s)
  BY RetrOpensWorks, RetrConnectsWorks, RetrSendsWorks, RetrRepliesWorks DEF Works
<1>3. Replies(s)
  BY <1>1, NothingIsReplied
<1>4. CASE cmd'[s].pc = "idle"
  <2>1. ~Fresh(cmd'[s]) /\ ~Streams(cmd'[s])
    BY <1>4 DEF Fresh, Streams
  <2> QED BY <1>1, <1>2, <1>3, <1>4, <2>1 DEF Quiet
<1>5. SUFFICES ASSUME cmd'[s].pc # "idle"
               PROVE  cmd[s].alone => Sending(s)'
  <2>1. SUFFICES ASSUME cmd'[s].pc # "idle" PROVE Quiet(s)
    BY <1>4
  <2>2. cmd'[s].verb = "RETR"
    BY <1>1, <1>2, <2>1, IdleIsCommand DEF Worked
  <2>3. cmd[s].alone => Reached(s)'
    BY <1>5, <2>1, <2>2 DEF Reached, Untouched, HasChangedNothing, NoDirectory, Freed, Found,
                            Receiving, Streams
  <2> QED BY <1>1, <1>2, <1>3, <2>2, <2>3 DEF Quiet, Fresh, Streams
<1>6. SUFFICES ASSUME c.alone PROVE Sending(s)'
  OBVIOUS
<1>7. Reached(s)
  BY <1>1, <1>6 DEF ContentInv, Progress
<1>8. cmd'[s] # Files!Idle
  BY <1>5, IdleIsCommand
<1>9. CASE Files!RetrOpens(s)
  <2>1. /\ Files!IsFile(p) /\ c.pc = "open"
        /\ cmd' = [cmd EXCEPT ![s] = [cmd[s] EXCEPT !.pc = "connect", !.file = tree[p]]]
    BY <1>1, <1>8, <1>9 DEF Files!RetrOpens, Files!RetrEnds, Files!Retrieving
  <2>2. /\ cmd'[s].pc = "connect" /\ cmd'[s].target = p /\ cmd'[s].file = tree[p]
        /\ cmd'[s].pos = c.pos /\ cmd'[s].bytes = c.bytes
    BY <1>1, <2>1 DEF Commands
  <2>3. c.pos = 0 /\ c.bytes = <<>>
    BY <2>1 DEF AllSound, Sound
  <2>4. p \in DOMAIN tree /\ tree[p] \in Files!Files
    BY <2>1 DEF ContentInv, IsTree, TreeType, Files!IsFile, Files!Exists
  <2>5. data[tree[p]] \in Texts
    BY <2>4 DEF FilesType
  <2>6. Len(data[tree[p]]) \in Nat /\ SubSeq(data[tree[p]], 1, 0) = <<>>
    BY <2>5 DEF Texts
  <2> QED BY <1>1, <2>2, <2>3, <2>4, <2>6 DEF Sending
<1>10. CASE c.pc # "open"
  <2>1. /\ Sending(s) /\ Fetches(c) /\ f \in Files!Files
    BY <1>1, <1>7, <1>10 DEF Reached, Fetches, Fits
  <2>2. data[f] \in Texts
    BY <2>1 DEF FilesType
  <2>3. CASE Files!RetrSends(s) /\ c.pos < Len(data[f])
    <3> DEFINE d == [c EXCEPT !.pos = @ + 1, !.bytes = Append(@, data[f][c.pos + 1])]
    <3>1. cmd' = [cmd EXCEPT ![s] = d] /\ c.pc = "send"
      BY <1>1, <1>8, <2>3 DEF Files!RetrSends, Files!RetrEnds, Files!Retrieving
    <3>2. /\ cmd'[s].pc = "send" /\ cmd'[s].target = p /\ cmd'[s].file = f
          /\ cmd'[s].pos = c.pos + 1
      BY <1>1, <3>1 DEF Commands
    <3>3. cmd'[s].bytes = Append(c.bytes, data[f][c.pos + 1])
      BY <1>1, <3>1 DEF Commands
    <3>4. ASSUME c.bytes = SubSeq(data[f], 1, c.pos)
          PROVE  /\ c.pos + 1 <= Len(data[f])
                 /\ cmd'[s].bytes = SubSeq(data[f], 1, c.pos + 1)
      <4> DEFINE t == data[f]
                 n == c.pos
      <4>1. t \in Seq(Files!Chunks) /\ n \in Nat /\ n < Len(t) /\ Len(t) \in Nat
        BY <1>1, <2>2, <2>3 DEF Texts
      <4> HIDE DEF t, n
      <4>2. Append(SubSeq(t, 1, n), t[n + 1]) = SubSeq(t, 1, n + 1)
        BY <4>1
      <4>3. n + 1 <= Len(t)
        BY <4>1
      <4> QED BY <3>3, <3>4, <4>2, <4>3 DEF t, n
    <3> QED BY <1>1, <2>1, <3>2, <3>4 DEF Sending, Fetches
  <2>4. ASSUME NEW pc2 \in {"send", "sent"}, Files!Goes(s, pc2),
               pc2 = "sent" => ~(c.pos < Len(data[f]))
        PROVE  Sending(s)'
    <3>1. /\ cmd'[s].pc = pc2 /\ cmd'[s].target = p /\ cmd'[s].file = f
          /\ cmd'[s].pos = c.pos /\ cmd'[s].bytes = c.bytes
      BY <2>4, AfterGoing
    <3>2. Len(data[f]) \in Nat
      BY <2>2 DEF Texts
    <3>3. c.pos <= Len(data[f]) /\ pc2 = "sent" => c.pos = Len(data[f])
      BY <1>1, <2>4, <3>2
    <3> QED BY <1>1, <2>1, <3>1, <3>3 DEF Sending, Fetches
  <2> QED BY <1>8, <1>10, <2>3, <2>4, <1>1
          DEF Files!RetrOpens, Files!RetrConnects, Files!RetrSends, Files!RetrReplies,
              Files!Retrieving, Files!RetrEnds
<1> QED BY <1>9, <1>10, <1>1 DEF Files!RetrOpens, Files!RetrConnects, Files!RetrSends,
                                 Files!RetrReplies, Files!Retrieving
-----------------------------------------------------------------------------
LEMMA DeleQuiet ==
  ASSUME FilesType, AllFit, ContentInv, NEW s \in Sessions,
         Files!DeleChecksDirectory(s) \/ Files!DeleDeletes(s)
  PROVE  Quiet(s)
<1> DEFINE p == cmd[s].target
<1>1. /\ cmd[s].verb = "DELE" /\ cmd[s].pc # "idle" /\ cmd[s].pc \in {"check", "delete"}
      /\ UNCHANGED <<data, started>> /\ p \in Files!Paths
      /\ Files!Changes(cmd[s]) /\ \A q \in Files!Paths : Affects(cmd[s], q) <=> q = p
  <2>1. /\ cmd[s].verb = "DELE" /\ cmd[s].pc # "idle" /\ cmd[s].pc \in {"check", "delete"}
        /\ UNCHANGED <<data, started>>
    BY DEF Files!DeleChecksDirectory, Files!DeleDeletes, Files!fsVars
  <2> QED BY <2>1, OnlyTarget
<1>2. cmd[s].alone => wanted[p] = Unknown \/ Files!Content(p) = wanted[p]
  BY <1>1 DEF ContentInv, Progress, Reached, Untouched, HasChangedNothing
<1>3. CASE Files!EndsWithoutChange(s) /\ UNCHANGED tree
  <2>1. Replies(s)
    BY <1>1, <1>2, <1>3, EndsAsItWas, SameContent
  <2> QED BY <1>1, <1>3, <2>1, EndWithoutChange, EndIsWork, QuietEnd DEF TreeLoses
<1>4. CASE UNCHANGED tree /\ Files!Goes(s, "delete") /\ UNCHANGED wanted
  <2>1. /\ cmd'[s].pc = "delete" /\ cmd'[s].verb = "DELE" /\ cmd'[s].target = p
    BY <1>1, <1>4, AfterGoing
  <2>2. cmd[s].alone => Untouched(s)'
    BY <1>1, <1>2, <1>4, <2>1, SameContent DEF Untouched
  <2>3. cmd[s].alone => Reached(s)'
    BY <2>1, <2>2 DEF Reached, NoDirectory, Freed, Found, Receiving, Sending, Streams, Fetches
  <2>4. "delete" \in Files!Pcs
    BY DEF Files!Pcs
  <2> QED BY <1>1, <1>4, <2>3, <2>4, QuietGoing DEF TreeLoses
<1>5. CASE /\ Files!CanDelete(p) /\ tree' = Files!Without({p}) /\ Files!Ends(s, {p}, None)
  <2>1. {p} \in SUBSET {q \in Files!Paths : Affects(cmd[s], q)}
    BY <1>1
  <2>2. \A q \in Files!Paths : q = p => q \notin DOMAIN tree'
    <3>1. p \in Seq(Known) /\ Files!IsPrefix(p, p)
      BY <1>1, PathsAreSequences, PrefixIsOrder
    <3> QED BY <1>1, <1>5, <3>1, DeletedTree DEF ContentInv
  <2>3. \A q \in Files!Paths : q = p => Files!Content(q)' = None
    BY <2>2 DEF Files!Content, Files!IsFile, Files!Exists
  <2>4. Replies(s)
    <3>1. cmd[s].alone => \A q \in Files!Paths : Affects(cmd[s], q) =>
            /\ q \in {p} /\ None # Unknown => Files!Content(q)' = None
            /\ q \notin {p} /\ wanted[q] # Unknown => Files!Content(q)' = wanted[q]
      BY <1>1, <2>3
    <3>2. cmd[s].alone /\ None # Unknown => \A q \in {p} :
            q \in DOMAIN tree' /\ wanted[q] = Unknown =>
              \A t \in Sessions \ {s} : Streams(cmd[t]) => cmd[t].file # tree'[q]
      BY <1>1, <2>2
    <3> QED BY <1>1, <1>5, <2>1, <3>1, <3>2, EndsWell
  <2>5. TreeLoses(s)
    BY <1>1, <1>5 DEF TreeLoses
  <2>6. cmd'[s] = Files!Idle /\ Worked(s)
    BY <1>1, <1>5, EndOfCommand, EndIsWork
  <2> QED BY <1>1, <2>4, <2>5, <2>6, QuietEnd
<1> QED BY <1>3, <1>4, <1>5 DEF Files!DeleChecksDirectory, Files!DeleDeletes, Files!fsVars

\* A call of recursiveDelete returns, which has deleted r or nothing.  The outermost one
\* has been about the target, so that where it says to have succeeded nothing is left.
LEMMA ReturnsQuiet ==
  ASSUME FilesType, AllFit, ContentInv, NEW s \in Sessions,
         cmd[s].verb = "RMD", cmd[s].pc \notin {"idle", "connect"}, UNCHANGED <<data, started>>,
         NEW r \in Files!Paths, Files!IsPrefix(cmd[s].target, r), NEW success \in BOOLEAN,
         success => Files!CanDelete(r),
         tree' = IF success THEN Files!Without({r}) ELSE tree,
         NEW frames \in Seq(Frames), FramesFit(cmd[s].target, frames),
         frames = <<>> => r = cmd[s].target,
         Files!Returns(s, success, frames)
  PROVE  Quiet(s)
<1> DEFINE p == cmd[s].target
           P == {q \in Files!Paths : Files!IsPrefix(p, q)}
           content == IF success THEN None ELSE Unknown
<1>1. /\ Files!Changes(cmd[s]) /\ \A q : Affects(cmd[s], q) <=> Files!IsPrefix(p, q)
      /\ p \in Files!Paths
  BY AtWork DEF Files!Changes, Affects
<1>2. TreeLoses(s)
  BY <1>1 DEF TreeLoses
<1>3. Worked(s) /\ cmd'[s].pc \in {"idle", "loop"}
  BY ReturnIsWork
<1>4. CASE frames = <<>>
  <2>1. Files!Ends(s, P, content)
    BY <1>4 DEF Files!Returns
  <2>2. P \in SUBSET {q \in Files!Paths : Affects(cmd[s], q)}
    BY <1>1
  <2>3. content # Unknown => content = None /\ success
    OBVIOUS
  <2>4. ASSUME success
        PROVE  \A q \in P : q \notin DOMAIN tree' /\ Files!Content(q)' = None
    <3>1. IsTree(tree) /\ Files!CanDelete(p) /\ tree' = Files!Without({p})
      BY <1>4, <2>4 DEF ContentInv
    <3>2. \A q \in P : q \notin DOMAIN tree'
      BY <3>1, DeletedTree
    <3> QED BY <3>2 DEF Files!Content, Files!IsFile, Files!Exists
  <2>5. \A q \in Files!Paths : Affects(cmd[s], q) => q \in P
    BY <1>1
  <2> HIDE DEF P, content
  <2>6. Replies(s)
    <3>1. cmd[s].alone => \A q \in Files!Paths : Affects(cmd[s], q) =>
            /\ q \in P /\ content # Unknown => Files!Content(q)' = content
            /\ q \notin P /\ wanted[q] # Unknown => Files!Content(q)' = wanted[q]
      BY <2>3, <2>4, <2>5
    <3>2. cmd[s].alone /\ content # Unknown => \A q \in P :
            q \in DOMAIN tree' /\ wanted[q] = Unknown =>
              \A t \in Sessions \ {s} : Streams(cmd[t]) => cmd[t].file # tree'[q]
      BY <2>3, <2>4
    <3> QED BY <1>1, <2>1, <2>2, <3>1, <3>2, EndsWell
  <2>7. cmd'[s] = Files!Idle
    BY <2>1 DEF Files!Ends, FilesType
  <2> QED BY <1>2, <1>3, <2>6, <2>7, QuietEnd
<1>5. CASE frames # <<>>
  <2>1. /\ UNCHANGED wanted
        /\ \E more : cmd' = [cmd EXCEPT ![s] = [cmd[s] EXCEPT !.pc = "loop", !.frames = more]]
    BY <1>5, Zenon DEF Files!Returns
  <2>2. cmd'[s].pc = "loop" /\ cmd'[s].verb = "RMD"
    BY <2>1 DEF FilesType, Commands
  <2>3. Reached(s)' /\ ~Fresh(cmd'[s]) /\ ~Streams(cmd'[s])
    BY <2>2 DEF Reached, Untouched, HasChangedNothing, NoDirectory, Freed, Found, Receiving,
                Sending, Streams, Fetches, Fresh
  <2>4. Replies(s)
    BY <2>1, <2>2, NothingIsReplied
  <2> QED BY <1>2, <1>3, <2>3, <2>4 DEF Quiet, TreeLoses
<1> QED BY <1>4, <1>5

LEMMA RmdEntersQuiet ==
  ASSUME FilesType, AllFit, AllSound, ContentInv, NEW s \in Sessions, Files!RmdEnters(s)
  PROVE  Quiet(s)
<1> DEFINE r == Files!Entry(s)
<1>1. /\ cmd[s].verb = "RMD" /\ cmd[s].pc = "enter" /\ UNCHANGED <<data, started>>
      /\ cmd[s] \in Commands /\ Fits(cmd[s])
  BY AtWork DEF Files!RmdEnters, Files!Removing
<1>2. CASE Files!Goes(s, "list") /\ UNCHANGED <<tree, wanted>>
  <2>1. cmd'[s].pc = "list" /\ cmd'[s].verb = "RMD"
    BY <1>1, <1>2, AfterGoing
  <2>2. Reached(s)'
    BY <2>1 DEF Reached, Untouched, HasChangedNothing, NoDirectory, Freed, Found, Receiving,
                Sending, Streams, Fetches
  <2>3. "list" \in Files!Pcs
    BY DEF Files!Pcs
  <2> QED BY <1>1, <1>2, <2>2, <2>3, QuietGoing DEF TreeLoses
<1>3. CASE /\ tree' = IF Files!CanDelete(r) THEN Files!Without({r}) ELSE tree
           /\ Files!Returns(s, Files!CanDelete(r), cmd[s].frames)
  <2>1. r \in Files!Paths /\ Files!IsPrefix(cmd[s].target, r)
    BY <1>1, EntryIsBelow
  <2>2. cmd[s].frames \in Seq(Frames) /\ FramesFit(cmd[s].target, cmd[s].frames)
    BY <1>1 DEF Commands, Fits, FramesFit
  <2>3. cmd[s].frames = <<>> => r = cmd[s].target
    BY <1>1 DEF AllSound, Sound, Files!Entry
  <2>4. Files!CanDelete(r) \in BOOLEAN
    BY DEF Files!CanDelete
  <2>5. cmd[s].pc \notin {"idle", "connect"}
    BY <1>1
  <2> DEFINE success == Files!CanDelete(r)
  <2>6. /\ success \in BOOLEAN /\ (success => Files!CanDelete(r))
        /\ tree' = IF success THEN Files!Without({r}) ELSE tree
        /\ Files!Returns(s, success, cmd[s].frames)
    BY <1>3, <2>4
  <2> HIDE DEF r, success
  <2> QED BY <1>1, <2>1, <2>2, <2>3, <2>5, <2>6, ReturnsQuiet
<1> QED BY <1>2, <1>3 DEF Files!RmdEnters

LEMMA RmdLoopsQuiet ==
  ASSUME FilesType, AllFit, AllSound, ContentInv, NEW s \in Sessions, Files!RmdLoops(s)
  PROVE  Quiet(s)
<1> DEFINE frames == cmd[s].frames
           n == Len(frames)
           top == Files!Last(frames)
           deleted == top.success /\ Files!CanDelete(top.dir)
<1>1. /\ cmd[s].verb = "RMD" /\ cmd[s].pc = "loop" /\ UNCHANGED <<data, started>>
      /\ cmd[s] \in Commands /\ Fits(cmd[s])
  BY AtWork, Zenon DEF Files!RmdLoops, Files!Removing
<1>2. /\ frames \in Seq(Frames) /\ frames # <<>> /\ FramesFit(cmd[s].target, frames)
      /\ n \in 1..n /\ top = frames[n] /\ top \in Frames
  <2>1. frames \in Seq(Frames) /\ frames # <<>> /\ FramesFit(cmd[s].target, frames)
    BY <1>1 DEF Commands, Fits, FramesFit
  <2> HIDE DEF frames
  <2> QED BY <2>1 DEF Files!Last
<1>3. ASSUME NEW e \in top.todo,
             cmd' = [cmd EXCEPT ![s].pc = "enter", ![s].entry = e, ![s].frames[n].todo = @ \ {e}],
             UNCHANGED <<tree, wanted>>
      PROVE  Quiet(s)
  <2>1. cmd'[s].pc = "enter" /\ cmd'[s].verb = "RMD"
    BY <1>1, <1>3 DEF FilesType, Commands
  <2>2. Reached(s)' /\ ~Fresh(cmd'[s]) /\ ~Streams(cmd'[s])
    BY <2>1 DEF Reached, Untouched, HasChangedNothing, NoDirectory, Freed, Found, Receiving,
                Sending, Streams, Fetches, Fresh
  <2>3. Replies(s)
    BY <1>3, <2>1, NothingIsReplied
  <2>4. Worked(s)
    BY RmdLoopsWorks DEF Works
  <2> QED BY <1>1, <1>3, <2>2, <2>3, <2>4 DEF Quiet
<1>4. ASSUME tree' = IF deleted THEN Files!Without({top.dir}) ELSE tree,
             Files!Returns(s, deleted, Files!Front(frames))
      PROVE  Quiet(s)
  <2> DEFINE r == top.dir
             rest == Files!Front(frames)
  <2>1. deleted \in BOOLEAN /\ (deleted => Files!CanDelete(r))
    BY DEF Files!CanDelete
  <2>2. r \in Files!Paths /\ Files!IsPrefix(cmd[s].target, r)
    BY <1>2 DEF Frames, FramesFit
  <2>3. /\ rest \in Seq(Frames) /\ Len(rest) = n - 1 /\ \A i \in 1..(n - 1) : rest[i] = frames[i]
    BY <1>2, FrontIsThere
  <2>4. FramesFit(cmd[s].target, rest)
    <3> HIDE DEF frames, top
    <3>1. n \in Nat /\ \A i \in 1..(n - 1) : i \in 1..n
      BY <1>2
    <3> HIDE DEF n, rest
    <3>2. \A i \in 1..(n - 1) : /\ Files!IsPrefix(cmd[s].target, frames[i].dir)
                              /\ \A e \in frames[i].todo : Files!IsPrefix(cmd[s].target, e)
      BY <1>2, <3>1 DEF FramesFit, n
    <3> QED BY <2>3, <3>2 DEF FramesFit
  <2>5. rest = <<>> => r = cmd[s].target
    <3> SUFFICES ASSUME rest = <<>> PROVE r = cmd[s].target
      OBVIOUS
    <3>1. n = 1
      <4>1. n \in Nat /\ n - 1 = 0
        <5>1. Len(rest) = 0
          OBVIOUS
        <5> HIDE DEF rest, frames
        <5> QED BY <1>2, <2>3, <5>1
      <4> HIDE DEF n
      <4> QED BY <4>1
    <3>2. top = frames[1]
      BY <1>2, <3>1
    <3>3. frames[1].dir = cmd[s].target
      BY <1>1, <1>2 DEF AllSound, Sound
    <3> QED BY <3>2, <3>3
  <2>6. cmd[s].pc \notin {"idle", "connect"}
    BY <1>1
  <2>7. tree' = (IF deleted THEN Files!Without({r}) ELSE tree) /\ Files!Returns(s, deleted, rest)
    BY <1>4
  <2> HIDE DEF r, rest, deleted
  <2> QED BY <1>1, <2>1, <2>2, <2>3, <2>4, <2>5, <2>6, <2>7, ReturnsQuiet
<1> QED BY <1>3, <1>4, Zenon DEF Files!RmdLoops

LEMMA WorkIsQuiet ==
  ASSUME FilesType, AllFit, AllSound, ContentInv, NEW s \in Sessions, WorkSteps(s),
         ~Files!StoreOpens(s)
  PROVE  Quiet(s)
BY StoreChecksDirectoryQuiet, StoreChecksExistsQuiet, StoreDeletesQuiet, StoreCannotOpenQuiet,
   StoreConnectsQuiet, StoreReceivesQuiet, StoreEndsQuiet, RetrQuiet, DeleQuiet,
   RmdEntersQuiet, RmdLoopsQuiet DEF WorkSteps

-----------------------------------------------------------------------------
(***************************************************************************)
(* The step that makes a file, or empties one.                             *)
(***************************************************************************)
\* The path p of tree' names f, which no other path names.
Opened(p, f) ==
  /\ p \in Files!Paths /\ f \in Files!Files /\ f # None
  /\ IsTree(tree') /\ p \in DOMAIN tree' /\ tree'[p] = f
  /\ \A e \in Files!Paths : e # p => SameAt(tree', tree, e)
  /\ \A e \in DOMAIN tree : e # p => tree[e] # f
  /\ \/ p \in DOMAIN tree /\ tree[p] = f
     \/ /\ p \notin DOMAIN tree /\ data[f] = <<>>
        /\ \A t \in Sessions : Streams(cmd[t]) => cmd[t].file # f

LEMMA StoreOpensFile ==
  ASSUME FilesType, AllFit, StoresInv, ContentInv, NEW s \in Sessions, Files!StoreOpens(s)
  PROVE  \E f :
           /\ Opened(cmd[s].target, f) /\ f <= started
           /\ \A t \in Sessions \ {s} : Fresh(cmd[t]) => cmd[t].number # f
           /\ data' = IF cmd[s].verb = "STOR" THEN [data EXCEPT ![f] = <<>>] ELSE data
           /\ cmd' = [cmd EXCEPT ![s] = [cmd[s] EXCEPT !.pc = "connect", !.file = f]]
           /\ UNCHANGED wanted
<1> DEFINE p == cmd[s].target
           f == IF Files!IsFile(p) THEN tree[p] ELSE cmd[s].number
<1>1. /\ cmd[s].verb \in {"STOR", "APPE"} /\ cmd[s].pc = "open" /\ Files!CanOpen(p)
      /\ tree' = Files!With(p, f)
      /\ data' = IF cmd[s].verb = "STOR" THEN [data EXCEPT ![f] = <<>>] ELSE data
      /\ cmd' = [cmd EXCEPT ![s] = [cmd[s] EXCEPT !.pc = "connect", !.file = f]]
      /\ UNCHANGED wanted
  BY DEF Files!StoreOpens, Files!Storing
<1>2. /\ cmd[s] \in Commands /\ p \in Files!Paths /\ TreeType(tree) /\ IsTree(tree)
      /\ Fresh(cmd[s]) /\ cmd[s].number \in Files!Files
  BY <1>1, AtWork, FilesConstants DEF Fresh, ContentInv
<1>3. CASE Files!IsFile(p)
  <2>1. f = tree[p] /\ p \in DOMAIN tree /\ f \in Files!Files /\ f # None
    BY <1>2, <1>3 DEF TreeType, Files!IsFile, Files!Exists
  <2>2. tree' = tree
    <3>1. tree' = [q \in (DOMAIN tree) \cup {p} |-> IF q = p THEN f ELSE tree[q]]
      BY <1>1 DEF Files!With
    <3> HIDE DEF p, f
    <3>2. tree = [q \in DOMAIN tree |-> tree[q]]
      BY <1>2 DEF TreeType
    <3> QED BY <2>1, <3>1, <3>2
  <2>3. Opened(p, f)
    BY <1>2, <2>1, <2>2 DEF Opened, SameAt, IsTree, OneName
  <2>4. Used(f)
    BY <2>1 DEF Used
  <2>5. f <= started /\ \A t \in Sessions : Fresh(cmd[t]) => cmd[t].number # f
    BY <2>1, <2>4 DEF StoresInv, Named
  <2> QED BY <1>1, <2>3, <2>5, Zenon
<1>4. CASE ~Files!IsFile(p)
  <2>1. f = cmd[s].number /\ f \in Files!Files /\ Files!CanMake(p) /\ f # None
    BY <1>1, <1>2, <1>4, FilesConstants DEF Files!CanOpen
  <2>2. ~Used(f)
    BY <1>2, <2>1 DEF StoresInv, Named
  <2>3. \A e \in DOMAIN tree : tree[e] # f
    BY <2>2 DEF Used
  <2>4. data[f] = <<>> /\ \A t \in Sessions : Streams(cmd[t]) => cmd[t].file # f
    BY <1>2, <2>1 DEF ContentInv, Numbered
  <2>5. Opened(p, f)
    <3> HIDE DEF p, f
    <3>1. /\ IsTree(tree') /\ p \notin DOMAIN tree /\ p \in DOMAIN tree' /\ tree'[p] = f
          /\ \A e \in Files!Paths : e # p => SameAt(tree', tree, e)
      BY <1>1, <1>2, <2>1, <2>3, GrownTree
    <3> QED BY <1>2, <2>1, <2>3, <2>4, <3>1 DEF Opened
  <2>6. f <= started /\ \A t \in Sessions \ {s} : Fresh(cmd[t]) => cmd[t].number # f
    BY <1>2, <2>1, FilesConstants DEF StoresInv, Named, FilesType
  <2> QED BY <1>1, <2>5, <2>6, Zenon
<1> QED BY <1>3, <1>4, Zenon

LEMMA StoreOpensKeeps ==
  ASSUME FilesType, AllFit, AllSound, StoresInv, Apart, ContentInv, NEW s \in Sessions,
         Files!StoreOpens(s)
  PROVE  ContentInv'
<1>1. PICK f :
        /\ Opened(cmd[s].target, f) /\ f <= started
        /\ \A t \in Sessions \ {s} : Fresh(cmd[t]) => cmd[t].number # f
        /\ data' = IF cmd[s].verb = "STOR" THEN [data EXCEPT ![f] = <<>>] ELSE data
        /\ cmd' = [cmd EXCEPT ![s] = [cmd[s] EXCEPT !.pc = "connect", !.file = f]]
        /\ UNCHANGED wanted
  BY StoreOpensFile, Zenon
<1>2. PICK p : p = cmd[s].target
  OBVIOUS
<1>3. /\ cmd[s].verb \in {"STOR", "APPE"} /\ cmd[s].pc = "open" /\ UNCHANGED started
      /\ cmd[s] \in Commands /\ DOMAIN cmd = Sessions /\ cmd[s].bytes = <<>> /\ cmd[s].pos = 0
  BY DEF Files!StoreOpens, Files!Storing, FilesType, AllSound, Sound
<1>4. /\ cmd'[s].pc = "connect" /\ cmd'[s].verb = cmd[s].verb /\ cmd'[s].target = p
      /\ cmd'[s].file = f /\ cmd'[s].pos = 0 /\ cmd'[s].bytes = <<>>
      /\ cmd'[s].alone = cmd[s].alone
      /\ \A t \in Sessions \ {s} : cmd'[t] = cmd[t]
  BY <1>1, <1>2, <1>3 DEF Commands
<1>5. /\ p \in Files!Paths /\ f \in Files!Files /\ f # None
      /\ IsTree(tree') /\ p \in DOMAIN tree' /\ tree'[p] = f
      /\ \A e \in Files!Paths : e # p => SameAt(tree', tree, e)
      /\ \A e \in DOMAIN tree : e # p => tree[e] # f
      /\ \/ p \in DOMAIN tree /\ tree[p] = f
         \/ /\ p \notin DOMAIN tree /\ data[f] = <<>>
            /\ \A t \in Sessions : Streams(cmd[t]) => cmd[t].file # f
  BY <1>1, <1>2 DEF Opened
<1>6. /\ \A g \in Files!Files : g # f => data'[g] = data[g]
      /\ data[f] = <<>> => data'[f] = <<>>
      /\ data'[f] = IF cmd[s].verb = "STOR" THEN <<>> ELSE data[f]
  BY <1>1, <1>5 DEF FilesType
<1>7. ~Fresh(cmd'[s])
  BY <1>4 DEF Fresh
<1>8. Numbered'
  <2>1. ASSUME NEW g \in Files!Files, g > started' PROVE data'[g] = <<>>
    BY <1>3, <1>6, <2>1 DEF ContentInv, Numbered
  <2>2. ASSUME NEW t \in Sessions, Fresh(cmd'[t]) PROVE data'[cmd'[t].number] = <<>>
    <3>1. t # s /\ cmd'[t] = cmd[t] /\ cmd[t].number \in Files!Files
      BY <1>4, <1>7, <2>2, AtWork, FilesConstants DEF Fresh
    <3> QED BY <1>1, <1>6, <2>2, <3>1 DEF ContentInv, Numbered
  <2>3. ASSUME NEW t \in Sessions, Streams(cmd'[t])
        PROVE  /\ cmd'[t].file <= started'
               /\ \A u \in Sessions : Fresh(cmd'[u]) => cmd'[t].file # cmd'[u].number
    BY <1>1, <1>3, <1>4, <1>7, <2>3 DEF ContentInv, Numbered
  <2> QED BY <2>1, <2>2, <2>3 DEF Numbered
<1>9. Held'
  <2> SUFFICES ASSUME NEW q \in Files!Paths, wanted'[q] # Unknown,
                      \A t \in Sessions : ~Affects(cmd'[t], q)
               PROVE  Files!Content(q)' = wanted'[q]
    BY DEF Held
  <2>1. q # p
    BY <1>3, <1>4 DEF Affects, Files!Changes
  <2>2. \A t \in Sessions : ~Affects(cmd[t], q)
    BY <1>2, <1>3, <1>4, <2>1 DEF Affects
  <2>3. Files!Content(q) = wanted[q] /\ SameAt(tree', tree, q)
    BY <1>1, <1>5, <2>1, <2>2 DEF ContentInv, Held
  <2>4. Files!IsFile(q) => tree[q] \in Files!Files /\ tree[q] # f
    BY <1>5, <2>1 DEF ContentInv, IsTree, TreeType, Files!IsFile, Files!Exists
  <2> QED BY <1>1, <1>6, <2>3, <2>4 DEF SameAt, Files!Content, Files!IsFile, Files!Exists
<1>10. Astray'
  <2> SUFFICES ASSUME NEW t \in Sessions, Streams(cmd'[t]), NEW q \in DOMAIN tree',
                      tree'[q] = cmd'[t].file
               PROVE  q = cmd'[t].target \/ wanted'[q] = Unknown
    BY DEF Astray
  <2>1. q \in Files!Paths
    BY <1>5 DEF IsTree, TreeType
  <2>2. q # p => q \in DOMAIN tree /\ tree'[q] = tree[q]
    BY <1>5, <2>1 DEF SameAt
  <2>3. CASE t = s
    BY <1>4, <1>5, <2>2, <2>3
  <2>4. CASE t # s
    <3>1. cmd'[t] = cmd[t] /\ Streams(cmd[t])
      BY <1>4, <2>4
    <3>2. q \in DOMAIN tree /\ tree[q] = cmd[t].file
      BY <1>5, <2>2, <3>1
    <3> QED BY <1>1, <3>1, <3>2 DEF ContentInv, Astray
  <2> QED BY <2>3, <2>4
<1>11. ASSUME NEW u \in Sessions, u # s, cmd[u].pc # "idle", cmd[u].alone PROVE Reached(u)'
  <2> DEFINE o == cmd[u].target
  <2>1. /\ cmd'[u] = cmd[u] /\ SameCommand(cmd[u], cmd'[u]) /\ Reached(u)
        /\ o \in Files!Paths /\ o \in Seq(Known) /\ Files!IsPrefix(o, o)
    BY <1>4, <1>11, AtWork, PrefixIsOrder DEF SameCommand, ContentInv, Progress
  <2>2. ASSUME NEW d \in Seq(Known), Files!IsPrefix(d, o) PROVE d # p
    <3>1. s \in Sessions \ {u} /\ Files!IsPrefix(d, cmd[u].target)
      BY <1>11, <2>2
    <3>2. ~Affects(cmd[s], d)
      BY <1>11, <2>2, <3>1, NobodyElse DEF RemovalInv
    <3> QED BY <1>2, <1>3, <3>2 DEF Affects, Files!Changes
  <2>3. SameAt(tree', tree, o) /\ o # p
    BY <1>5, <2>1, <2>2
  <2>4. o # <<>> => SameAt(tree', tree, Files!Front(o))
    <3> SUFFICES ASSUME o # <<>> PROVE SameAt(tree', tree, Files!Front(o))
      OBVIOUS
    <3> DEFINE d == Files!Front(o)
    <3>1. d \in Seq(Known) /\ Files!IsPrefix(d, o)
      BY <2>1, FrontIsAbove DEF Files!Below
    <3>2. d \in Files!Paths
      BY <2>1, <3>1, PrefixesArePaths
    <3> HIDE DEF d
    <3>3. SameAt(tree', tree, d)
      BY <1>5, <2>2, <3>1, <3>2
    <3> QED BY <3>3 DEF d
  <2>5. Files!IsFile(o) => tree[o] \in Files!Files /\ tree[o] # f
    BY <1>5, <2>3 DEF ContentInv, IsTree, TreeType, Files!IsFile, Files!Exists
  <2>6. \A t \in Sessions \ {u} : Streams(cmd'[t]) =>
          \/ Streams(cmd[t]) /\ cmd'[t].file = cmd[t].file
          \/ Files!IsFile(o) => cmd'[t].file # tree[o]
    BY <1>4, <2>5
  <2>7. Files!IsFile(o) => data'[tree[o]] = data[tree[o]]
    BY <1>6, <2>5
  <2>8. wanted'[o] = wanted[o]
    BY <1>1
  <2> HIDE DEF o
  <2> QED BY <1>11, <2>1, <2>3, <2>4, <2>6, <2>7, <2>8, ReachedStays DEF o
<1>12. ASSUME cmd[s].alone PROVE Receiving(s)'
  <2>1. Reached(s)
    BY <1>3, <1>12 DEF ContentInv, Progress
  <2>2. CASE cmd[s].verb = "STOR"
    <3>1. p \notin DOMAIN tree
      BY <1>2, <1>3, <2>1, <2>2 DEF Reached, Freed, Found, Files!Exists
    <3>2. \A t \in Sessions \ {s} : Streams(cmd'[t]) => cmd'[t].file # f
      BY <1>4, <1>5, <3>1
    <3>3. data'[f] = <<>> /\ Len(<<>>) = 0
      BY <1>6, <2>2
    <3> QED BY <1>4, <1>5, <2>2, <3>2, <3>3 DEF Receiving
  <2>3. CASE cmd[s].verb = "APPE"
    <3>1. wanted[p] = Unknown \/ Files!Content(p) = wanted[p]
      BY <1>2, <1>3, <2>1, <2>3 DEF Reached, Untouched, HasChangedNothing
    <3>2. ASSUME wanted[p] # Unknown PROVE data[f] = Old(p)
      <4>1. data[f] \in Texts /\ None \notin Texts
        BY <1>5, PartsAssumption DEF FilesType, Files!CommandsAssumption, Texts
      <4>2. CASE p \in DOMAIN tree
        BY <1>5, <3>1, <3>2, <4>1, <4>2 DEF Files!Content, Files!IsFile, Files!Exists, Old
      <4>3. CASE p \notin DOMAIN tree
        BY <1>5, <3>1, <3>2, <4>3 DEF Files!Content, Files!IsFile, Files!Exists, Old
      <4> QED BY <4>2, <4>3
    <3>3. data'[f] = data[f] /\ data[f] \o <<>> = data[f]
      <4>1. data[f] \in Texts
        BY <1>5 DEF FilesType
      <4> QED BY <1>6, <2>3, <4>1 DEF Texts
    <3>4. Old(p)' = Old(p)
      BY <1>1 DEF Old
    <3> QED BY <1>1, <1>4, <1>5, <2>3, <3>2, <3>3, <3>4 DEF Receiving, Old
  <2> QED BY <1>3, <2>2, <2>3
<1>13. Progress'
  <2> SUFFICES ASSUME NEW u \in Sessions, cmd'[u].pc # "idle", cmd'[u].alone
               PROVE  Reached(u)'
    BY DEF Progress
  <2>1. CASE u = s
    BY <1>3, <1>4, <1>12, <2>1
       DEF Reached, Untouched, HasChangedNothing, NoDirectory, Freed, Found, Sending, Fetches
  <2>2. CASE u # s
    BY <1>4, <1>11, <2>2
  <2> QED BY <2>1, <2>2
<1> QED BY <1>5, <1>8, <1>9, <1>10, <1>13 DEF ContentInv

-----------------------------------------------------------------------------
(***************************************************************************)
(* The beginning of a command, and the commands of one step.               *)
(***************************************************************************)
\* A command stands where it stood when nothing changes at its target or above it.
LEMMA StandsStill ==
  ASSUME FilesType, AllFit, UNCHANGED data,
         NEW u \in Sessions, cmd[u].pc # "idle", Reached(u), SameCommand(cmd[u], cmd'[u]),
         wanted'[cmd[u].target] = wanted[cmd[u].target],
         \A e \in Files!Paths : Files!IsPrefix(e, cmd[u].target) => SameAt(tree', tree, e),
         \A t \in Sessions : Streams(cmd'[t]) /\ t # u => Streams(cmd[t]) /\ cmd'[t].file = cmd[t].file
  PROVE  Reached(u)'
<1> DEFINE o == cmd[u].target
<1>1. o \in Files!Paths /\ o \in Seq(Known) /\ Files!IsPrefix(o, o)
  BY AtWork, PrefixIsOrder
<1>2. SameAt(tree', tree, o)
  BY <1>1
<1>3. o # <<>> => SameAt(tree', tree, Files!Front(o))
  <2> SUFFICES ASSUME o # <<>> PROVE SameAt(tree', tree, Files!Front(o))
    OBVIOUS
  <2> DEFINE d == Files!Front(o)
  <2>1. d \in Seq(Known) /\ Files!IsPrefix(d, o)
    BY <1>1, FrontIsAbove DEF Files!Below
  <2>2. d \in Files!Paths
    BY <1>1, <2>1, PrefixesArePaths
  <2> HIDE DEF d
  <2>3. SameAt(tree', tree, d)
    BY <2>1, <2>2
  <2> QED BY <2>3 DEF d
<1>4. \A t \in Sessions \ {u} : Streams(cmd'[t]) =>
        \/ Streams(cmd[t]) /\ cmd'[t].file = cmd[t].file
        \/ Files!IsFile(o) => cmd'[t].file # tree[o]
  OBVIOUS
<1>5. Files!IsFile(o) => data'[tree[o]] = data[tree[o]]
  OBVIOUS
<1>6. wanted'[o] = wanted[o]
  OBVIOUS
<1> HIDE DEF o
<1> QED BY <1>2, <1>3, <1>4, <1>5, <1>6, ReachedStays DEF o

LEMMA NumberedStays ==
  ASSUME FilesType, AllFit, Numbered, UNCHANGED data, started' \in 0..MaxCommands,
         started <= started',
         \A t \in Sessions :
           /\ Fresh(cmd'[t]) => /\ data[cmd'[t].number] = <<>>
                               /\ \A u \in Sessions : Streams(cmd[u]) => cmd[u].file # cmd'[t].number
           /\ Streams(cmd'[t]) => Streams(cmd[t]) /\ cmd'[t].file = cmd[t].file
  PROVE  Numbered'
<1>1. \A f \in Files!Files : f > started' => f > started
  BY FilesConstants DEF FilesType
<1>2. \A f \in Files!Files : f <= started => f <= started'
  BY FilesConstants DEF FilesType
<1>3. \A t \in Sessions : Streams(cmd[t]) => cmd[t].file \in Files!Files
  BY AtWork DEF Streams, Fits
<1>4. \A f \in Files!Files : f > started' => data'[f] = <<>>
  BY <1>1 DEF Numbered
<1>5. \A t \in Sessions : Streams(cmd'[t]) => cmd'[t].file <= started'
  BY <1>2, <1>3 DEF Numbered
<1> QED BY <1>4, <1>5 DEF Numbered

\* A step that changes no file, by which at most one command begins.
LEMMA NothingChanges ==
  ASSUME FilesType, AllFit, ContentInv, UNCHANGED <<tree, data, wanted>>,
         started' \in 0..MaxCommands, started <= started', NEW s \in Sessions,
         \A t \in Sessions \ {s} : SameCommand(cmd[t], cmd'[t]),
         ~Streams(cmd'[s]),
         \A q \in Files!Paths : Affects(cmd[s], q) => Affects(cmd'[s], q),
         Fresh(cmd'[s]) => /\ data[cmd'[s].number] = <<>>
                           /\ \A t \in Sessions : Streams(cmd[t]) => cmd[t].file # cmd'[s].number,
         cmd'[s].pc # "idle" /\ cmd'[s].alone => Reached(s)'
  PROVE  ContentInv'
<1>1. \A t \in Sessions \ {s} :
        /\ Fresh(cmd'[t]) => Fresh(cmd[t]) /\ cmd'[t].number = cmd[t].number
        /\ Streams(cmd'[t]) <=> Streams(cmd[t])
        /\ cmd'[t].file = cmd[t].file /\ cmd'[t].target = cmd[t].target
        /\ cmd'[t].pc = cmd[t].pc /\ (cmd'[t].alone => cmd[t].alone)
        /\ \A q \in Files!Paths : Affects(cmd'[t], q) <=> Affects(cmd[t], q)
  BY DEF SameCommand, Fresh, Streams, Affects, Files!Changes
<1>2. IsTree(tree')
  BY DEF ContentInv
<1>3. Numbered'
  <2>1. \A t \in Sessions : Streams(cmd'[t]) => Streams(cmd[t]) /\ cmd'[t].file = cmd[t].file
    BY <1>1
  <2>2. \A t \in Sessions : Fresh(cmd'[t]) =>
          /\ data[cmd'[t].number] = <<>>
          /\ \A u \in Sessions : Streams(cmd[u]) => cmd[u].file # cmd'[t].number
    BY <1>1 DEF ContentInv, Numbered
  <2> QED BY <2>1, <2>2, NumberedStays DEF ContentInv
<1>4. Held'
  <2> SUFFICES ASSUME NEW q \in Files!Paths, wanted'[q] # Unknown,
                      \A t \in Sessions : ~Affects(cmd'[t], q)
               PROVE  Files!Content(q)' = wanted'[q]
    BY DEF Held
  <2>1. \A t \in Sessions : ~Affects(cmd[t], q)
    BY <1>1
  <2> QED BY <2>1, SameContent DEF ContentInv, Held
<1>5. Astray'
  BY <1>1 DEF ContentInv, Astray
<1>6. Progress'
  <2> SUFFICES ASSUME NEW u \in Sessions, cmd'[u].pc # "idle", cmd'[u].alone
               PROVE  Reached(u)'
    BY DEF Progress
  <2>1. CASE u # s
    <3>1. cmd[u].pc # "idle" /\ Reached(u) /\ SameCommand(cmd[u], cmd'[u])
      BY <1>1, <2>1 DEF ContentInv, Progress
    <3>2. \A t \in Sessions : Streams(cmd'[t]) /\ t # u => Streams(cmd[t]) /\ cmd'[t].file = cmd[t].file
      BY <1>1
    <3>3. \A e \in Files!Paths : SameAt(tree', tree, e)
      BY DEF SameAt
    <3> QED BY <3>1, <3>2, <3>3, StandsStill
  <2> QED BY <2>1
<1> QED BY <1>2, <1>3, <1>4, <1>5, <1>6 DEF ContentInv

LEMMA BeginKeeps ==
  ASSUME FilesType, AllFit, StoresInv, ContentInv, NEW s \in Sessions, Begins(s)
  PROVE  ContentInv'
<1>1. PICK verb \in Verbs, pc2 \in {"check", "open", "enter"}, p \in Files!Paths :
        /\ Files!Begin(s, verb, pc2, p)
        /\ verb = "RMD" <=> pc2 = "enter"
        /\ verb = "RETR" <=> pc2 = "open"
  BY DEF Begins
<1>2. Begun(s, verb, pc2, p)
  BY <1>1, BeginOfCommand
<1>3. UNCHANGED <<tree, data, wanted>>
  BY <1>1 DEF Files!Begin, Files!fsVars, Files!historyVars
<1>4. /\ cmd[s].pc = "idle" /\ started \in Nat /\ MaxCommands \in Nat
      /\ started < MaxCommands /\ started' = started + 1
      /\ cmd'[s].pc = pc2 /\ cmd'[s].verb = verb /\ cmd'[s].number = started + 1
      /\ cmd'[s].target = p
  BY <1>2, FilesConstants DEF Begun, FilesType
<1>5. /\ started' \in 0..MaxCommands /\ started <= started'
      /\ started + 1 \in Files!Files /\ started + 1 > started
  BY <1>4, FilesConstants
<1>6. data[started + 1] = <<>>
  BY <1>5 DEF ContentInv, Numbered
<1>7. \A t \in Sessions : Streams(cmd[t]) => cmd[t].file # started + 1
  <2>1. \A t \in Sessions : Streams(cmd[t]) => cmd[t].file <= started /\ cmd[t].file \in Files!Files
    BY AtWork DEF ContentInv, Numbered, Streams, Fits
  <2>2. ~(started + 1 <= started)
    BY <1>4
  <2> QED BY <2>1, <2>2
<1>8. ASSUME cmd'[s].alone PROVE Reached(s)'
  <2>1. \A t \in Sessions : ~Affects(cmd[t], p)
    <3>1. ~Affects(cmd[s], p)
      BY <1>4 DEF Affects, Files!Changes
    <3>2. ASSUME NEW t \in Sessions \ {s}, Affects(cmd[t], p) PROVE FALSE
      <4>1. Files!Overlap(p, cmd[t].target) /\ Files!Changes(cmd[t])
        BY <3>2, AffectsBelow DEF Affects
      <4> QED BY <1>2, <1>8, <4>1 DEF Begun
    <3> QED BY <3>1, <3>2
  <2>2. wanted[p] = Unknown \/ Files!Content(p) = wanted[p]
    BY <2>1 DEF ContentInv, Held
  <2>3. Untouched(s)'
    BY <1>3, <1>4, <2>2, SameContent DEF Untouched
  <2> QED BY <1>1, <1>4, <2>3 DEF Reached, NoDirectory, Freed, Found, Receiving, Sending,
                                  Streams, Fetches
<1>9. ~Streams(cmd'[s]) /\ \A q : ~Affects(cmd[s], q)
  BY <1>4 DEF Streams, Affects, Files!Changes
<1>10. \A t \in Sessions \ {s} : SameCommand(cmd[t], cmd'[t])
  BY <1>2 DEF Begun
<1> QED BY <1>3, <1>4, <1>5, <1>6, <1>7, <1>8, <1>9, <1>10, NothingChanges

\* RMD lists a directory, or ends the process.
LEMMA RmdListsKeeps ==
  ASSUME FilesType, AllFit, ContentInv, NEW s \in Sessions, Files!RmdLists(s)
  PROVE  ContentInv'
<1>1. /\ cmd[s].verb = "RMD" /\ cmd[s].pc = "list" /\ cmd[s] \in Commands
      /\ UNCHANGED <<tree, data, wanted, started>>
      /\ \/ UNCHANGED cmd
         \/ \E f : cmd' = [cmd EXCEPT ![s] = [cmd[s] EXCEPT !.pc = "loop", !.frames = f]]
  BY Zenon DEF Files!RmdLists, Files!Removing, Files!fsVars, Files!historyVars, FilesType
<1>2. /\ cmd'[s].verb = "RMD" /\ cmd'[s].pc \in {"list", "loop"}
      /\ cmd'[s].target = cmd[s].target /\ \A t \in Sessions \ {s} : cmd'[t] = cmd[t]
  <2>1. cmd \in [Sessions -> Commands]
    BY DEF FilesType
  <2>2. CASE UNCHANGED cmd
    BY <1>1, <2>2
  <2>3. ASSUME NEW f, cmd' = [cmd EXCEPT ![s] = [cmd[s] EXCEPT !.pc = "loop", !.frames = f]]
        PROVE  /\ cmd'[s].verb = "RMD" /\ cmd'[s].pc = "loop"
               /\ cmd'[s].target = cmd[s].target /\ \A t \in Sessions \ {s} : cmd'[t] = cmd[t]
    <3>1. cmd'[s] = [cmd[s] EXCEPT !.pc = "loop", !.frames = f]
      BY <2>1, <2>3
    <3>2. \A t \in Sessions \ {s} : cmd'[t] = cmd[t]
      BY <2>1, <2>3
    <3> QED BY <1>1, <3>1, <3>2, Zenon DEF Commands
  <2> QED BY <1>1, <2>2, <2>3, Zenon
<1>3. ~Streams(cmd'[s]) /\ ~Fresh(cmd'[s]) /\ Reached(s)'
  BY <1>2 DEF Reached, Untouched, HasChangedNothing, NoDirectory, Freed, Found, Receiving,
              Sending, Streams, Fetches, Fresh
<1>4. \A t \in Sessions \ {s} : SameCommand(cmd[t], cmd'[t])
  BY <1>2 DEF SameCommand
<1>5. \A q \in Files!Paths : Affects(cmd[s], q) => Affects(cmd'[s], q)
  BY <1>1, <1>2, Zenon DEF Affects, Files!Changes
<1>6. started' \in 0..MaxCommands /\ started <= started'
  <2>1. started \in 0..MaxCommands /\ started' = started
    BY <1>1, Zenon DEF FilesType
  <2> QED BY <2>1, FilesConstants
<1> QED BY <1>1, <1>3, <1>4, <1>5, <1>6, NothingChanges, Zenon

LEMMA MkdKeeps ==
  ASSUME FilesType, AllFit, ContentInv, NEW s \in Sessions, Files!Mkd(s)
  PROVE  ContentInv'
<1>1. PICK p :
        /\ Files!Instant(s) /\ Files!CanMake(p) /\ tree' = Files!With(p, None)
        /\ cmd' = Files!Disturb(s, {p})
        /\ wanted' = IF Files!Undisturbed(s, {p}) THEN wanted ELSE [wanted EXCEPT ![p] = Unknown]
  BY DEF Files!Mkd
<1>2. /\ p \in Files!Paths /\ p \in Seq(Known) /\ p \notin DOMAIN tree
      /\ IsTree(tree') /\ p \in DOMAIN tree' /\ tree'[p] = None
      /\ \A e \in Files!Paths : e # p => SameAt(tree', tree, e)
  <2>1. IsTree(tree) /\ None \in Files!Files \cup {None}
    BY DEF ContentInv
  <2>2. \A e \in DOMAIN tree : None = None \/ tree[e] # None
    OBVIOUS
  <2>3. /\ p \in Files!Paths /\ p \notin DOMAIN tree
        /\ IsTree(tree') /\ p \in DOMAIN tree' /\ tree'[p] = None
        /\ \A e \in Files!Paths : e # p => SameAt(tree', tree, e)
    BY <1>1, <2>1, <2>2, GrownTree
  <2> QED BY <2>3, PathsAreSequences
<1>3. UNCHANGED data /\ cmd[s].pc = "idle" /\ started' = started + 1
  BY <1>1 DEF Files!Instant
<1>4. /\ cmd'[s] = cmd[s]
      /\ \A t \in Sessions : /\ SameCommand(cmd[t], cmd'[t])
                             /\ cmd'[t].alone /\ t # s /\ cmd'[t].pc # "idle" =>
                                  ~Files!Overlap(p, cmd[t].target)
  BY <1>1, DisturbOthers
<1>5. \A t \in Sessions : /\ Fresh(cmd'[t]) <=> Fresh(cmd[t])
                          /\ Streams(cmd'[t]) <=> Streams(cmd[t])
                          /\ cmd'[t].number = cmd[t].number /\ cmd'[t].file = cmd[t].file
                          /\ cmd'[t].target = cmd[t].target /\ cmd'[t].pc = cmd[t].pc
                          /\ cmd'[t].alone => cmd[t].alone
                          /\ \A q \in Files!Paths : Affects(cmd'[t], q) <=> Affects(cmd[t], q)
  BY <1>4 DEF SameCommand, Fresh, Streams, Affects, Files!Changes
<1>6. \A q \in Files!Paths : wanted'[q] # Unknown => wanted'[q] = wanted[q]
  BY <1>1, <1>2 DEF FilesType
<1>7. \A q \in Files!Paths : q # p => wanted'[q] = wanted[q]
  BY <1>1, <1>2 DEF FilesType
<1>8. Numbered'
  <2>1. started' \in 0..MaxCommands /\ started <= started'
    <3>1. started \in 0..MaxCommands /\ started < MaxCommands /\ started' = started + 1
      BY <1>1 DEF Files!Instant, FilesType
    <3> QED BY <3>1, FilesConstants
  <2> QED BY <1>3, <1>5, <2>1, NumberedStays DEF ContentInv, Numbered
<1>9. Held'
  <2> SUFFICES ASSUME NEW q \in Files!Paths, wanted'[q] # Unknown,
                      \A t \in Sessions : ~Affects(cmd'[t], q)
               PROVE  Files!Content(q)' = wanted'[q]
    BY DEF Held
  <2>1. wanted'[q] = wanted[q] /\ Files!Content(q) = wanted[q]
    BY <1>5, <1>6 DEF ContentInv, Held
  <2>2. CASE q = p
    BY <1>2, <2>1, <2>2 DEF Files!Content, Files!IsFile, Files!Exists
  <2>3. CASE q # p
    BY <1>2, <1>3, <2>1, <2>3 DEF SameAt, Files!Content, Files!IsFile, Files!Exists
  <2> QED BY <2>2, <2>3
<1>10. Astray'
  <2> SUFFICES ASSUME NEW t \in Sessions, Streams(cmd'[t]), NEW q \in DOMAIN tree',
                      tree'[q] = cmd'[t].file
               PROVE  q = cmd'[t].target \/ wanted'[q] = Unknown
    BY DEF Astray
  <2>1. cmd[t].file # None /\ Streams(cmd[t])
    BY <1>5, AtWork, FilesConstants DEF Streams, Fits
  <2>2. q # p /\ q \in Files!Paths
    BY <1>2, <1>5, <2>1 DEF IsTree, TreeType
  <2>3. q \in DOMAIN tree /\ tree[q] = cmd[t].file
    BY <1>2, <1>5, <2>2 DEF SameAt
  <2> QED BY <1>5, <1>7, <2>1, <2>2, <2>3 DEF ContentInv, Astray
<1>11. Progress'
  <2> SUFFICES ASSUME NEW u \in Sessions, cmd'[u].pc # "idle", cmd'[u].alone
               PROVE  Reached(u)'
    BY DEF Progress
  <2>1. cmd[u].pc # "idle" /\ cmd[u].alone /\ u # s /\ SameCommand(cmd[u], cmd'[u]) /\ Reached(u)
        /\ ~Files!Overlap(p, cmd[u].target)
    BY <1>3, <1>4, <1>5 DEF ContentInv, Progress
  <2>2. \A e \in Files!Paths : Files!IsPrefix(e, cmd[u].target) => SameAt(tree', tree, e) /\ e # p
    BY <1>2, <2>1 DEF Files!Overlap
  <2>3. cmd[u].target \in Files!Paths /\ Files!IsPrefix(cmd[u].target, cmd[u].target)
    BY <2>1, AtWork, PrefixIsOrder
  <2> QED BY <1>3, <1>5, <1>7, <2>1, <2>2, <2>3, StandsStill
<1> QED BY <1>2, <1>8, <1>9, <1>10, <1>11 DEF ContentInv

\* A rename takes along what is promised of its source.
LEMMA RntoKeeps ==
  ASSUME FilesType, AllFit, ContentInv, NEW s \in Sessions, Files!Rnto(s)
  PROVE  ContentInv'
<1>1. PICK p, q :
        /\ Files!Instant(s) /\ Files!CanRename(p, q)
        /\ DOMAIN Files!Moved(p, q) \subseteq Files!Paths /\ tree' = Files!Moved(p, q)
        /\ cmd' = Files!Disturb(s, {p, q})
        /\ wanted' = [r \in Files!Paths |->
             IF p = q THEN wanted[r]
             ELSE IF ~Files!Undisturbed(s, {p, q})
               THEN (IF Files!Overlap(p, r) \/ Files!Overlap(q, r) THEN Unknown ELSE wanted[r])
             ELSE IF Files!IsPrefix(q, r)
               THEN (IF p \o Rest(q, r) \in Files!Paths THEN wanted[p \o Rest(q, r)] ELSE None)
             ELSE IF Files!IsPrefix(p, r) THEN None ELSE wanted[r]]
  BY ZenonT(30) DEF Files!Rnto, Rest
<1>2. /\ p \in Files!Paths /\ q \in Files!Paths /\ p \in Seq(Known) /\ q \in Seq(Known)
      /\ IsTree(tree) /\ TreeType(tree)
  BY <1>1, PathsAreSequences DEF Files!CanRename, Files!Changeable, ContentInv, IsTree
<1>3. /\ UNCHANGED data /\ cmd[s].pc = "idle"
      /\ started' \in 0..MaxCommands /\ started <= started'
  <2>1. /\ UNCHANGED data /\ cmd[s].pc = "idle"
        /\ started \in 0..MaxCommands /\ started < MaxCommands /\ started' = started + 1
    BY <1>1 DEF Files!Instant, FilesType
  <2> QED BY <2>1, FilesConstants
<1>4. /\ cmd'[s] = cmd[s]
      /\ \A t \in Sessions : /\ SameCommand(cmd[t], cmd'[t])
                             /\ cmd'[t].alone /\ t # s /\ cmd'[t].pc # "idle" =>
                                  /\ ~Files!Overlap(p, cmd[t].target)
                                  /\ ~Files!Overlap(q, cmd[t].target)
  <2> DEFINE P == {p, q}
  <2>1. cmd' = Files!Disturb(s, P) /\ p \in P /\ q \in P
    BY <1>1
  <2> HIDE DEF P
  <2>2. /\ cmd'[s] = cmd[s]
        /\ \A t \in Sessions : /\ SameCommand(cmd[t], cmd'[t])
                               /\ cmd'[t].alone /\ t # s /\ cmd'[t].pc # "idle" =>
                                    \A r \in P : ~Files!Overlap(r, cmd[t].target)
    BY <2>1, DisturbOthers
  <2> QED BY <2>1, <2>2
<1>5. \A t \in Sessions : /\ Fresh(cmd'[t]) <=> Fresh(cmd[t])
                          /\ Streams(cmd'[t]) <=> Streams(cmd[t])
                          /\ cmd'[t].number = cmd[t].number /\ cmd'[t].file = cmd[t].file
                          /\ cmd'[t].target = cmd[t].target /\ cmd'[t].pc = cmd[t].pc
                          /\ cmd'[t].alone => cmd[t].alone
                          /\ \A r \in Files!Paths : Affects(cmd'[t], r) <=> Affects(cmd[t], r)
  BY <1>4 DEF SameCommand, Fresh, Streams, Affects, Files!Changes
<1>6. Numbered'
  BY <1>3, <1>5, NumberedStays DEF ContentInv, Numbered
<1>7. CASE p = q
  <2>1. tree' = tree
    BY <1>1, <1>2, <1>7, RenamedToItself
  <2>2. wanted' = wanted
    <3>1. wanted' = [r \in Files!Paths |-> wanted[r]]
      BY <1>1, <1>7
    <3> QED BY <3>1 DEF FilesType
  <2>3. /\ ~Streams(cmd'[s]) /\ ~Fresh(cmd'[s]) /\ cmd'[s].pc = "idle"
        /\ \A r \in Files!Paths : Affects(cmd[s], r) => Affects(cmd'[s], r)
    BY <1>3, <1>4 DEF Streams, Fresh
  <2> QED BY <1>3, <1>4, <2>1, <2>2, <2>3, NothingChanges
<1>8. CASE p # q
  <2>1. /\ ~Files!Overlap(p, q) /\ IsTree(tree')
        /\ \A e \in Files!Paths :
             /\ Files!IsPrefix(q, e) =>
                  /\ e \in DOMAIN tree' <=> p \o Rest(q, e) \in DOMAIN tree
                  /\ e \in DOMAIN tree' => tree'[e] = tree[p \o Rest(q, e)]
             /\ Files!IsPrefix(p, e) => e \notin DOMAIN tree'
             /\ ~Files!IsPrefix(p, e) /\ ~Files!IsPrefix(q, e) => SameAt(tree', tree, e)
    BY <1>1, <1>2, <1>8, RenamedTree
  <2>2. \A e \in Files!Paths : ~Files!IsPrefix(p, e) /\ ~Files!IsPrefix(q, e) =>
          wanted'[e] = wanted[e] \/ wanted'[e] = Unknown
    BY <1>1
  <2>3. \A e \in Files!Paths : ~Files!Overlap(p, e) /\ ~Files!Overlap(q, e) => wanted'[e] = wanted[e]
    BY <1>1 DEF Files!Overlap
  \* The source of e, a path at or below the new name.
  <2>4. ASSUME NEW e \in Files!Paths, Files!IsPrefix(q, e)
        PROVE  Files!IsPrefix(p, p \o Rest(q, e)) /\ p \o Rest(q, e) \in Seq(Known)
    <3>1. Rest(q, e) \in Seq(Known)
      BY <1>2, <2>4, PathsAreSequences, RestIsThere
    <3>2. p \o Rest(q, e) \in Seq(Known)
      BY <1>2, <3>1
    <3> DEFINE x == Rest(q, e)
    <3> HIDE DEF x
    <3>3. x \in Seq(Known)
      BY <3>1 DEF x
    <3>4. Files!IsPrefix(p, p \o x)
      <4>1. p \in Seq(Known)
        BY <1>2
      <4> QED BY ONLY <3>3, <4>1, RestIsThere
    <3> QED BY <3>2, <3>4 DEF x
  \* Nobody is at work on the source unless promises are given up.
  <2>5. ASSUME NEW e \in Files!Paths, Files!IsPrefix(q, e), wanted'[e] # Unknown,
               NEW t \in Sessions, NEW r \in Files!Paths, r = p \o Rest(q, e)
        PROVE  ~Affects(cmd[t], r)
    <3> SUFFICES ASSUME Affects(cmd[t], r) PROVE FALSE
      OBVIOUS
    <3>1. t # s /\ Files!Changes(cmd[t])
      BY <1>3 DEF Affects, Files!Changes
    <3>2. Files!Undisturbed(s, {p, q})
      BY <1>1, <1>8, <2>5 DEF Files!Overlap
    <3>3. ~Files!Overlap(p, cmd[t].target)
      BY <3>1, <3>2 DEF Files!Undisturbed
    <3>4. Files!Overlap(p, r)
      BY <2>4, <2>5 DEF Files!Overlap
    <3> QED BY <1>2, <3>3, <3>4, AffectsBelow
  <2>6. Held'
    <3> SUFFICES ASSUME NEW e \in Files!Paths, wanted'[e] # Unknown,
                        \A t \in Sessions : ~Affects(cmd'[t], e)
                 PROVE  Files!Content(e)' = wanted'[e]
      BY DEF Held
    <3>1. CASE Files!IsPrefix(q, e)
      <4> DEFINE r == p \o Rest(q, e)
      <4>1. wanted'[e] = IF r \in Files!Paths THEN wanted[r] ELSE None
        BY <1>1, <1>8, <3>1 DEF Files!Overlap
      <4>2. /\ e \in DOMAIN tree' <=> r \in DOMAIN tree
            /\ e \in DOMAIN tree' => tree'[e] = tree[r]
        BY <2>1, <3>1
      <4>3. CASE r \in Files!Paths
        <5>1. \A t \in Sessions : ~Affects(cmd[t], r)
          BY <2>5, <3>1, <4>3
        <5>2. Files!Content(r) = wanted[r]
          BY <4>1, <4>3, <5>1 DEF ContentInv, Held
        <5> HIDE DEF r
        <5>3. Files!Content(e)' = Files!Content(r)
          BY <1>3, <4>2 DEF Files!Content, Files!IsFile, Files!Exists
        <5> QED BY <4>1, <4>3, <5>2, <5>3
      <4>4. CASE r \notin Files!Paths
        <5>1. e \notin DOMAIN tree'
          BY <1>2, <4>2, <4>4 DEF TreeType
        <5> QED BY <4>1, <4>4, <5>1 DEF Files!Content, Files!IsFile, Files!Exists
      <4> QED BY <4>3, <4>4
    <3>2. CASE Files!IsPrefix(p, e)
      <4>1. ~Files!IsPrefix(q, e)
        BY <1>2, <2>1, <3>2, PathsAreSequences, PrefixIsOrder
      <4>2. wanted'[e] = None
        BY <1>1, <1>8, <3>2, <4>1 DEF Files!Overlap
      <4> QED BY <2>1, <3>2, <4>2 DEF Files!Content, Files!IsFile, Files!Exists
    <3>3. CASE ~Files!IsPrefix(q, e) /\ ~Files!IsPrefix(p, e)
      <4>1. wanted'[e] = wanted[e] /\ Files!Content(e) = wanted[e]
        BY <1>5, <2>2, <3>3 DEF ContentInv, Held
      <4>2. SameAt(tree', tree, e)
        BY <2>1, <3>3
      <4> QED BY <1>3, <4>1, <4>2 DEF SameAt, Files!Content, Files!IsFile, Files!Exists
    <3> QED BY <3>1, <3>2, <3>3
  <2>7. Astray'
    <3> SUFFICES ASSUME NEW t \in Sessions, Streams(cmd'[t]), NEW e \in DOMAIN tree',
                        tree'[e] = cmd'[t].file, wanted'[e] # Unknown
                 PROVE  e = cmd'[t].target
      BY DEF Astray
    <3>1. Streams(cmd[t]) /\ e \in Files!Paths
      BY <1>5, <2>1 DEF IsTree, TreeType
    <3>2. CASE Files!IsPrefix(q, e)
      <4> DEFINE r == p \o Rest(q, e)
      <4>1. r \in DOMAIN tree /\ tree[r] = cmd[t].file
        BY <1>5, <2>1, <3>1, <3>2
      <4>2. r \in Files!Paths
        BY <1>2, <4>1 DEF TreeType
      <4>3. wanted'[e] = wanted[r]
        BY <1>1, <1>8, <3>1, <3>2, <4>2 DEF Files!Overlap
      <4>4. r = cmd[t].target
        BY <3>1, <4>1, <4>3 DEF ContentInv, Astray
      <4>5. ~Affects(cmd[t], r)
        BY <2>5, <3>1, <3>2, <4>2
      <4> HIDE DEF r
      <4> QED BY <3>1, <4>4, <4>5 DEF Affects, Files!Changes, Streams
    <3>3. CASE ~Files!IsPrefix(q, e)
      <4>1. ~Files!IsPrefix(p, e)
        BY <2>1, <3>1
      <4>2. e \in DOMAIN tree /\ tree[e] = cmd[t].file /\ wanted'[e] = wanted[e]
        BY <1>5, <2>1, <2>2, <3>1, <3>3, <4>1 DEF SameAt
      <4> QED BY <1>5, <3>1, <4>2 DEF ContentInv, Astray
    <3> QED BY <3>2, <3>3
  <2>8. Progress'
    <3> SUFFICES ASSUME NEW u \in Sessions, cmd'[u].pc # "idle", cmd'[u].alone
                 PROVE  Reached(u)'
      BY DEF Progress
    <3>1. /\ cmd[u].pc # "idle" /\ cmd[u].alone /\ u # s
          /\ SameCommand(cmd[u], cmd'[u]) /\ Reached(u)
          /\ ~Files!Overlap(p, cmd[u].target) /\ ~Files!Overlap(q, cmd[u].target)
      BY <1>3, <1>4, <1>5 DEF ContentInv, Progress
    <3>2. cmd[u].target \in Files!Paths /\ cmd[u].target \in Seq(Known)
      BY <3>1, AtWork
    <3>3. ASSUME NEW e \in Files!Paths, Files!IsPrefix(e, cmd[u].target)
          PROVE  SameAt(tree', tree, e)
      <4>1. ~Files!IsPrefix(p, e) /\ ~Files!IsPrefix(q, e)
        BY <1>2, <3>1, <3>2, <3>3, PathsAreSequences, PrefixIsOrder DEF Files!Overlap
      <4> QED BY <2>1, <4>1
    <3>4. wanted'[cmd[u].target] = wanted[cmd[u].target]
      BY <2>3, <3>1, <3>2
    <3> QED BY <1>3, <1>5, <3>1, <3>3, <3>4, StandsStill
  <2> QED BY <1>6, <2>1, <2>6, <2>7, <2>8 DEF ContentInv
<1> QED BY <1>7, <1>8

-----------------------------------------------------------------------------
(***************************************************************************)
(* What is true of a command whatever others do.                           *)
(***************************************************************************)
LEMMA IdleIsSound == Sound(Files!Idle)
BY DEF Files!Idle, Sound

LEMMA SameIsSound ==
  ASSUME NEW c, NEW d, Sound(c), SameCommand(c, d)
  PROVE  Sound(d)
BY DEF Sound, SameCommand

LEMMA TransferIsSound ==
  ASSUME NEW c, c.verb # "RMD", c.pc \in {"connect", "receive", "send"}
  PROVE  Sound(c)
BY DEF Sound

LEMMA GoingIsSound ==
  ASSUME FilesType, NEW s \in Sessions, Sound(cmd[s]), NEW pc2, Files!Goes(s, pc2),
         pc2 \in {"check", "exists", "delete", "open"} =>
           cmd[s].pc \in {"check", "exists", "delete", "open"},
         cmd[s].verb = "APPE" => pc2 # "delete", pc2 = "sent" => cmd[s].verb = "RETR",
         cmd[s].verb = "RMD" => cmd[s].pc \in {"enter", "list"}
  PROVE  Sound(cmd'[s])
<1>1. cmd'[s] = [cmd[s] EXCEPT !.pc = pc2] /\ cmd[s] \in Commands
  BY DEF Files!Goes, FilesType
<1>2. /\ cmd'[s].pc = pc2 /\ cmd'[s].verb = cmd[s].verb /\ cmd'[s].target = cmd[s].target
      /\ cmd'[s].pos = cmd[s].pos /\ cmd'[s].bytes = cmd[s].bytes
      /\ cmd'[s].entry = cmd[s].entry /\ cmd'[s].frames = cmd[s].frames
  BY <1>1 DEF Commands
<1> QED BY <1>2 DEF Sound

LEMMA EndIsSound ==
  ASSUME FilesType, NEW s \in Sessions,
         \/ \E P, content : Files!Ends(s, P, content)
         \/ Files!EndsWithoutChange(s) \/ Files!RetrEnds(s)
  PROVE  Sound(cmd'[s])
<1>1. cmd' = [cmd EXCEPT ![s] = Files!Idle]
  BY DEF Files!Ends, Files!EndsWithoutChange, Files!RetrEnds
<1>2. cmd'[s] = Files!Idle
  BY <1>1 DEF FilesType
<1> QED BY <1>2, IdleIsSound

LEMMA ReturnIsSound ==
  ASSUME FilesType, NEW s \in Sessions, cmd[s].verb = "RMD", NEW success \in BOOLEAN,
         NEW frames \in Seq(Frames), frames # <<>> => frames[1].dir = cmd[s].target,
         Files!Returns(s, success, frames)
  PROVE  Sound(cmd'[s])
<1>1. CASE frames = <<>>
  BY <1>1, EndIsSound DEF Files!Returns
<1>2. CASE frames # <<>>
  <2> DEFINE n == Len(frames)
             top == [frames[n] EXCEPT !.success = @ /\ success]
             more == [frames EXCEPT ![n] = top]
  <2>1. cmd' = [cmd EXCEPT ![s] = [cmd[s] EXCEPT !.pc = "loop", !.frames = more]]
    BY <1>2 DEF Files!Returns
  <2>2. n \in 1..n /\ frames[n] \in Frames /\ 1 \in 1..n
    BY <1>2
  <2>3. top.dir = frames[n].dir
    BY <2>2 DEF Frames
  <2> HIDE DEF top
  <2>4. more[1].dir = frames[1].dir
    BY <1>2, <2>2, <2>3
  <2> HIDE DEF more
  <2>5. /\ cmd'[s].pc = "loop" /\ cmd'[s].verb = "RMD" /\ cmd'[s].frames = more
        /\ cmd'[s].target = cmd[s].target
    BY <2>1 DEF FilesType, Commands
  <2> QED BY <1>2, <2>4, <2>5 DEF Sound
<1> QED BY <1>1, <1>2

LEMMA StoreIsSound ==
  ASSUME FilesType, AllFit, NEW s \in Sessions, Sound(cmd[s]),
         \/ Files!StoreChecksDirectory(s) \/ Files!StoreChecksExists(s)
         \/ Files!StoreDeletes(s) \/ Files!StoreOpens(s) \/ Files!StoreCannotOpen(s)
         \/ Files!StoreConnects(s) \/ Files!StoreReceives(s) \/ Files!StoreEnds(s)
         \/ Files!StoreCannotWrite(s)
  PROVE  Sound(cmd'[s])
<1>1. cmd[s] \in Commands
  BY DEF FilesType
<1>2. CASE Files!StoreChecksDirectory(s)
  BY <1>2, EndIsSound, GoingIsSound DEF Files!StoreChecksDirectory, Files!Storing
<1>3. CASE Files!StoreChecksExists(s)
  BY <1>3, GoingIsSound DEF Files!StoreChecksExists, Files!Storing
<1>4. CASE Files!StoreDeletes(s)
  BY <1>4, EndIsSound, GoingIsSound DEF Files!StoreDeletes, Files!Storing
<1>5. CASE Files!StoreOpens(s)
  <2>1. cmd[s].verb # "RMD" /\ \E f : cmd' = [cmd EXCEPT ![s] = [cmd[s] EXCEPT !.pc = "connect", !.file = f]]
    BY <1>5, Zenon DEF Files!StoreOpens, Files!Storing
  <2>2. cmd'[s].verb # "RMD" /\ cmd'[s].pc = "connect"
    BY <1>1, <2>1 DEF FilesType, Commands
  <2> QED BY <2>2, TransferIsSound
<1>6. CASE Files!StoreConnects(s)
  BY <1>6, EndIsSound, GoingIsSound DEF Files!StoreConnects, Files!Storing
<1>7. CASE Files!StoreReceives(s)
  <2>1. /\ cmd[s].verb # "RMD" /\ cmd[s].pc = "receive"
        /\ \E n, b : cmd' = [cmd EXCEPT ![s] = [cmd[s] EXCEPT !.pos = n, !.bytes = b]]
    BY <1>7, Zenon DEF Files!StoreReceives, Files!Storing
  <2>2. cmd'[s].verb # "RMD" /\ cmd'[s].pc = "receive"
    BY <1>1, <2>1 DEF FilesType, Commands
  <2> QED BY <2>2, TransferIsSound
<1>8. CASE Files!StoreCannotOpen(s) \/ Files!StoreEnds(s) \/ Files!StoreCannotWrite(s)
  BY <1>8, EndIsSound DEF Files!StoreCannotOpen, Files!StoreEnds, Files!StoreCannotWrite
<1> QED BY <1>2, <1>3, <1>4, <1>5, <1>6, <1>7, <1>8

LEMMA RetrOrDeleIsSound ==
  ASSUME FilesType, AllFit, NEW s \in Sessions, Sound(cmd[s]),
         \/ Files!RetrOpens(s) \/ Files!RetrConnects(s) \/ Files!RetrSends(s)
         \/ Files!RetrReplies(s) \/ Files!DeleChecksDirectory(s) \/ Files!DeleDeletes(s)
  PROVE  Sound(cmd'[s])
<1>1. cmd[s] \in Commands
  BY DEF FilesType
<1>2. CASE Files!RetrOpens(s)
  <2>1. CASE Files!RetrEnds(s)
    BY <2>1, EndIsSound
  <2>2. CASE cmd' = [cmd EXCEPT ![s] = [cmd[s] EXCEPT !.pc = "connect", !.file = tree[cmd[s].target]]]
    <3>1. cmd[s].verb = "RETR"
      BY <1>2 DEF Files!RetrOpens, Files!Retrieving
    <3>2. cmd'[s].verb = "RETR" /\ cmd'[s].pc = "connect"
      BY <1>1, <2>2, <3>1 DEF FilesType, Commands
    <3> QED BY <3>2, TransferIsSound
  <2> QED BY <1>2, <2>1, <2>2 DEF Files!RetrOpens
<1>3. CASE Files!RetrConnects(s)
  BY <1>3, EndIsSound, GoingIsSound DEF Files!RetrConnects, Files!Retrieving
<1>4. CASE Files!RetrSends(s)
  <2>1. cmd[s].verb = "RETR" /\ cmd[s].pc = "send"
    BY <1>4 DEF Files!RetrSends, Files!Retrieving
  <2>2. CASE Files!RetrEnds(s)
    BY <2>2, EndIsSound
  <2>3. CASE cmd[s].pos < Len(data[cmd[s].file]) /\ ~Files!RetrEnds(s)
    <3>1. cmd' = [cmd EXCEPT ![s].pos = @ + 1,
                             ![s].bytes = Append(@, data[cmd[s].file][cmd[s].pos + 1])]
      BY <1>4, <2>3, SMT DEF Files!RetrSends
    <3>2. cmd'[s].verb = "RETR" /\ cmd'[s].pc = "send"
      BY <1>1, <2>1, <3>1 DEF FilesType, Commands
    <3> QED BY <3>2, TransferIsSound
  <2>4. CASE ~(cmd[s].pos < Len(data[cmd[s].file]))
    <3>1. Files!Goes(s, "sent")
      BY <1>4, <2>4, SMT DEF Files!RetrSends
    <3> QED BY <2>1, <3>1, GoingIsSound
  <2> QED BY <2>2, <2>3, <2>4
<1>5. CASE Files!RetrReplies(s)
  BY <1>5, EndIsSound DEF Files!RetrReplies
<1>6. CASE Files!DeleChecksDirectory(s)
  BY <1>6, EndIsSound, GoingIsSound DEF Files!DeleChecksDirectory
<1>7. CASE Files!DeleDeletes(s)
  BY <1>7, EndIsSound DEF Files!DeleDeletes
<1> QED BY <1>2, <1>3, <1>4, <1>5, <1>6, <1>7

\* The first frame of a removal is about its target.
LEMMA RmdIsSound ==
  ASSUME FilesType, AllFit, NEW s \in Sessions, Sound(cmd[s]),
         Files!RmdEnters(s) \/ Files!RmdLists(s) \/ Files!RmdLoops(s)
  PROVE  Sound(cmd'[s])
<1>1. /\ cmd[s] \in Commands /\ cmd[s].verb = "RMD" /\ cmd[s].frames \in Seq(Frames)
      /\ cmd[s].pc # "idle" /\ Fits(cmd[s])
      /\ cmd[s].frames # <<>> => cmd[s].frames[1].dir = cmd[s].target
  BY AtWork, Zenon DEF FilesType, AllFit, Commands, Files!RmdEnters, Files!RmdLists, Files!RmdLoops,
                Files!Removing, Sound
<1>2. CASE Files!RmdEnters(s)
  <2>1. Files!CanDelete(Files!Entry(s)) \in BOOLEAN
    BY DEF Files!CanDelete
  <2>2. CASE Files!Goes(s, "list")
    BY <1>2, <2>2, GoingIsSound DEF Files!RmdEnters, Files!Removing
  <2>3. CASE Files!Returns(s, Files!CanDelete(Files!Entry(s)), cmd[s].frames)
    BY <1>1, <2>1, <2>3, ReturnIsSound
  <2> QED BY <1>2, <2>2, <2>3 DEF Files!RmdEnters
<1>3. CASE Files!RmdLists(s)
  <2> DEFINE new == [dir |-> Files!Entry(s), todo |-> Files!Entries(Files!Entry(s)), success |-> TRUE]
             more == Append(cmd[s].frames, new)
  <2>1. CASE UNCHANGED cmd
    BY <2>1
  <2>2. CASE cmd' = [cmd EXCEPT ![s] = [cmd[s] EXCEPT !.pc = "loop", !.frames = more]]
    <3>1. new.dir = Files!Entry(s)
      OBVIOUS
    <3>2. cmd[s].frames = <<>> => Files!Entry(s) = cmd[s].target
      BY <1>1, <1>3 DEF Sound, Files!RmdLists, Files!Removing, Files!Entry
    <3> HIDE DEF new
    <3>3. more[1].dir = cmd[s].target
      <4>1. CASE cmd[s].frames = <<>>
        BY <3>1, <3>2, <4>1
      <4>2. CASE cmd[s].frames # <<>>
        BY <1>1, <4>2
      <4> QED BY <4>1, <4>2
    <3> HIDE DEF more
    <3>4. /\ cmd'[s].verb = "RMD" /\ cmd'[s].pc = "loop" /\ cmd'[s].frames = more
          /\ cmd'[s].target = cmd[s].target
      BY <1>1, <2>2 DEF FilesType, Commands
    <3> QED BY <3>3, <3>4 DEF Sound
  <2> QED BY <1>3, <2>1, <2>2 DEF Files!RmdLists
<1>4. CASE Files!RmdLoops(s)
  <2> DEFINE frames == cmd[s].frames
             n == Len(frames)
             top == Files!Last(frames)
             deleted == top.success /\ Files!CanDelete(top.dir)
  <2>1. frames # <<>> /\ n \in 1..n /\ 1 \in 1..n /\ top = frames[n] /\ top \in Frames
    <3>1. frames \in Seq(Frames) /\ frames # <<>>
      BY <1>1, <1>4, Zenon DEF Fits, Files!RmdLoops, Files!Removing
    <3> HIDE DEF frames
    <3> QED BY <3>1 DEF Files!Last
  <2>2. ASSUME NEW e \in top.todo,
               cmd' = [cmd EXCEPT ![s].pc = "enter", ![s].entry = e, ![s].frames[n].todo = @ \ {e}]
        PROVE  Sound(cmd'[s])
    <3> DEFINE less == [top EXCEPT !.todo = @ \ {e}]
               more == [frames EXCEPT ![n] = less]
    <3>1. cmd' = [cmd EXCEPT ![s] = [cmd[s] EXCEPT !.pc = "enter", !.entry = e, !.frames = more]]
      BY <2>1, <2>2
    <3>2. less.dir = top.dir
      BY <2>1 DEF Frames
    <3>3. frames \in Seq(Frames) /\ frames[1].dir = cmd[s].target
      BY <1>1, <2>1
    <3> HIDE DEF less, frames, top
    <3>4. more[1].dir = frames[1].dir /\ more # <<>>
      BY <2>1, <3>2, <3>3
    <3> HIDE DEF more
    <3>5. /\ cmd'[s].verb = "RMD" /\ cmd'[s].pc = "enter" /\ cmd'[s].frames = more
          /\ cmd'[s].target = cmd[s].target
      BY <1>1, <3>1 DEF FilesType, Commands
    <3> QED BY <3>3, <3>4, <3>5 DEF Sound
  <2>3. ASSUME Files!Returns(s, deleted, Files!Front(frames))
        PROVE  Sound(cmd'[s])
    <3>1. deleted \in BOOLEAN
      BY DEF Files!CanDelete
    <3>2. /\ Files!Front(frames) \in Seq(Frames) /\ Len(Files!Front(frames)) = n - 1
          /\ \A i \in 1..(n - 1) : Files!Front(frames)[i] = frames[i]
      BY <1>1, <2>1, FrontIsThere
    <3> DEFINE front == Files!Front(frames)
    <3>3. front # <<>> => front[1].dir = cmd[s].target
      <4> SUFFICES ASSUME front # <<>> PROVE front[1].dir = cmd[s].target
        OBVIOUS
      <4>1. frames[1].dir = cmd[s].target
        BY <1>1, <2>1
      <4> HIDE DEF frames, front
      <4>2. Len(front) # 0
        BY <3>2 DEF front
      <4>3. 1 \in 1..(n - 1)
        BY <2>1, <3>2, <4>2 DEF front
      <4> QED BY <3>2, <4>1, <4>3 DEF front
    <3> HIDE DEF frames, deleted
    <3> QED BY <1>1, <2>3, <3>1, <3>2, <3>3, ReturnIsSound
  <2> QED BY <1>4, <2>2, <2>3, Zenon DEF Files!RmdLoops
<1> QED BY <1>2, <1>3, <1>4

LEMMA SoundNext == FilesType /\ AllFit /\ AllSound /\ Files!Next => AllSound'
<1> SUFFICES ASSUME FilesType, AllFit, AllSound, Files!Next, NEW t \in Sessions
             PROVE  Sound(cmd'[t])
  BY DEF AllSound
<1>1. PICK s \in Sessions : Begins(s) \/ WorkSteps(s) \/ Files!RmdLists(s) \/ InstantSteps(s)
  BY StepsOfFiles
<1>2. Sound(cmd[t]) /\ Sound(cmd[s])
  BY DEF AllSound
<1>3. CASE Begins(s)
  <2>1. PICK verb \in Verbs, pc2 \in {"check", "open", "enter"}, p \in Files!Paths :
          Files!Begin(s, verb, pc2, p)
    BY <1>3 DEF Begins
  <2>2. Begun(s, verb, pc2, p)
    BY <2>1, BeginOfCommand
  <2>3. Sound(cmd'[s])
    BY <2>2 DEF Begun, Sound
  <2> QED BY <1>2, <2>2, <2>3, SameIsSound DEF Begun
<1>4. CASE WorkSteps(s)
  <2>1. Sound(cmd'[s])
    BY <1>2, <1>4, StoreIsSound, RetrOrDeleIsSound, RmdIsSound DEF WorkSteps
  <2>2. t # s => cmd'[t] = cmd[t]
    BY <1>4, WorkStepsWork DEF Works, Worked
  <2> QED BY <1>2, <2>1, <2>2
<1>5. CASE Files!RmdLists(s)
  <2>1. Sound(cmd'[s])
    BY <1>2, <1>5, RmdIsSound
  <2>2. t # s => cmd'[t] = cmd[t]
    BY <1>5 DEF Files!RmdLists, FilesType
  <2> QED BY <1>2, <2>1, <2>2
<1>6. CASE InstantSteps(s)
  BY <1>2, <1>6, InstantStepsType, SameIsSound DEF Instantly
<1> QED BY <1>1, <1>3, <1>4, <1>5, <1>6

-----------------------------------------------------------------------------
LEMMA InstantKeeps ==
  ASSUME FilesType, AllFit, ContentInv, NEW s \in Sessions, InstantSteps(s)
  PROVE  ContentInv'
<1>1. CASE \/ Refuses(s) \/ Files!Rnfr(s) \/ Files!RntoFails(s) \/ Files!Cwd(s) \/ Files!Cdup(s)
  <2>1. Files!Instant(s) /\ UNCHANGED <<tree, cmd, wanted>>
    BY <1>1 DEF Refuses, Files!Rnfr, Files!RntoFails, Files!Cwd, Files!Cdup
  <2>2. cmd[s].pc = "idle" /\ UNCHANGED data /\ started' = started + 1 /\ started < MaxCommands
    BY <2>1 DEF Files!Instant
  <2>3. started' \in 0..MaxCommands /\ started <= started'
    <3>1. started \in 0..MaxCommands
      BY DEF FilesType
    <3> QED BY <2>2, <3>1, FilesConstants
  <2>4. /\ ~Streams(cmd'[s]) /\ ~Fresh(cmd'[s]) /\ cmd'[s].pc = "idle"
        /\ \A q \in Files!Paths : Affects(cmd[s], q) => Affects(cmd'[s], q)
        /\ \A t \in Sessions \ {s} : SameCommand(cmd[t], cmd'[t])
    BY <2>1, <2>2 DEF Streams, Fresh, SameCommand
  <2> QED BY <2>1, <2>2, <2>3, <2>4, NothingChanges
<1> QED BY <1>1, MkdKeeps, RntoKeeps DEF InstantSteps

LEMMA ContentInit == Files!Init => AllSound /\ ContentInv
<1> SUFFICES ASSUME Files!Init PROVE AllSound /\ ContentInv
  OBVIOUS
<1>1. PICK p \in Kept : tree = [q \in {q \in Files!Paths : Files!IsPrefix(q, p)} |->
                                  IF q = p THEN 0 ELSE None]
  BY DEF Files!Init
<1>2. p \in Files!Paths /\ p \in Seq(Known) /\ 0 \in Files!Files /\ 0 # None
  <2>1. p \in Files!Paths
    BY PartsAssumption DEF Files!CommandsAssumption
  <2> QED BY <2>1, PathsAreSequences, FilesConstants
<1>3. \A s \in Sessions : cmd[s] = Files!Idle
  BY DEF Files!Init
<1>4. \A s \in Sessions : /\ cmd[s].pc = "idle" /\ cmd[s].verb = None
  BY <1>3 DEF Files!Idle
<1>5. \A s \in Sessions : ~Streams(cmd[s]) /\ ~Fresh(cmd[s])
  BY <1>4, IdleIsQuiet, <1>3 DEF Streams
<1>6. AllSound
  BY <1>3, IdleIsSound DEF AllSound
<1>7. IsTree(tree)
  <2>1. TreeType(tree)
    BY FilesTypeInit DEF FilesType, TreeType
  <2>2. DirectoriesAbove(tree)
    <3> SUFFICES ASSUME NEW e \in DOMAIN tree, NEW q \in Files!Paths, Files!Below(q, e)
                 PROVE  q \in DOMAIN tree /\ tree[q] = None
      BY DEF DirectoriesAbove
    <3>1. /\ e \in Seq(Known) /\ q \in Seq(Known) /\ Files!IsPrefix(e, p)
          /\ Files!IsPrefix(q, e) /\ q # e
      BY <1>1, PathsAreSequences DEF Files!Below
    <3>2. Files!IsPrefix(q, p)
      BY <1>2, <3>1, PrefixIsOrder
    <3>3. q # p
      BY <1>2, <3>1, PrefixesAreEqual
    <3> QED BY <1>1, <3>2, <3>3
  <2>3. OneName(tree)
    BY <1>1 DEF OneName
  <2> QED BY <2>1, <2>2, <2>3 DEF IsTree
<1>8. Numbered
  <2>1. \A f \in Files!Files : f > started => data[f] = <<>>
    <3>1. started = 0 /\ \A f \in Files!Files : f # 0 => data[f] = <<>>
      BY DEF Files!Init
    <3> QED BY <3>1, FilesConstants
  <2> QED BY <1>5, <2>1 DEF Numbered
<1>9. Held
  BY DEF Held, Files!Init
<1>10. Astray /\ Progress
  BY <1>4, <1>5 DEF Astray, Progress
<1> QED BY <1>6, <1>7, <1>8, <1>9, <1>10 DEF ContentInv

LEMMA ContentNext ==
  FilesType /\ AllFit /\ StoresInv /\ RemovalInv /\ AllSound /\ ContentInv /\ Files!Next =>
    ContentInv'
<1> SUFFICES ASSUME FilesType, AllFit, StoresInv, RemovalInv, AllSound, ContentInv, Files!Next
             PROVE  ContentInv'
  OBVIOUS
<1>1. PICK s \in Sessions : Begins(s) \/ WorkSteps(s) \/ Files!RmdLists(s) \/ InstantSteps(s)
  BY StepsOfFiles
<1>2. Apart
  BY DEF RemovalInv
<1>3. CASE WorkSteps(s) /\ ~Files!StoreOpens(s)
  <2>1. Quiet(s)
    BY <1>3, WorkIsQuiet
  <2> QED BY <1>2, <2>1, QuietKeeps
<1>4. CASE Files!StoreOpens(s)
  BY <1>2, <1>4, StoreOpensKeeps
<1> QED BY <1>1, <1>3, <1>4, BeginKeeps, RmdListsKeeps, InstantKeeps

\* What is promised of a path on which no command is at work, and what a RETR has sent.
LEMMA ContentIsAsSent ==
  ASSUME FilesType, AllFit, AllSound, Apart, ContentInv
  PROVE  Files!FilesAreAsSent
<1>1. ASSUME NEW p \in Files!Paths, wanted[p] # Unknown,
             \A s \in Sessions : ~(Files!Changes(cmd[s]) /\ Files!Overlap(p, cmd[s].target))
      PROVE  Files!Content(p) = wanted[p]
  <2>1. \A s \in Sessions : ~Affects(cmd[s], p)
    BY <1>1, AffectsBelow DEF Affects
  <2> QED BY <1>1, <2>1 DEF ContentInv, Held
<1>2. ASSUME NEW s \in Sessions, cmd[s].pc = "sent", cmd[s].alone,
             wanted[cmd[s].target] # Unknown
      PROVE  cmd[s].bytes = wanted[cmd[s].target]
  <2> DEFINE p == cmd[s].target
             f == cmd[s].file
  <2>1. p \in Files!Paths /\ p \in Seq(Known) /\ Files!IsPrefix(p, p) /\ f \in Files!Files
    BY <1>2, AtWork, PrefixIsOrder DEF Fits
  <2>2. Fetches(cmd[s])
    BY <1>2 DEF AllSound, Sound, Fetches
  <2>3. /\ p \in DOMAIN tree /\ tree[p] = f /\ cmd[s].pos = Len(data[f])
        /\ cmd[s].bytes = SubSeq(data[f], 1, Len(data[f]))
    BY <1>2, <2>2 DEF ContentInv, Progress, Reached, Sending
  <2>4. data[f] \in Seq(Files!Chunks)
    BY <2>1 DEF FilesType, Texts
  <2>5. cmd[s].bytes = data[f]
    BY <2>3, <2>4
  <2>6. \A t \in Sessions : ~Affects(cmd[t], p)
    <3>1. ~Affects(cmd[s], p)
      BY <2>2 DEF Affects, Files!Changes, Fetches
    <3>2. ASSUME NEW t \in Sessions \ {s} PROVE ~Affects(cmd[t], p)
      <4>1. s \in Sessions /\ t \in Sessions \ {s} /\ cmd[s].pc # "idle" /\ cmd[s].alone
        BY <1>2, <3>2
      <4> QED BY <2>1, <4>1, NobodyElse
    <3> QED BY <3>1, <3>2
  <2>7. Files!Content(p) = wanted[p]
    BY <1>2, <2>1, <2>6 DEF ContentInv, Held
  <2>8. f # None
    BY <2>1, FilesConstants
  <2> QED BY <2>3, <2>5, <2>7, <2>8 DEF Files!Content, Files!IsFile, Files!Exists
<1> QED BY <1>1, <1>2 DEF Files!FilesAreAsSent

LEMMA TypesAreRight == FilesType => Files!TypeOK
<1> SUFFICES ASSUME FilesType PROVE Files!TypeOK
  OBVIOUS
<1>1. \A f \in Files!Files : \A k \in DOMAIN data[f] : data[f][k] \in Files!Chunks
  <2> SUFFICES ASSUME NEW f \in Files!Files, NEW k \in DOMAIN data[f]
               PROVE  data[f][k] \in Files!Chunks
    OBVIOUS
  <2>1. data[f] \in Seq(Files!Chunks)
    BY DEF FilesType, Texts
  <2> DEFINE text == data[f]
  <2> HIDE DEF text
  <2>2. text \in Seq(Files!Chunks) /\ k \in DOMAIN text
    BY <2>1 DEF text
  <2>3. text[k] \in Files!Chunks
    BY <2>2
  <2> QED BY <2>3 DEF text
<1>2. \A s \in Sessions : /\ cmd[s].pc \in Files!Pcs /\ cmd[s].number \in 0..MaxCommands
                          /\ cmd[s].alone \in BOOLEAN
                          /\ cmd[s].file \in Files!Files \cup {None} /\ cmd[s].pos \in Nat
  BY DEF FilesType, Commands
<1> QED BY <1>1, <1>2 DEF Files!TypeOK, FilesType

\* What the files of any number of sessions hold at every moment.
ContentsInv == FilesInv /\ (part = "files" => AllSound /\ ContentInv)

LEMMA ContentsInvAlways == SessionSpec => []ContentsInv
<1>1. SessionInit => (part = "files" => AllSound /\ ContentInv)
  BY ContentInit DEF SessionInit
<1>2. FilesInv /\ (part = "files" => AllSound /\ ContentInv) /\ [SessionNext]_sessionsVars =>
        (part = "files" => AllSound /\ ContentInv)'
  <2> SUFFICES ASSUME FilesInv, part = "files" => AllSound /\ ContentInv,
                      [SessionNext]_sessionsVars, part' = "files"
               PROVE  AllSound' /\ ContentInv'
    OBVIOUS
  <2>1. CASE part = "files" /\ Files!Next
    BY <2>1, SoundNext, ContentNext DEF FilesInv
  <2>2. CASE UNCHANGED <<part, filesVars>>
    <3>1. part = "files" /\ UNCHANGED <<tree, data, cmd, started, wanted>>
      BY <2>2 DEF filesVars
    <3>2. AllSound'
      BY <3>1 DEF AllSound, Sound
    <3>3. IsTree(tree')
      BY <3>1 DEF ContentInv
    <3>4. Numbered' /\ Astray'
      BY <3>1 DEF ContentInv, Numbered, Astray, Streams, Fresh
    <3>5. Held'
      BY <3>1 DEF ContentInv, Held, Affects, Files!Changes, Files!Content, Files!IsFile,
                  Files!Exists
    <3>6. Progress'
      <4> SUFFICES ASSUME NEW u \in Sessions, cmd[u].pc # "idle", cmd[u].alone
                   PROVE  Reached(u)'
        BY <3>1 DEF Progress
      <4>1. Reached(u)
        BY <3>1 DEF ContentInv, Progress
      <4>2. Untouched(u)'
        BY <3>1, <4>1 DEF Reached, Untouched, HasChangedNothing, Files!Content, Files!IsFile,
                          Files!Exists
      <4>3. NoDirectory(u)'
        BY <3>1, <4>1 DEF Reached, NoDirectory, Files!IsDirectory, Files!Exists
      <4>4. Freed(u)'
        BY <3>1, <4>1 DEF Reached, Freed, Found, Files!CanMake, Files!IsDirectory, Files!Exists
      <4>5. Receiving(u)'
        BY <3>1, <4>1 DEF Reached, Receiving, Streams, Old
      <4>6. Sending(u)'
        BY <3>1, <4>1 DEF Reached, Sending, Fetches
      <4> QED BY <4>2, <4>3, <4>4, <4>5, <4>6 DEF Reached
    <3> QED BY <3>2, <3>3, <3>4, <3>5, <3>6 DEF ContentInv
  <2> QED BY <2>1, <2>2 DEF SessionNext, sessionsVars
<1> QED BY <1>1, <1>2, FilesInvAlways, PTL DEF SessionSpec, ContentsInv

\* CmdAbstractStore.java:166, CmdRETR.java:99-136 and the other commands on files - a
\* path on which no command is at work holds what the replies have promised of it: the
\* bytes of the last STOR, also of one that failed, with those of later APPEs behind
\* them, moved by renames and gone when deleted; and a RETR that ended well has sent
\* that.  For any number of sessions and commands, any names and any tree.
THEOREM FilesHoldWhatWasSent == SessionSpec => []FilesAreAsSent
<1>1. ContentsInv => FilesAreAsSent
  <2> SUFFICES ASSUME ContentsInv, part = "files"
               PROVE  Files!TypeOK /\ Files!FilesAreAsSent
    BY DEF FilesAreAsSent
  <2>1. FilesType /\ AllFit /\ AllSound /\ Apart /\ ContentInv
    BY DEF ContentsInv, FilesInv, RemovalInv
  <2> QED BY <2>1, TypesAreRight, ContentIsAsSent
<1> QED BY <1>1, ContentsInvAlways, PTL

-----------------------------------------------------------------------------
(***************************************************************************)
(* Theorems about SessionData, for any number of data connections.         *)
(***************************************************************************)

-----------------------------------------------------------------------------
(***************************************************************************)
(* The factory.  Its methods are the only steps that change its variables, *)
(* and each of them keeps its types and its promise.                       *)
(***************************************************************************)
FactoryStep == OnPasv \/ OnPort \/ TransferConnects \/ TransferFails

LEMMA FactorySteps == [Next]_vars => [FactoryStep]_factoryVars
<1>. SUFFICES ASSUME [Next]_vars PROVE [FactoryStep]_factoryVars
  OBVIOUS
<1>. USE DEF FactoryStep
<1>1. CASE SessionThread
  <2>1. CASE Pasv \/ Port
    BY <2>1 DEF Pasv, Port
  <2>2. CASE StartsTransfer \/ RefusesTransfer \/ SessionEnds
    BY <2>2 DEF StartsTransfer, RefusesTransfer, SessionEnds
  <2>3. CASE GetsConnection \/ GetsNoConnection
    BY <2>3 DEF GetsConnection, GetsNoConnection
  <2>4. CASE AssignsSocket \/ ChecksSocket \/ GetsStream \/ SetsStream
    BY <2>4 DEF AssignsSocket, ChecksSocket, GetsStream, SetsStream
  <2>5. CASE AllSent \/ ChecksStream \/ Writes
    BY <2>5 DEF AllSent, ChecksStream, Writes
  <2>6. CASE ChecksSource \/ ChecksConnected \/ Reads
    BY <2>6 DEF ChecksSource, ChecksConnected, Reads
  <2>. QED
    BY <1>1, <2>1, <2>2, <2>3, <2>4, <2>5, <2>6 DEF SessionThread
<1>2. CASE TerminationBegins
  BY <1>2, Zenon DEF TerminationBegins
<1>3. ASSUME NEW t \in Closers, CloseDataSocket(t) PROVE UNCHANGED factoryVars
  BY <1>3 DEF CloseDataSocket, ChecksStreamToClose, ClosesStream, NullsStream,
              ChecksSocketToClose, ClosesSocket, NullsSocket
<1>4. CASE UNCHANGED vars
  BY <1>4 DEF vars
<1>. QED
  BY <1>1, <1>2, <1>3, <1>4 DEF Next

FactoryInv == FactoryTypeOK /\ OnePassivePort

LEMMA FactoryInvInit == FactoryInit => FactoryInv
BY DEF FactoryInit, FactoryInv, FactoryTypeOK, OnePassivePort, Remotes

LEMMA FactoryInvNext == FactoryInv /\ [FactoryStep]_factoryVars => FactoryInv'
<1>. SUFFICES ASSUME FactoryInv, [FactoryStep]_factoryVars PROVE FactoryInv'
  OBVIOUS
<1>1. CloseServer = 0 /\ CloseServer + 1 = 1
  BY DEF FactoryInv, FactoryTypeOK, OnePassivePort, CloseServer
<1>. USE DEF FactoryInv, FactoryTypeOK, OnePassivePort, Remotes
<1>2. CASE /\ ClearState
           /\ asked' \in {asked, "pasv"}
           /\ via' \in {via, "none", "pasv"}
  BY <1>1, <1>2, Zenon DEF ClearState
<1>3. CASE OnPasv
  <2>1. CASE server' = "set" /\ remote' = "null" /\ listening' = CloseServer + 1
    <3>1. listening' = 1
      BY <1>1, <2>1, Zenon
    <3>. QED
      BY <1>3, <2>1, <3>1, Zenon DEF OnPasv
  <2>2. CASE ClearState
    BY <1>2, <1>3, <2>2, Zenon DEF OnPasv
  <2>. QED
    BY <1>3, <2>1, <2>2, Zenon DEF OnPasv
<1>4. CASE OnPort
  BY <1>1, <1>4, Zenon DEF OnPort
<1>5. CASE TransferConnects
  BY <1>2, <1>5, Zenon DEF TransferConnects
<1>6. CASE TransferFails
  BY <1>2, <1>6, Zenon DEF TransferFails
<1>7. CASE UNCHANGED factoryVars
  BY <1>7, Zenon DEF factoryVars
<1>. QED
  BY <1>3, <1>4, <1>5, <1>6, <1>7, Zenon DEF FactoryStep

\* No port opened by an earlier PASV stays open, in any session.
THEOREM OnePort == Spec => []OnePassivePort
<1>1. Init => FactoryInv
  BY FactoryInvInit DEF Init
<1>2. FactoryInv /\ [Next]_vars => FactoryInv'
  BY FactorySteps, FactoryInvNext
<1>3. FactoryInv => OnePassivePort
  BY DEF FactoryInv
<1>. QED
  BY <1>1, <1>2, <1>3, PTL DEF Spec

\* A transfer never uses a PASV or PORT that a later one has superseded.
\* Something in force is what was asked for last: a server socket means PASV
\* and an address means PORT, never both.
Consistent ==
  /\ server = "set" => asked = "pasv" /\ remote = "null"
  /\ remote # "null" => asked = "port"

LEMMA ConsistentNext == Consistent /\ [FactoryStep]_factoryVars => Consistent'
<1>. SUFFICES ASSUME Consistent, [FactoryStep]_factoryVars PROVE Consistent'
  OBVIOUS
<1>. USE DEF Consistent, ClearState
<1>1. CASE OnPasv
  BY <1>1 DEF OnPasv
<1>2. CASE OnPort
  BY <1>2 DEF OnPort
<1>3. CASE TransferConnects
  BY <1>3 DEF TransferConnects
<1>4. CASE TransferFails
  BY <1>4 DEF TransferFails
<1>5. CASE UNCHANGED factoryVars
  BY <1>5 DEF factoryVars
<1>. QED
  BY <1>1, <1>2, <1>3, <1>4, <1>5 DEF FactoryStep

LEMMA PromiseStep ==
  ASSUME Consistent, [FactoryStep]_factoryVars
  PROVE  [Promise!OnPasv \/ Promise!OnPort \/ Promise!OnTransfer]_<<Mode, via>>
<1>. USE DEF Consistent, ClearState, Mode
<1>1. CASE OnPasv
  BY <1>1 DEF OnPasv, Promise!OnPasv
<1>2. CASE OnPort
  BY <1>2, Zenon DEF OnPort, Promise!OnPort, Remotes
<1>3. CASE TransferConnects
  BY <1>3 DEF TransferConnects, Promise!OnTransfer
<1>4. CASE TransferFails
  BY <1>4 DEF TransferFails, Promise!OnTransfer
<1>5. CASE UNCHANGED factoryVars
  BY <1>5 DEF factoryVars
<1>. QED
  BY <1>1, <1>2, <1>3, <1>4, <1>5 DEF FactoryStep

THEOREM FactoryKeepsPromise == Spec => KeepsPromise
<1>1. Init => Consistent /\ Promise!FactoryInit
  BY DEF Init, FactoryInit, Consistent, Promise!FactoryInit, Mode
<1>2. Consistent /\ [Next]_vars => Consistent'
  BY FactorySteps, ConsistentNext
<1>3. Consistent /\ [Next]_vars
        => [Promise!OnPasv \/ Promise!OnPort \/ Promise!OnTransfer]_<<Mode, via>>
  BY FactorySteps, PromiseStep
<1>. QED
  BY <1>1, <1>2, <1>3, PTL DEF Spec, KeepsPromise, Promise!FactorySpec

-----------------------------------------------------------------------------
(***************************************************************************)
(* Types                                                                   *)
(***************************************************************************)
\* Where the local of startUsingDataSocket is in use, and that closeDataSocket is
\* called from "closing" only.
Control ==
  /\ closing["session"] # "out" => pc = "closing"
  /\ pc \notin {"assign", "set_stream"} => got = None
  /\ pc = "assign" => got \in {None, made}

LEMMA ControlInit == Init => Control
BY DEF Init, Control, Closers

LEMMA DataTypeInit == Init => DataTypeOK
<1>1. 0 \in 0..MaxConnections
  BY ConnectionsAssumption
<1>2. [t \in Closers |-> "out"] \in [Closers -> ClosePcs]
  BY DEF ClosePcs
<1>. QED
  BY <1>1, <1>2 DEF Init, DataTypeOK, SessionPcs

LEMMA NextConnection ==
  ASSUME NEW n \in 0..MaxConnections, n < MaxConnections
  PROVE  n + 1 \in Connections /\ n + 1 \in 0..MaxConnections
BY ConnectionsAssumption DEF Connections

\* One thread moves on in closeDataSocket.
LEMMA CloseStepType ==
  ASSUME DataTypeOK, NEW t \in Closers, NEW to \in ClosePcs, CloseStep(t, to)
  PROVE  /\ closing' \in [Closers -> ClosePcs]
         /\ closing'[t] = to
         /\ \A u \in Closers \ {t} : closing'[u] = closing[u]
BY Zenon DEF DataTypeOK, CloseStep

\* The session thread calls closeDataSocket.
LEMMA SessionClosesType ==
  ASSUME DataTypeOK, SessionCloses
  PROVE  /\ pc' = "closing"
         /\ closing' \in [Closers -> ClosePcs]
         /\ closing'["session"] = "check_stream"
         /\ closing'["server"] = closing["server"]
BY Zenon DEF DataTypeOK, SessionCloses, Closers, ClosePcs

LEMMA DataTypeNext == DataTypeOK /\ Control /\ [Next]_vars => DataTypeOK'
<1>. SUFFICES ASSUME DataTypeOK, Control, [Next]_vars PROVE DataTypeOK'
  OBVIOUS
<1>1. CASE UNCHANGED vars
  BY <1>1, Zenon
  DEF vars, dataVars, fieldVars, sessionVars, historyVars, DataTypeOK
<1>2. CASE SessionThread
  <2>. USE SessionClosesType
       DEF DataTypeOK, SessionPcs, fieldVars, sessionVars, historyVars
  <2>1. CASE Pasv \/ Port
    BY <2>1, Zenon DEF Pasv, Port, dataVars
  <2>2. CASE StartsTransfer
    BY <2>2, Zenon DEF StartsTransfer
  <2>3. CASE RefusesTransfer
    BY <2>3, Zenon DEF RefusesTransfer
  <2>4. CASE SessionEnds
    BY <2>4, Zenon DEF SessionEnds
  <2>5. CASE GetsConnection
    <3>1. made + 1 \in Connections /\ made + 1 \in 0..MaxConnections
      BY <2>5, NextConnection, Zenon DEF GetsConnection
    <3>. QED
      BY <2>5, <3>1, Zenon DEF GetsConnection
  <2>6. CASE GetsNoConnection
    BY <2>6, Zenon DEF GetsNoConnection
  <2>7. CASE ChecksSocket
    BY <2>7, Zenon DEF ChecksSocket
  <2>8. CASE GetsStream
    BY <2>8, Zenon DEF GetsStream
  <2>9. CASE SetsStream
    BY <2>9, Zenon DEF SetsStream
  <2>10. CASE AllSent
    BY <2>10, Zenon DEF AllSent
  <2>11. CASE ChecksStream
    BY <2>11, Zenon DEF ChecksStream, GoesOn
  <2>12. CASE Writes
    BY <2>12, Zenon DEF Writes, GoesOn
  <2>13. CASE ChecksSource
    BY <2>13, Zenon DEF ChecksSource
  <2>14. CASE ChecksConnected
    BY <2>14, Zenon DEF ChecksConnected
  <2>15. CASE Reads
    BY <2>15, Zenon DEF Reads, GoesOn
  <2>16. CASE AssignsSocket
    BY <2>16, Zenon DEF AssignsSocket
  <2>. QED
    BY <1>2, <2>1, <2>2, <2>3, <2>4, <2>5, <2>6, <2>7, <2>8, <2>9, <2>10, <2>11,
       <2>12, <2>13, <2>14, <2>15, <2>16 DEF SessionThread
<1>3. CASE TerminationBegins
  <2>1. closing' \in [Closers -> ClosePcs]
    BY <1>3, CloseStepType, Zenon DEF TerminationBegins, Closers, ClosePcs
  <2>2. made \in 0..MaxConnections /\ got \in Connections \cup {None}
    BY DEF DataTypeOK
  <2>3. ASSUME pc = "assign", got # None PROVE made - 1 \in 0..MaxConnections
    <3>1. made \in Connections
      BY <2>2, <2>3 DEF Control
    <3>. QED
      BY <3>1, ConnectionsAssumption DEF Connections
  <2>4. mark' \in 0..MaxConnections
    BY <1>3, <2>2, <2>3, Zenon DEF TerminationBegins
  <2>. QED
    BY <1>3, <2>1, <2>4, Zenon DEF TerminationBegins, DataTypeOK, fieldVars, sessionVars
<1>4. ASSUME NEW t \in Closers, CloseDataSocket(t) PROVE DataTypeOK'
  <2>. USE DEF DataTypeOK, fieldVars, sessionVars, historyVars
  <2>1. closing' \in [Closers -> ClosePcs]
    BY <1>4, CloseStepType, Zenon
    DEF CloseDataSocket, ChecksStreamToClose, ClosesStream, NullsStream,
        ChecksSocketToClose, ClosesSocket, NullsSocket, ClosePcs
  <2>2. CASE ChecksStreamToClose(t)
    BY <2>1, <2>2, Zenon DEF ChecksStreamToClose
  <2>3. CASE ClosesStream(t)
    BY <2>1, <2>3, Zenon DEF ClosesStream
  <2>4. CASE NullsStream(t)
    BY <2>1, <2>4, Zenon DEF NullsStream
  <2>5. CASE ChecksSocketToClose(t)
    BY <2>1, <2>5, Zenon DEF ChecksSocketToClose
  <2>6. CASE ClosesSocket(t)
    BY <2>1, <2>6, Zenon DEF ClosesSocket
  <2>7. CASE NullsSocket(t)
    BY <2>1, <2>7, Zenon DEF NullsSocket, SessionPcs
  <2>. QED
    BY <1>4, <2>2, <2>3, <2>4, <2>5, <2>6, <2>7, Zenon DEF CloseDataSocket
<1>. QED
  BY <1>1, <1>2, <1>3, <1>4 DEF Next

LEMMA NoneIsNoConnection == None \notin Connections
BY ConnectionsAssumption DEF Connections

LEMMA ControlSessionThread ==
  ASSUME DataTypeOK, Control, SessionThread
  PROVE  Control'
<1>. USE NoneIsNoConnection, SessionClosesType
     DEF DataTypeOK, Control, fieldVars, sessionVars
<1>1. CASE Pasv \/ Port
  <2>1. UNCHANGED <<pc, got, closing, made>>
    BY <1>1, Zenon DEF Pasv, Port, dataVars
  <2>. QED
    BY <2>1, Zenon
<1>2. CASE StartsTransfer
  BY <1>2, Zenon DEF StartsTransfer
<1>3. CASE RefusesTransfer
  BY <1>3, Zenon DEF RefusesTransfer
<1>4. CASE SessionEnds
  BY <1>4, Zenon DEF SessionEnds
<1>5. CASE GetsConnection
  BY <1>5, Zenon DEF GetsConnection
<1>6. CASE GetsNoConnection
  BY <1>6, Zenon DEF GetsNoConnection
<1>7. CASE AssignsSocket
  BY <1>7, Zenon DEF AssignsSocket
<1>8. CASE ChecksSocket
  BY <1>8, Zenon DEF ChecksSocket
<1>9. CASE GetsStream
  BY <1>9, Zenon DEF GetsStream
<1>10. CASE SetsStream
  BY <1>10, Zenon DEF SetsStream
<1>11. CASE AllSent
  BY <1>11, Zenon DEF AllSent
<1>12. CASE ChecksStream
  BY <1>12, Zenon DEF ChecksStream, GoesOn
<1>13. CASE Writes
  BY <1>13, Zenon DEF Writes, GoesOn
<1>14. CASE ChecksSource
  BY <1>14, Zenon DEF ChecksSource
<1>15. CASE ChecksConnected
  BY <1>15, Zenon DEF ChecksConnected
<1>16. CASE Reads
  BY <1>16, Zenon DEF Reads, GoesOn
<1>. QED
  BY <1>1, <1>2, <1>3, <1>4, <1>5, <1>6, <1>7, <1>8, <1>9, <1>10, <1>11, <1>12,
     <1>13, <1>14, <1>15, <1>16 DEF SessionThread

LEMMA ControlNext == DataTypeOK /\ Control /\ [Next]_vars => Control'
<1>. SUFFICES ASSUME DataTypeOK, Control, [Next]_vars PROVE Control'
  OBVIOUS
<1>1. CASE UNCHANGED vars
  BY <1>1, Zenon DEF vars, dataVars, sessionVars, Control
<1>2. CASE TerminationBegins
  BY <1>2, Zenon
  DEF TerminationBegins, DataTypeOK, Control, CloseStep, Closers, sessionVars
<1>3. ASSUME NEW t \in Closers, CloseDataSocket(t) PROVE Control'
  <2>1. closing[t] # "out" /\ made' = made /\ got' = got
    BY <1>3
    DEF CloseDataSocket, ChecksStreamToClose, ClosesStream, NullsStream,
        ChecksSocketToClose, ClosesSocket, NullsSocket, At, sessionVars
  <2>2. \/ pc' = pc /\ (t = "server" => closing'["session"] = closing["session"])
        \/ NullsSocket("session")
    BY <1>3, Zenon
    DEF CloseDataSocket, ChecksStreamToClose, ClosesStream, NullsStream,
        ChecksSocketToClose, ClosesSocket, NullsSocket, CloseStep, DataTypeOK, Closers,
        sessionVars
  <2>3. CASE NullsSocket("session")
    BY <2>1, <2>3, Zenon DEF NullsSocket, At, CloseStep, DataTypeOK, Closers, Control
  <2>4. CASE pc' = pc /\ t = "session"
    BY <2>1, <2>4, Zenon DEF Control
  <2>5. CASE pc' = pc /\ closing'["session"] = closing["session"]
    BY <2>1, <2>5, Zenon DEF Control
  <2>. QED
    BY <2>2, <2>3, <2>4, <2>5 DEF Closers
<1>. QED
  BY <1>1, <1>2, <1>3, ControlSessionThread DEF Next

DataInv == DataTypeOK /\ Control

LEMMA DataInvNext == DataInv /\ [Next]_vars => DataInv'
BY DataTypeNext, ControlNext DEF DataInv

LEMMA DataInvInit == Init => DataInv
BY DataTypeInit, ControlInit DEF DataInv

\* The fields hold connections that were made, and every thread is where its
\* code has a statement.
THEOREM TypeCorrect == Spec => []TypeOK
<1>1. Init => FactoryInv /\ DataInv
  BY FactoryInvInit, DataInvInit DEF Init
<1>2. FactoryInv /\ DataInv /\ [Next]_vars => (FactoryInv /\ DataInv)'
  BY FactorySteps, FactoryInvNext, DataInvNext
<1>3. FactoryInv /\ DataInv => TypeOK
  BY DEF FactoryInv, DataInv, TypeOK
<1>. QED
  BY <1>1, <1>2, <1>3, PTL DEF Spec

-----------------------------------------------------------------------------
(***************************************************************************)
(* The session thread on its own.  Until termination begins, the only open *)
(* connection is the one dataSocket refers to, or is about to, and at      *)
(* every use of a field the check before it still holds.                   *)
(***************************************************************************)
HeldData == IF pc = "assign" THEN got ELSE dataSocket

FieldsAlone ==
  /\ open \subseteq {HeldData}
  /\ dataOutputStream \in {None, dataSocket}
  /\ pc \in {"idle", "transfer", "assign", "dead"} => dataSocket = None
  /\ pc \in {"check", "get_stream", "set_stream"} => dataOutputStream = None
  /\ pc \in {"get_stream", "connected", "read"} => dataSocket # None
  /\ pc = "set_stream" => got = dataSocket
  /\ pc = "write" => dataOutputStream # None

ClosingAlone ==
  /\ closing["session"] # "out" => pc = "closing"
  /\ closing["session"] = "close_stream" => dataOutputStream # None
  /\ closing["session"] \in {"check_socket", "close_socket", "null_socket"}
       => dataOutputStream = None
  /\ closing["session"] = "close_socket" => dataSocket # None
  /\ closing["session"] = "null_socket" => open = {}

Alone ==
  termination = "before" =>
    ~crashed /\ closing["server"] = "out" /\ FieldsAlone /\ ClosingAlone

LEMMA AloneInit == Init => Alone
BY DEF Init, Alone, FieldsAlone, ClosingAlone, Closers, HeldData

\* A step of the session thread outside closeDataSocket.
LEMMA AloneSessionThread ==
  ASSUME DataTypeOK, Control, FieldsAlone, ClosingAlone, ~crashed,
         closing["server"] = "out", SessionThread
  PROVE  ~crashed' /\ closing'["server"] = "out" /\ FieldsAlone' /\ ClosingAlone'
<1>. USE NoneIsNoConnection, SessionClosesType
     DEF DataTypeOK, FieldsAlone, ClosingAlone, HeldData, fieldVars, sessionVars
<1>1. CASE Pasv \/ Port
  <2>1. UNCHANGED <<dataSocket, dataOutputStream, pc, got, closing, open, crashed>>
    BY <1>1, Zenon DEF Pasv, Port, dataVars
  <2>. QED
    BY <2>1, Zenon
<1>2. CASE StartsTransfer
  BY <1>2, Zenon DEF StartsTransfer
<1>3. CASE RefusesTransfer
  BY <1>3, Zenon DEF RefusesTransfer
<1>4. CASE SessionEnds
  BY <1>4, Zenon DEF SessionEnds
<1>5. CASE GetsConnection
  BY <1>5, Zenon DEF GetsConnection
<1>6. CASE GetsNoConnection
  BY <1>6, Zenon DEF GetsNoConnection, Control
<1>16. CASE AssignsSocket
  BY <1>16, Zenon DEF AssignsSocket
<1>7. CASE ChecksSocket
  BY <1>7, Zenon DEF ChecksSocket
<1>8. CASE GetsStream
  <2>1. dataSocket # None /\ UNCHANGED <<dataOutputStream, open>>
    BY <1>8, Zenon DEF GetsStream
  <2>2. CASE pc' = "set_stream"
    <3>1. got' = dataSocket /\ UNCHANGED <<dataSocket, closing, crashed>>
      BY <1>8, <2>1, <2>2, Zenon DEF GetsStream
    <3>. QED
      BY <1>8, <2>1, <2>2, <3>1, Zenon DEF GetsStream
  <2>3. CASE pc' # "set_stream"
    <3>1. dataSocket \notin open /\ dataSocket' = None /\ SessionCloses /\ UNCHANGED crashed
      BY <1>8, <2>1, <2>3, Zenon DEF GetsStream
    <3>. QED
      BY <1>8, <2>1, <3>1, Zenon DEF GetsStream
  <2>. QED
    BY <2>2, <2>3, Zenon
<1>9. CASE SetsStream
  BY <1>9, Zenon DEF SetsStream
<1>10. CASE AllSent
  BY <1>10, Zenon DEF AllSent
<1>11. CASE ChecksStream
  BY <1>11, Zenon DEF ChecksStream, GoesOn
<1>12. CASE Writes
  BY <1>12, Zenon DEF Writes, GoesOn
<1>13. CASE ChecksSource
  BY <1>13, Zenon DEF ChecksSource
<1>14. CASE ChecksConnected
  BY <1>14, Zenon DEF ChecksConnected
<1>15. CASE Reads
  <2>1. /\ UNCHANGED <<dataSocket, dataOutputStream, got, open, crashed>>
        /\ SessionCloses \/ GoesOn
    BY <1>15, Zenon DEF Reads
  <2>2. CASE SessionCloses
    BY <1>15, <2>1, <2>2, Zenon DEF Reads
  <2>3. CASE GoesOn
    BY <1>15, <2>1, <2>3, Zenon DEF Reads, GoesOn
  <2>. QED
    BY <2>1, <2>2, <2>3, Zenon
<1>. QED
  BY <1>1, <1>2, <1>3, <1>4, <1>5, <1>6, <1>7, <1>8, <1>9, <1>10, <1>11, <1>12,
     <1>13, <1>14, <1>15, <1>16 DEF SessionThread

\* A step of the session thread in closeDataSocket.
LEMMA AloneCloseDataSocket ==
  ASSUME DataTypeOK, FieldsAlone, ClosingAlone, ~crashed,
         closing["server"] = "out", CloseDataSocket("session")
  PROVE  ~crashed' /\ closing'["server"] = "out" /\ FieldsAlone' /\ ClosingAlone'
<1>1. closing'["server"] = "out"
  BY CloseStepType, Zenon
  DEF DataTypeOK, CloseDataSocket, ChecksStreamToClose, ClosesStream, NullsStream,
      ChecksSocketToClose, ClosesSocket, NullsSocket, Closers, ClosePcs, ClosingAlone
<1>. USE NoneIsNoConnection
     DEF DataTypeOK, FieldsAlone, ClosingAlone, HeldData, At, CloseStep, Closers,
         fieldVars, sessionVars
<1>2. CASE ChecksStreamToClose("session")
  BY <1>1, <1>2, Zenon DEF ChecksStreamToClose
<1>3. CASE ClosesStream("session")
  BY <1>1, <1>3, Zenon DEF ClosesStream
<1>4. CASE NullsStream("session")
  BY <1>1, <1>4, Zenon DEF NullsStream
<1>5. CASE ChecksSocketToClose("session")
  BY <1>1, <1>5, Zenon DEF ChecksSocketToClose
<1>6. CASE ClosesSocket("session")
  BY <1>1, <1>6, Zenon DEF ClosesSocket
<1>7. CASE NullsSocket("session")
  BY <1>1, <1>7, Zenon DEF NullsSocket
<1>. QED
  BY <1>2, <1>3, <1>4, <1>5, <1>6, <1>7, Zenon DEF CloseDataSocket

LEMMA AloneNext == DataInv /\ Alone /\ [Next]_vars => Alone'
<1>. SUFFICES ASSUME DataTypeOK, Control, Alone, [Next]_vars, termination' = "before"
              PROVE  ~crashed' /\ closing'["server"] = "out" /\ FieldsAlone' /\ ClosingAlone'
  BY DEF Alone, DataInv
<1>1. CASE UNCHANGED vars
  BY <1>1 DEF vars, dataVars, fieldVars, sessionVars, historyVars, Alone,
              FieldsAlone, ClosingAlone, HeldData
<1>2. CASE SessionThread /\ ~crashed
  <2>1. UNCHANGED termination
    BY <1>2
    DEF SessionThread, Pasv, Port, StartsTransfer, RefusesTransfer, SessionEnds,
        GetsConnection, GetsNoConnection, AssignsSocket, ChecksSocket, GetsStream, SetsStream,
        AllSent, ChecksStream, Writes, ChecksSource, ChecksConnected, Reads,
        dataVars, historyVars
  <2>. QED
    BY <1>2, <2>1, AloneSessionThread DEF Alone
<1>3. CASE TerminationBegins
  BY <1>3, Zenon DEF TerminationBegins
<1>4. ASSUME NEW t \in Closers, CloseDataSocket(t), ~crashed
      PROVE  ~crashed' /\ closing'["server"] = "out" /\ FieldsAlone' /\ ClosingAlone'
  <2>1. closing[t] # "out"
    BY <1>4 DEF CloseDataSocket, ChecksStreamToClose, ClosesStream, NullsStream,
                ChecksSocketToClose, ClosesSocket, NullsSocket, At
  <2>2. termination = "before"
    BY <1>4 DEF CloseDataSocket, ChecksStreamToClose, ClosesStream, NullsStream,
                ChecksSocketToClose, ClosesSocket, NullsSocket, historyVars
  <2>3. t = "session"
    BY <2>1, <2>2 DEF Alone, Closers
  <2>. QED
    BY <1>4, <2>2, <2>3, AloneCloseDataSocket DEF Alone
<1>. QED
  BY <1>1, <1>2, <1>3, <1>4 DEF Next

LEMMA AlwaysAlone == Spec => [](DataInv /\ Alone)
<1>1. Init => DataInv /\ Alone
  BY DataInvInit, AloneInit
<1>2. DataInv /\ Alone /\ [Next]_vars => (DataInv /\ Alone)'
  BY DataInvNext, AloneNext
<1>. QED
  BY <1>1, <1>2, PTL DEF Spec

\* However its transfers fail, a session never dereferences null by itself.
THEOREM NoCrashAlone == Spec => []CrashNeedsTermination
<1>1. Alone => CrashNeedsTermination
  BY DEF Alone, CrashNeedsTermination
<1>. QED
  BY <1>1, AlwaysAlone, PTL

-----------------------------------------------------------------------------
(***************************************************************************)
(* Termination.  Until the server thread has closed it, a connection that  *)
(* dataSocket referred to when termination began stays there:              *)
(* only the session thread replaces dataSocket, and to get there it has to *)
(* close that connection itself.                                           *)
(***************************************************************************)
OldOpen == {c \in open : c <= mark}

Ending ==
  /\ OldOpen \subseteq {dataSocket}
  /\ pc \in {"idle", "transfer", "assign", "dead"} => OldOpen = {}
  /\ closing["session"] # "out" => pc = "closing"
  /\ closing["session"] = "null_socket" => OldOpen = {}
  /\ closing["server"] = "null_socket" \/ termination = "over" => OldOpen = {}
  /\ mark <= made

Terminating == termination # "before" => Ending

\* The next connection is newer than the mark.
LEMMA NewerThanMark ==
  ASSUME NEW m \in 0..MaxConnections, NEW n \in 0..MaxConnections, m <= n
  PROVE  m <= n + 1 /\ ~(n + 1 <= m)
BY ConnectionsAssumption

\* Once termination has begun, only GetsConnection opens a connection, and
\* that one is not old.
LEMMA EndingSessionThread ==
  ASSUME DataTypeOK, Ending, SessionThread
  PROVE  Ending'
<1>. USE NoneIsNoConnection, SessionClosesType
     DEF DataTypeOK, Ending, OldOpen, fieldVars, historyVars
<1>1. CASE Pasv \/ Port
  <2>1. UNCHANGED <<dataSocket, pc, closing, termination, made, mark, open>>
    BY <1>1, Zenon DEF Pasv, Port, dataVars, sessionVars
  <2>. QED
    BY <2>1, Zenon
<1>2. CASE StartsTransfer
  BY <1>2, Zenon DEF StartsTransfer
<1>3. CASE RefusesTransfer
  BY <1>3, Zenon DEF RefusesTransfer
<1>4. CASE SessionEnds
  BY <1>4, Zenon DEF SessionEnds
<1>5. CASE GetsConnection
  <2>1. ~(made + 1 <= mark) /\ mark <= made + 1
    BY NewerThanMark, Zenon
  <2>2. OldOpen = {} /\ OldOpen' = {}
    BY <1>5, <2>1, Zenon DEF GetsConnection
  <2>. QED
    BY <1>5, <2>1, <2>2, Zenon DEF GetsConnection
<1>6. CASE GetsNoConnection
  BY <1>6, Zenon DEF GetsNoConnection
<1>16. CASE AssignsSocket
  BY <1>16, Zenon DEF AssignsSocket
<1>7. CASE ChecksSocket
  BY <1>7, Zenon DEF ChecksSocket
<1>8. CASE GetsStream
  <2>1. /\ UNCHANGED <<open, mark, made, termination>>
        /\ \/ UNCHANGED <<pc, dataSocket, closing>>
           \/ pc' = "set_stream" /\ pc = "get_stream" /\ UNCHANGED <<dataSocket, closing>>
           \/ dataSocket \notin open /\ SessionCloses
    BY <1>8, Zenon DEF GetsStream
  <2>2. CASE UNCHANGED <<pc, dataSocket, closing>>
    BY <2>1, <2>2, Zenon
  <2>3. CASE pc' = "set_stream" /\ pc = "get_stream" /\ UNCHANGED <<dataSocket, closing>>
    BY <2>1, <2>3, Zenon
  <2>4. CASE dataSocket \notin open /\ SessionCloses
    <3>1. OldOpen = {} /\ OldOpen' = {}
      BY <2>1, <2>4, Zenon
    <3>. QED
      BY <2>1, <2>4, <3>1, Zenon
  <2>. QED
    BY <2>1, <2>2, <2>3, <2>4, Zenon
<1>9. CASE SetsStream
  BY <1>9, Zenon DEF SetsStream
<1>10. CASE AllSent
  BY <1>10, Zenon DEF AllSent
<1>11. CASE ChecksStream
  BY <1>11, Zenon DEF ChecksStream, GoesOn
<1>12. CASE Writes
  BY <1>12, Zenon DEF Writes, GoesOn
<1>13. CASE ChecksSource
  BY <1>13, Zenon DEF ChecksSource
<1>14. CASE ChecksConnected
  BY <1>14, Zenon DEF ChecksConnected
<1>15. CASE Reads
  <2>1. /\ UNCHANGED <<dataSocket, open, mark, made, termination>>
        /\ UNCHANGED <<pc, closing>> \/ SessionCloses \/ GoesOn
    BY <1>15, Zenon DEF Reads
  <2>. QED
    BY <1>15, <2>1, Zenon DEF Reads, GoesOn
<1>. QED
  BY <1>1, <1>2, <1>3, <1>4, <1>5, <1>6, <1>7, <1>8, <1>9, <1>10, <1>11, <1>12,
     <1>13, <1>14, <1>15, <1>16 DEF SessionThread

\* closeDataSocket in either thread: whoever passes check_socket while an old
\* connection is open finds it in dataSocket, and closes it.
LEMMA EndingCloseDataSocket ==
  ASSUME DataTypeOK, Ending, NEW t \in Closers, CloseDataSocket(t)
  PROVE  Ending'
<1>. USE NoneIsNoConnection
     DEF DataTypeOK, Ending, OldOpen, At, CloseStep, Closers, fieldVars, sessionVars,
         historyVars
<1>1. CASE ChecksStreamToClose(t)
  BY <1>1, Zenon DEF ChecksStreamToClose
<1>2. CASE ClosesStream(t)
  BY <1>2, Zenon DEF ClosesStream
<1>3. CASE NullsStream(t)
  BY <1>3, Zenon DEF NullsStream
<1>4. CASE ChecksSocketToClose(t)
  BY <1>4, Zenon DEF ChecksSocketToClose
<1>5. CASE ClosesSocket(t)
  BY <1>5, Zenon DEF ClosesSocket
<1>6. CASE NullsSocket(t)
  BY <1>6, Zenon DEF NullsSocket
<1>. QED
  BY <1>1, <1>2, <1>3, <1>4, <1>5, <1>6, Zenon DEF CloseDataSocket

LEMMA TerminatingNext ==
  DataInv /\ Alone /\ Terminating /\ [Next]_vars => Terminating'
<1>. SUFFICES ASSUME DataTypeOK, Control, Alone, Terminating, [Next]_vars,
                     termination' # "before"
              PROVE  Ending'
  BY DEF Terminating, DataInv
<1>1. CASE UNCHANGED vars
  BY <1>1 DEF vars, dataVars, fieldVars, sessionVars, historyVars, Terminating, Ending, OldOpen
<1>2. CASE SessionThread
  <2>1. UNCHANGED termination
    BY <1>2
    DEF SessionThread, Pasv, Port, StartsTransfer, RefusesTransfer, SessionEnds,
        GetsConnection, GetsNoConnection, AssignsSocket, ChecksSocket, GetsStream, SetsStream,
        AllSent, ChecksStream, Writes, ChecksSource, ChecksConnected, Reads,
        dataVars, historyVars
  <2>. QED
    BY <1>2, <2>1, EndingSessionThread DEF Terminating
<1>3. CASE TerminationBegins
  <2>1. Alone /\ termination = "before" /\ FieldsAlone /\ ClosingAlone
    BY <1>3, Zenon DEF TerminationBegins, Alone
  <2>5. UNCHANGED <<dataSocket, pc, got, made, open>>
    BY <1>3 DEF TerminationBegins, fieldVars, sessionVars
  <2>6. made \in 0..MaxConnections /\ open \subseteq Connections
        /\ got \in Connections \cup {None} /\ dataSocket \in Connections \cup {None}
    BY DEF DataTypeOK
  \* What is not assigned yet is newer than the mark.
  <2>7. ASSUME pc = "assign" PROVE OldOpen' = {}
    <3>1. CASE got = None
      BY <2>1, <2>5, <2>6, <2>7, <3>1, NoneIsNoConnection DEF FieldsAlone, HeldData, OldOpen
    <3>2. CASE got # None
      <4>1. open \subseteq {made} /\ mark' = made - 1
        BY <1>3, <2>1, <2>7, <3>2, Zenon DEF FieldsAlone, HeldData, Control, TerminationBegins
      <4>2. made \in Int /\ ~(made <= made - 1)
        BY <2>6, ConnectionsAssumption
      <4>. QED
        BY <2>5, <4>1, <4>2 DEF OldOpen
    <3>. QED
      BY <3>1, <3>2
  <2>2. /\ OldOpen' \subseteq {dataSocket'}
        /\ pc' \in {"idle", "transfer", "assign", "dead"} => OldOpen' = {}
    BY <2>1, <2>5, <2>6, <2>7, NoneIsNoConnection, Zenon DEF FieldsAlone, HeldData, OldOpen
  <2>3. /\ closing'["session"] # "out" => pc' = "closing"
        /\ closing'["session"] = "null_socket" => open' = {}
        /\ closing'["server"] = "check_stream" /\ termination' = "begun"
    BY <1>3, <2>1, Zenon
    DEF TerminationBegins, ClosingAlone, CloseStep, DataTypeOK, Closers, sessionVars
  <2>4. mark' <= made'
    <3>1. mark' \in {made, made - 1} /\ made' = made
      BY <1>3, Zenon DEF TerminationBegins
    <3>2. made <= made /\ made - 1 <= made
      BY <2>6, ConnectionsAssumption
    <3>. QED
      BY <3>1, <3>2
  <2>. QED
    BY <2>2, <2>3, <2>4, Zenon DEF Ending, OldOpen
<1>4. ASSUME NEW t \in Closers, CloseDataSocket(t), ~crashed PROVE Ending'
  <2>1. CASE termination = "before"
    <3>1. t = "session" /\ UNCHANGED termination
      BY <1>4, <2>1
      DEF Alone, Closers, CloseDataSocket, ChecksStreamToClose, ClosesStream, NullsStream,
          ChecksSocketToClose, ClosesSocket, NullsSocket, At, historyVars
    <3>. QED
      BY <2>1, <3>1
  <2>2. CASE termination # "before"
    BY <1>4, <2>2, EndingCloseDataSocket DEF Terminating
  <2>. QED
    BY <2>1, <2>2
<1>. QED
  BY <1>1, <1>2, <1>3, <1>4 DEF Next

\* However the two threads interleave, terminateAllSessions closes the data
\* connection that was in dataSocket when it began.
THEOREM TerminationIsEffective == Spec => []TerminationClosesTransfer
<1>1. Init => Terminating
  BY DEF Init, Terminating
<1>2. DataInv /\ Terminating => TerminationClosesTransfer
  <2>. SUFFICES ASSUME DataInv, Terminating, termination = "over",
                       NEW c \in open, c \in 1..mark
                PROVE  FALSE
    BY DEF TerminationClosesTransfer
  <2>1. c <= mark
    BY DEF DataInv, DataTypeOK
  <2>. QED
    BY <2>1 DEF Terminating, Ending, OldOpen
<1>. QED
  BY <1>1, <1>2, AlwaysAlone, TerminatingNext, PTL DEF Spec

-----------------------------------------------------------------------------
(***************************************************************************)
(* What is lost.  Only the session thread gets a connection for dataSocket, *)
(* and not before it has emptied it and closed what was in it; so the only *)
(* step that can part an open connection from dataSocket is the server     *)
(* thread's last one, and it parts it from one.                            *)
(***************************************************************************)
Parted == open \ {HeldData}

Losing ==
  /\ pc \in {"idle", "transfer", "assign", "dead"} => dataSocket = None
  /\ closing["session"] # "out" => pc = "closing"
  /\ closing["session"] = "null_socket" => dataSocket \notin open
  /\ closing["server"] # "out" => termination = "begun"
  /\ termination # "over" => Parted = {}
  /\ \E c \in Connections \cup {None} : Parted \subseteq {c}

LEMMA LosingInit == Init => Losing
BY DEF Init, Losing, Parted, HeldData, Closers

\* A step that does not part more connections than are parted.
LEMMA PartsNoMore ==
  ASSUME Losing, Parted' \subseteq Parted, UNCHANGED termination
  PROVE  /\ termination' # "over" => Parted' = {}
         /\ \E c \in Connections \cup {None} : Parted' \subseteq {c}
BY Zenon DEF Losing

LEMMA LosingSessionThread ==
  ASSUME DataTypeOK, Control, Losing, SessionThread
  PROVE  Losing'
<1>1. UNCHANGED termination
  BY DEF SessionThread, Pasv, Port, StartsTransfer, RefusesTransfer, SessionEnds,
         GetsConnection, GetsNoConnection, AssignsSocket, ChecksSocket, GetsStream, SetsStream,
         AllSent, ChecksStream, Writes, ChecksSource, ChecksConnected, Reads,
         dataVars, historyVars
<1>. SUFFICES
       /\ pc' \in {"idle", "transfer", "assign", "dead"} => dataSocket' = None
       /\ closing'["session"] # "out" => pc' = "closing"
       /\ closing'["session"] # "null_socket" \/ UNCHANGED <<closing, dataSocket, open>>
       /\ closing'["server"] = closing["server"]
       /\ Parted' \subseteq Parted
  BY <1>1, PartsNoMore, Zenon DEF Losing
<1>. USE NoneIsNoConnection, SessionClosesType
     DEF DataTypeOK, Losing, Parted, HeldData, fieldVars
<1>2. CASE Pasv \/ Port
  <2>1. UNCHANGED <<dataSocket, pc, got, closing, open>>
    BY <1>2, Zenon DEF Pasv, Port, dataVars, sessionVars
  <2>. QED
    BY <2>1, Zenon
<1>3. CASE StartsTransfer
  BY <1>3, Zenon DEF StartsTransfer
<1>4. CASE RefusesTransfer
  BY <1>4, Zenon DEF RefusesTransfer
<1>5. CASE SessionEnds
  BY <1>5, Zenon DEF SessionEnds
<1>6. CASE GetsConnection
  BY <1>6, Zenon DEF GetsConnection
<1>7. CASE GetsNoConnection
  BY <1>7, Zenon DEF GetsNoConnection
<1>17. CASE AssignsSocket
  BY <1>17, Zenon DEF AssignsSocket
<1>8. CASE ChecksSocket
  BY <1>8, Zenon DEF ChecksSocket
<1>9. CASE GetsStream
  BY <1>9, Zenon DEF GetsStream
<1>10. CASE SetsStream
  BY <1>10, Zenon DEF SetsStream
<1>11. CASE AllSent
  BY <1>11, Zenon DEF AllSent
<1>12. CASE ChecksStream
  BY <1>12, Zenon DEF ChecksStream, GoesOn
<1>13. CASE Writes
  BY <1>13, Zenon DEF Writes, GoesOn
<1>14. CASE ChecksSource
  BY <1>14, Zenon DEF ChecksSource
<1>15. CASE ChecksConnected
  BY <1>15, Zenon DEF ChecksConnected
<1>16. CASE Reads
  BY <1>16, Zenon DEF Reads, GoesOn
<1>. QED
  BY <1>2, <1>3, <1>4, <1>5, <1>6, <1>7, <1>8, <1>9, <1>10, <1>11, <1>12,
     <1>13, <1>14, <1>15, <1>16, <1>17 DEF SessionThread

LEMMA LosingCloseDataSocket ==
  ASSUME DataTypeOK, Losing, NEW t \in Closers, CloseDataSocket(t)
  PROVE  Losing'
<1>. USE DEF DataTypeOK, Losing, Parted, HeldData, At, CloseStep, Closers, fieldVars, sessionVars,
             historyVars
<1>1. CASE ChecksStreamToClose(t)
  BY <1>1, Zenon DEF ChecksStreamToClose
<1>2. CASE ClosesStream(t)
  BY <1>2, Zenon DEF ClosesStream
<1>3. CASE NullsStream(t)
  BY <1>3, Zenon DEF NullsStream
<1>4. CASE ChecksSocketToClose(t)
  BY <1>4, NoneIsNoConnection, Zenon DEF ChecksSocketToClose
<1>5. CASE ClosesSocket(t)
  BY <1>5, Zenon DEF ClosesSocket
<1>6. CASE NullsSocket(t) /\ t = "session"
  <2>1. /\ dataSocket' = None /\ dataSocket \notin open /\ pc' = "idle"
        /\ UNCHANGED <<termination, open>>
    BY <1>6, Zenon DEF NullsSocket
  <2>2. closing'["session"] = "out" /\ closing'["server"] = closing["server"]
    BY <1>6, Zenon DEF NullsSocket
  <2>6. pc = "closing"
    BY <1>6, Zenon DEF NullsSocket
  <2>3. Parted' \subseteq Parted
    BY <2>1, <2>6
  <2>4. /\ termination' # "over" => Parted' = {}
        /\ \E c \in Connections \cup {None} : Parted' \subseteq {c}
    BY <2>1, <2>3, PartsNoMore, Zenon
  <2>5. (pc \in {"idle", "transfer", "assign", "dead"} => dataSocket = None)'
    BY <2>1, Zenon
  <2>. QED
    BY <2>1, <2>2, <2>4, <2>5, Zenon DEF Losing
<1>7. CASE NullsSocket(t) /\ t = "server"
  <2>1. termination # "over" /\ Parted = {} /\ dataSocket' = None /\ open' = open
    BY <1>7, Zenon DEF NullsSocket
  <2>2. Parted' \subseteq {dataSocket}
    BY <1>7, <2>1, Zenon DEF NullsSocket
  <2>. QED
    BY <1>7, <2>2, Zenon DEF NullsSocket
<1>. QED
  BY <1>1, <1>2, <1>3, <1>4, <1>5, <1>6, <1>7, Zenon DEF CloseDataSocket

LEMMA LosingNext == DataInv /\ Losing /\ [Next]_vars => Losing'
<1>. SUFFICES ASSUME DataTypeOK, Control, Losing, [Next]_vars PROVE Losing'
  BY DEF DataInv
<1>1. CASE UNCHANGED vars
  BY <1>1, Zenon DEF vars, dataVars, fieldVars, sessionVars, historyVars, Losing, Parted, HeldData
<1>2. CASE TerminationBegins
  BY <1>2, Zenon DEF TerminationBegins, DataTypeOK, Losing, Parted, HeldData, CloseStep, Closers,
              fieldVars, sessionVars
<1>. QED
  BY <1>1, <1>2, LosingSessionThread, LosingCloseDataSocket DEF Next

\* A set that has no element but c has at most one.
LEMMA AtMostOne ==
  ASSUME NEW c, NEW S, S \subseteq {c}
  PROVE  Cardinality(S) <= 1
<1>1. CASE S = {}
  BY <1>1, FS_EmptySet
<1>2. CASE S = {c}
  <2>1. Cardinality({c}) = 1
    BY FS_Singleton, Zenon
  <2>2. Cardinality(S) = 1
    BY <1>2, <2>1
  <2>. QED
    BY <2>2
<1>. QED
  BY <1>1, <1>2

\* A part of what is parted is at most one connection, and none before the end.
LEMMA FewParted ==
  ASSUME Losing, NEW S, S \subseteq Parted
  PROVE  Cardinality(S) <= IF termination = "over" THEN 1 ELSE 0
<1>1. CASE termination = "over"
  <2>1. PICK c : S \subseteq {c}
    BY Zenon DEF Losing
  <2>. QED
    BY <1>1, <2>1, AtMostOne
<1>2. CASE termination # "over"
  <2>1. S = {}
    BY <1>2, Zenon DEF Losing
  <2>. QED
    BY <1>2, <2>1, FS_EmptySet
<1>. QED
  BY <1>1, <1>2

LEMMA AlwaysLosing == Spec => [](DataInv /\ Losing)
<1>1. Init => DataInv /\ Losing
  BY DataInvInit, LosingInit
<1>2. DataInv /\ Losing /\ [Next]_vars => (DataInv /\ Losing)'
  BY DataInvNext, LosingNext
<1>. QED
  BY <1>1, <1>2, PTL DEF Spec

\* Whatever the two threads do at the same time, a session loses at most one
\* data connection, and none before the server thread has ended its close.
THEOREM LosesFew == Spec => []LosesAtMostOne
<1>1. Losing => LosesAtMostOne
  <2>. SUFFICES ASSUME Losing PROVE LosesAtMostOne
    OBVIOUS
  <2>1. Lost \subseteq Parted
    BY DEF Lost, Parted, HeldData
  <2>. QED
    BY <2>1, FewParted DEF LosesAtMostOne
<1>. QED
  BY <1>1, AlwaysLosing, PTL

\* However a transfer ends, its command leaves no data connection open but the
\* one that may have been lost, also when terminateAllSessions came in between.
THEOREM TransfersAreClosed == Spec => []CommandClosesData
<1>1. DataInv /\ Losing => CommandClosesData
  <2>. SUFFICES ASSUME DataInv, Losing, pc \in {"idle", "transfer", "dead"}
                PROVE  Cardinality(open) <= IF termination = "over" THEN 1 ELSE 0
    BY DEF CommandClosesData
  <2>1. HeldData = None /\ open \subseteq Connections
    BY DEF Losing, HeldData, DataInv, DataTypeOK
  <2>2. open \subseteq Parted
    BY <2>1, NoneIsNoConnection DEF Parted
  <2>. QED
    BY <2>2, FewParted
<1>. QED
  BY <1>1, AlwaysLosing, PTL

-----------------------------------------------------------------------------
\* The line ends of transfers: FlattenSeq, byte by byte.

\* Every set of numbers that is not empty has a least one.
LEMMA LeastNat ==
  ASSUME NEW S \in SUBSET Nat, S # {}
  PROVE  \E k \in S : \A l \in S : k <= l
<1> DEFINE T == {0..k : k \in S}
<1>1. \A k \in S : 0..k \in FiniteSubsetsOf(Nat)
  <2> SUFFICES ASSUME NEW k \in S PROVE 0..k \in FiniteSubsetsOf(Nat)
    OBVIOUS
  <2>1. IsFiniteSet(0..k)
    BY FS_Interval
  <2> QED BY <2>1 DEF FiniteSubsetsOf
<1>2. PICK t \in T : \A u \in T : ~(<<u, t>> \in StrictSubsetOrdering(Nat))
  <2>1. T \subseteq FiniteSubsetsOf(Nat) /\ T # {}
    BY <1>1
  <2>2. IsWellFoundedOn(StrictSubsetOrdering(Nat), FiniteSubsetsOf(Nat))
    BY FS_StrictSubsetOrderingWellFounded
  <2> HIDE DEF T
  <2> QED BY <2>1, <2>2, WFMin
<1>3. PICK k \in S : t = 0..k
  OBVIOUS
<1>4. ASSUME NEW l \in S PROVE k <= l
  <2>1. 0..l \in T
    OBVIOUS
  <2>2. ~(<<0..l, 0..k>> \in StrictSubsetOrdering(Nat))
    BY <1>2, <1>3, <2>1
  <2>3. k \in Nat /\ l \in Nat
    OBVIOUS
  <2>4. 0..l \subseteq Nat /\ 0..k \subseteq Nat
    OBVIOUS
  <2>5. ~(0..l \subseteq 0..k /\ 0..l # 0..k)
    BY <2>2, <2>4 DEF StrictSubsetOrdering
  <2>6. CASE l < k
    <3>1. 0..l \subseteq 0..k /\ k \in 0..k /\ k \notin 0..l
      BY <2>3, <2>6
    <3> QED BY <2>5, <3>1
  <2> QED BY <2>3, <2>6
<1> QED BY <1>4

\* What holds of 0 and goes from each number to the next holds of all.
LEMMA Induction ==
  ASSUME NEW n \in Nat, NEW P, 0 \in P, \A i \in 1..n : i - 1 \in P => i \in P
  PROVE  \A i \in 0..n : i \in P
<1> DEFINE Bad == {i \in 0..n : i \notin P}
<1>1. CASE Bad # {}
  <2>1. PICK k \in Bad : \A l \in Bad : k <= l
    <3>1. Bad \in SUBSET Nat
      OBVIOUS
    <3> HIDE DEF Bad
    <3> QED BY <1>1, <3>1, LeastNat
  <2>2. k \in 0..n /\ k \notin P /\ k # 0
    OBVIOUS
  <2>3. k \in 1..n /\ k - 1 \in 0..n /\ ~(k <= k - 1)
    BY <2>2
  <2>4. k - 1 \in P
    BY <2>1, <2>3
  <2> QED BY <2>2, <2>3, <2>4
<1> QED BY <1>1

\* A function on 0..n that begins with a value and makes each of the next from the one
\* before it.
IsRun(g, n, S, base, step) ==
  g \in [0..n -> S] /\ g[0] = base /\ \A i \in 1..n : g[i] = step[i][g[i - 1]]

\* Such a function exists: the least argument that none reaches would have one before it.
LEMMA Recursion ==
  ASSUME NEW n \in Nat, NEW S, NEW base \in S, NEW step \in [1..n -> [S -> S]]
  PROVE  \E g : IsRun(g, n, S, base, step)
<1> DEFINE Runs(m) == {g \in [0..m -> S] : g[0] = base /\ \A i \in 1..m : g[i] = step[i][g[i - 1]]}
           P == {m \in 0..n : Runs(m) # {}}
<1>1. 0 \in P
  <2>1. [i \in 0..0 |-> base] \in Runs(0)
    OBVIOUS
  <2> QED BY <2>1
<1>2. ASSUME NEW m \in 1..n, m - 1 \in P PROVE m \in P
  <2>1. PICK g \in [0..(m - 1) -> S] : g[0] = base /\ \A k \in 1..(m - 1) : g[k] = step[k][g[k - 1]]
    BY <1>2
  <2> DEFINE h == [k \in 0..m |-> IF k = m THEN step[m][g[m - 1]] ELSE g[k]]
  <2>2. g[m - 1] \in S /\ step[m] \in [S -> S]
    BY <2>1
  <2>3. step[m][g[m - 1]] \in S
    BY <2>2
  <2>4. h \in [0..m -> S]
    BY <2>1, <2>3
  <2>5. h[0] = base
    BY <2>1
  <2>6. ASSUME NEW k \in 1..m PROVE h[k] = step[k][h[k - 1]]
    BY <2>1, <2>6
  <2> HIDE DEF h
  <2>7. h \in Runs(m)
    BY <2>4, <2>5, <2>6
  <2>8. m \in 0..n
    OBVIOUS
  <2> HIDE DEF Runs
  <2> QED BY <2>7, <2>8
<1> HIDE DEF P
<1>3. \A i \in 0..n : i \in P
  BY <1>1, <1>2, Induction
<1>4. n \in P
  BY <1>3
<1> QED BY <1>4 DEF P, IsRun


\* The parts of a list, one behind the other.
LEMMA FlattenExists ==
  ASSUME NEW S, NEW names \in Seq(Seq(S)), Len(names) # 0
  PROVE  \E g : g = [i \in 1..Len(names) |-> IF i = 1 THEN names[i] ELSE g[i - 1] \o names[i]]
<1> DEFINE n == Len(names)
           step == [i \in 1..n |-> [u \in Seq(S) |-> u \o names[i]]]
<1>1. n \in Nat /\ <<>> \in Seq(S)
  OBVIOUS
<1>2. ASSUME NEW i \in 1..n, NEW u \in Seq(S) PROVE u \o names[i] \in Seq(S)
  <2>1. names[i] \in Seq(S)
    OBVIOUS
  <2> QED BY <2>1
<1>3. /\ step \in [1..n -> [Seq(S) -> Seq(S)]]
      /\ \A i \in 1..n : \A u \in Seq(S) : step[i][u] = u \o names[i]
  BY <1>2
<1>4. \A i \in 1..n : names[i] \in Seq(S)
  OBVIOUS
<1> HIDE DEF step, n
<1>5. PICK f \in [0..n -> Seq(S)] : f[0] = <<>> /\ \A i \in 1..n : f[i] = step[i][f[i - 1]]
  <2>1. step \in [1..n -> [Seq(S) -> Seq(S)]]
    BY <1>3
  <2>2. \E g : IsRun(g, n, Seq(S), <<>>, step)
    BY <1>1, <2>1, Recursion
  <2> QED BY <2>2 DEF IsRun
<1> DEFINE g == [i \in 1..n |-> f[i]]
<1>6. ASSUME NEW i \in 1..n PROVE g[i] = IF i = 1 THEN names[i] ELSE g[i - 1] \o names[i]
  <2>1. i - 1 \in 0..n /\ f[i - 1] \in Seq(S) /\ f[i] = f[i - 1] \o names[i]
    <3>1. i - 1 \in 0..n
      BY <1>1
    <3>2. f[i - 1] \in Seq(S)
      BY <1>5, <3>1
    <3>3. f[i] = step[i][f[i - 1]]
      BY <1>5
    <3> QED BY <1>3, <3>1, <3>2, <3>3, Zenon
  <2>2. CASE i = 1
    <3>1. f[1] = <<>> \o names[1] /\ names[1] \in Seq(S)
      <4>1. i - 1 = 0
        BY <2>2
      <4> QED BY <1>4, <1>5, <2>1, <2>2, <4>1, Zenon
    <3>2. <<>> \o names[1] = names[1]
      BY <3>1
    <3> QED BY <2>2, <3>1, <3>2
  <2>3. CASE i # 1
    <3>1. i - 1 \in 1..n
      BY <1>1, <2>3
    <3> QED BY <2>1, <2>3, <3>1
  <2> QED BY <2>2, <2>3
<1>7. g = [i \in 1..n |-> IF i = 1 THEN names[i] ELSE g[i - 1] \o names[i]]
  <2>1. g = [i \in 1..n |-> g[i]]
    OBVIOUS
  <2> HIDE DEF g
  <2> QED BY <1>6, <2>1, Zenon
<1> HIDE DEF g
<1> QED BY <1>7, Zenon DEF n

IsFlat(g, names) ==
  /\ DOMAIN g = 1..Len(names) /\ g[1] = names[1]
  /\ \A i \in 1..Len(names) : i # 1 => g[i] = g[i - 1] \o names[i]
  /\ Ascii!FlattenSeq(names) = g[Len(names)]

\* They are what FlattenSeq returns.
LEMMA FlattenIs ==
  ASSUME NEW S, NEW names \in Seq(Seq(S)), Len(names) # 0
  PROVE  \E g : IsFlat(g, names)
<1> DEFINE g == CHOOSE f : f = [i \in 1..Len(names) |-> IF i = 1 THEN names[i] ELSE f[i - 1] \o names[i]]
<1>1. Ascii!FlattenSeq(names) = g[Len(names)]
  BY Zenon DEF Ascii!FlattenSeq
<1>2. g = [i \in 1..Len(names) |-> IF i = 1 THEN names[i] ELSE g[i - 1] \o names[i]]
  BY FlattenExists, Zenon
<1> HIDE DEF g
<1>3. /\ DOMAIN g = 1..Len(names) /\ \A i \in 1..Len(names) : i # 1 => g[i] = g[i - 1] \o names[i]
  BY <1>2
<1>4. g[1] = names[1]
  <2>1. 1 \in 1..Len(names)
    OBVIOUS
  <2> QED BY <1>2, <2>1
<1> QED BY <1>1, <1>3, <1>4 DEF IsFlat

\* One part more.
LEMMA FlattenOne ==
  ASSUME NEW S, NEW q \in Seq(Seq(S)), NEW u \in Seq(S)
  PROVE  /\ Ascii!FlattenSeq(q) \in Seq(S)
         /\ Ascii!FlattenSeq(Append(q, u)) = Ascii!FlattenSeq(q) \o u
<1> DEFINE n == Len(q)
           v == Append(q, u)
<1>1. n \in Nat /\ v \in Seq(Seq(S)) /\ Len(v) = n + 1 /\ v[n + 1] = u /\ \A i \in 1..n : v[i] = q[i] /\ q[i] \in Seq(S)
  OBVIOUS
<1> HIDE DEF v
<1>2. CASE n = 0
  <2>1. q = <<>> /\ Ascii!FlattenSeq(q) = <<>>
    <3>1. q = <<>>
      BY <1>2
    <3> QED BY <1>2, <3>1, Zenon DEF Ascii!FlattenSeq
  <2>2. PICK g : IsFlat(g, v)
    BY <1>1, FlattenIs
  <2>3. Ascii!FlattenSeq(v) = u
    BY <1>1, <1>2, <2>2 DEF IsFlat
  <2>4. <<>> \in Seq(S) /\ <<>> \o u = u
    OBVIOUS
  <2> QED BY <2>1, <2>3, <2>4, Zenon DEF v
<1>3. CASE n # 0
  <2>1. PICK f : IsFlat(f, q)
    BY <1>3, FlattenIs
  <2>2. PICK g : IsFlat(g, v)
    BY <1>1, FlattenIs
  <2> DEFINE P == {i \in 0..n : i # 0 => f[i] = g[i] /\ f[i] \in Seq(S)}
  <2>3. 0 \in P
    BY <1>1
  <2>4. ASSUME NEW i \in 1..n, i - 1 \in P PROVE i \in P
    <3>1. CASE i = 1
      <4>1. f[1] = q[1] /\ g[1] = v[1] /\ v[1] = q[1] /\ q[1] \in Seq(S)
        BY <1>1, <1>3, <2>1, <2>2 DEF IsFlat
      <4> QED BY <3>1, <4>1
    <3>2. CASE i # 1
      <4>1. f[i - 1] = g[i - 1] /\ f[i - 1] \in Seq(S)
        BY <2>4, <3>2
      <4>2. f[i] = f[i - 1] \o q[i]
        BY <2>1, <3>2 DEF IsFlat
      <4>3. g[i] = g[i - 1] \o v[i]
        <5>1. i \in 1..Len(v)
          BY <1>1
        <5> QED BY <2>2, <3>2, <5>1 DEF IsFlat
      <4>4. v[i] = q[i] /\ q[i] \in Seq(S)
        BY <1>1
      <4>5. f[i - 1] \o q[i] \in Seq(S)
        BY <4>1, <4>4, ConcatProperties
      <4>6. f[i] = g[i] /\ f[i] \in Seq(S)
        BY <4>1, <4>2, <4>3, <4>4, <4>5, Zenon
      <4> QED BY <4>6
    <3> QED BY <3>1, <3>2
  <2> HIDE DEF P
  <2>5. n \in P
    <3>1. \A i \in 0..n : i \in P
      BY <1>1, <2>3, <2>4, Induction
    <3> QED BY <1>1, <3>1
  <2>6. f[n] = g[n] /\ f[n] \in Seq(S)
    BY <1>3, <2>5 DEF P
  <2>7. g[n + 1] = g[n] \o u
    <3>1. n + 1 \in 1..Len(v) /\ n + 1 # 1 /\ (n + 1) - 1 = n
      BY <1>1, <1>3
    <3> QED BY <1>1, <2>2, <3>1 DEF IsFlat
  <2>8. Ascii!FlattenSeq(q) = f[n] /\ Ascii!FlattenSeq(v) = g[n + 1]
    BY <1>1, <2>1, <2>2 DEF IsFlat
  <2> QED BY <2>6, <2>7, <2>8, Zenon DEF v
<1> QED BY <1>2, <1>3

-----------------------------------------------------------------------------
ByteTexts == Seq(Ascii!Bytes)
EndsWithCR(t) == t # <<>> /\ t[Len(t)] = "CR"
\* What is sent for a byte, and kept of it.
Sent(b, cr) == IF b = "LF" /\ ~cr THEN <<"CR", "LF">> ELSE <<b>>
StoredOf(b) == IF b = "CR" THEN <<>> ELSE <<b>>
Bare(t) == {k \in DOMAIN t : t[k] = "LF" /\ (k = 1 \/ t[k - 1] # "CR")}

\* Append, in the form its use needs.
LEMMA AppendIs ==
  ASSUME NEW S, NEW f \in Seq(S), NEW e \in S
  PROVE  /\ Append(f, e) \in Seq(S) /\ Len(Append(f, e)) = Len(f) + 1
         /\ \A k \in 1..Len(f) : Append(f, e)[k] = f[k]
         /\ Append(f, e)[Len(f) + 1] = e
OBVIOUS

\* A function on the positions of a sequence that is one element longer.
IsLonger(g, f, t, b, S) ==
  /\ f = [k \in DOMAIN t |-> f[k]] /\ g = [k \in DOMAIN Append(t, b) |-> g[k]]
  /\ \A k \in DOMAIN t : f[k] = g[k] /\ f[k] \in S
  /\ g[Len(t) + 1] \in S

\* It is the shorter one with a value appended.
LEMMA OnePositionMore ==
  ASSUME NEW T, NEW t \in Seq(T), NEW b \in T, NEW f, NEW g, NEW S, IsLonger(g, f, t, b, S)
  PROVE  f \in Seq(S) /\ g = Append(f, g[Len(t) + 1])
<1> USE DEF IsLonger
<1>1. Len(t) \in Nat /\ DOMAIN t = 1..Len(t) /\ DOMAIN Append(t, b) = 1..(Len(t) + 1)
  OBVIOUS
<1>2. f \in [1..Len(t) -> S]
  BY <1>1
<1>3. f \in Seq(S) /\ Len(f) = Len(t)
  BY <1>1, <1>2
<1>4. g \in [1..(Len(t) + 1) -> S]
  <2>1. \A k \in 1..(Len(t) + 1) : k \in DOMAIN t \/ k = Len(t) + 1
    BY <1>1
  <2>2. \A k \in 1..(Len(t) + 1) : g[k] \in S
    BY <2>1
  <2> QED BY <1>1, <2>2
<1>5. g \in Seq(S) /\ Len(g) = Len(t) + 1
  BY <1>1, <1>4
<1>6. /\ Append(f, g[Len(t) + 1]) \in Seq(S) /\ Len(Append(f, g[Len(t) + 1])) = Len(t) + 1
      /\ \A k \in 1..Len(t) : Append(f, g[Len(t) + 1])[k] = g[k]
      /\ Append(f, g[Len(t) + 1])[Len(t) + 1] = g[Len(t) + 1]
  <2>1. g[Len(t) + 1] \in S
    OBVIOUS
  <2>2. \A e : e \in S => /\ Append(f, e) \in Seq(S) /\ Len(Append(f, e)) = Len(f) + 1
                          /\ \A k \in 1..Len(f) : Append(f, e)[k] = f[k]
                          /\ Append(f, e)[Len(f) + 1] = e
    BY <1>3, AppendIs, Zenon
  <2>3. \A k \in 1..Len(t) : f[k] = g[k]
    BY <1>1
  <2> QED BY <1>3, <2>1, <2>2, <2>3, Zenon
<1>7. \A k \in 1..Len(g) : k \in 1..Len(t) \/ k = Len(t) + 1
  BY <1>1, <1>5
<1>8. \A k \in 1..Len(g) : g[k] = Append(f, g[Len(t) + 1])[k]
  BY <1>6, <1>7, Zenon
<1>9. PICK w \in Seq(S) : w = Append(f, g[Len(t) + 1])
  BY <1>6
<1>10. Len(g) = Len(w) /\ \A k \in 1..Len(g) : g[k] = w[k]
  BY <1>5, <1>6, <1>8, <1>9
<1>11. g = w
  BY <1>5, <1>9, <1>10, SeqEqual
<1> QED BY <1>3, <1>9, <1>11

\* CmdRETR.java:99-136 - one byte more in a buffer is converted by what is before it.
LEMMA ConvertsOne ==
  ASSUME NEW t \in ByteTexts, NEW b \in Ascii!Bytes, NEW cr \in BOOLEAN
  PROVE  /\ Ascii!Converts(t, cr) \in ByteTexts
         /\ Ascii!Converts(Append(t, b), cr) = Ascii!Converts(t, cr) \o Sent(b, IF t = <<>> THEN cr ELSE EndsWithCR(t))
<1> DEFINE f == [k \in DOMAIN t |->
                  IF t[k] = "LF" /\ ~(IF k = 1 THEN cr ELSE t[k - 1] = "CR") THEN <<"CR", "LF">> ELSE <<t[k]>>]
           u == Append(t, b)
           g == [k \in DOMAIN u |->
                  IF u[k] = "LF" /\ ~(IF k = 1 THEN cr ELSE u[k - 1] = "CR") THEN <<"CR", "LF">> ELSE <<u[k]>>]
           n == Len(t)
           last == Sent(b, IF t = <<>> THEN cr ELSE EndsWithCR(t))
<1>1. /\ n \in Nat /\ DOMAIN t = 1..n /\ DOMAIN u = 1..(n + 1) /\ u[n + 1] = b
      /\ \A k \in 1..n : u[k] = t[k] /\ t[k] \in Ascii!Bytes
      /\ (t = <<>> <=> n = 0)
  BY DEF ByteTexts
<1>2. \A c \in Ascii!Bytes : <<c>> \in ByteTexts /\ <<"CR", "LF">> \in ByteTexts
  BY DEF ByteTexts, Ascii!Bytes
<1> HIDE DEF u
<1>3. ASSUME NEW k \in DOMAIN t PROVE f[k] = g[k] /\ f[k] \in ByteTexts
  <2>1. k \in DOMAIN u /\ u[k] = t[k] /\ t[k] \in Ascii!Bytes /\ (k # 1 => k - 1 \in 1..n)
    BY <1>1
  <2>2. k # 1 => u[k - 1] = t[k - 1]
    BY <1>1, <2>1
  <2>3. f[k] = g[k]
    BY <2>1, <2>2
  <2>4. f[k] \in {<<"CR", "LF">>, <<t[k]>>}
    OBVIOUS
  <2> QED BY <1>2, <2>1, <2>3, <2>4
<1>4. g[n + 1] = last
  <2>1. g[n + 1] = IF b = "LF" /\ ~(IF n + 1 = 1 THEN cr ELSE u[(n + 1) - 1] = "CR") THEN <<"CR", "LF">> ELSE <<b>>
    BY <1>1
  <2>2. CASE n = 0
    BY <1>1, <2>1, <2>2 DEF Sent
  <2>3. CASE n # 0
    <3>1. (n + 1) - 1 = n /\ n + 1 # 1 /\ n \in 1..n
      BY <1>1, <2>3
    <3>2. u[(n + 1) - 1] = t[n]
      BY <1>1, <3>1
    <3> QED BY <1>1, <2>1, <2>3, <3>1, <3>2 DEF Sent, EndsWithCR
  <2> QED BY <2>2, <2>3
<1>5. last \in ByteTexts
  BY <1>2 DEF Sent
<1>6. /\ f = [k \in DOMAIN t |-> f[k]] /\ g = [k \in DOMAIN Append(t, b) |-> g[k]]
  BY DEF u
<1>7. Ascii!Converts(t, cr) = Ascii!FlattenSeq(f) /\ Ascii!Converts(Append(t, b), cr) = Ascii!FlattenSeq(g)
  BY Zenon DEF Ascii!Converts, u
<1> HIDE DEF f, g, last
<1>8. f \in Seq(ByteTexts) /\ g = Append(f, last)
  <2>1. g[Len(t) + 1] = last /\ \A k \in DOMAIN t : f[k] = g[k] /\ f[k] \in ByteTexts
    BY <1>3, <1>4
  <2>2. g[Len(t) + 1] \in ByteTexts
    BY <1>5, <2>1
  <2>3. f = [k \in DOMAIN t |-> f[k]]
    BY <1>6
  <2>4. g = [k \in DOMAIN Append(t, b) |-> g[k]]
    BY <1>6
  <2>5. f \in Seq(ByteTexts) /\ g = Append(f, g[Len(t) + 1])
    <3>1. IsLonger(g, f, t, b, ByteTexts)
      BY <2>1, <2>2, <2>3, <2>4, Zenon DEF IsLonger
    <3>2. \A p, q : IsLonger(q, p, t, b, ByteTexts) => p \in Seq(ByteTexts) /\ q = Append(p, q[Len(t) + 1])
      <4>1. PICK R : t \in Seq(R) /\ b \in R
        BY DEF ByteTexts
      <4> QED BY ONLY <4>1, OnePositionMore
    <3> HIDE DEF f, g
    <3> QED BY <3>1, <3>2, Zenon
  <2> QED BY <2>1, <2>5, Zenon
<1>9. Ascii!FlattenSeq(f) \in ByteTexts /\ Ascii!FlattenSeq(Append(f, last)) = Ascii!FlattenSeq(f) \o last
  BY <1>5, <1>8, FlattenOne DEF ByteTexts
<1> QED BY <1>7, <1>8, <1>9 DEF last

\* CmdAbstractStore.java:130-144 - and dropped when it is a CR.
LEMMA DropsOne ==
  ASSUME NEW t \in ByteTexts, NEW b \in Ascii!Bytes
  PROVE  Ascii!DropsCR(t) \in ByteTexts /\ Ascii!DropsCR(Append(t, b)) = Ascii!DropsCR(t) \o StoredOf(b)
<1> DEFINE f == [k \in DOMAIN t |-> IF t[k] = "CR" THEN <<>> ELSE <<t[k]>>]
           u == Append(t, b)
           g == [k \in DOMAIN u |-> IF u[k] = "CR" THEN <<>> ELSE <<u[k]>>]
           n == Len(t)
<1>1. /\ n \in Nat /\ DOMAIN t = 1..n /\ DOMAIN u = 1..(n + 1) /\ u[n + 1] = b
      /\ \A k \in 1..n : u[k] = t[k] /\ t[k] \in Ascii!Bytes
  BY DEF ByteTexts
<1>2. \A c \in Ascii!Bytes : <<c>> \in ByteTexts /\ <<>> \in ByteTexts
  BY DEF ByteTexts, Ascii!Bytes
<1> HIDE DEF u
<1>3. ASSUME NEW k \in DOMAIN t PROVE f[k] = g[k] /\ f[k] \in ByteTexts
  <2>1. k \in DOMAIN u /\ u[k] = t[k] /\ t[k] \in Ascii!Bytes
    BY <1>1
  <2>2. f[k] \in {<<>>, <<t[k]>>}
    OBVIOUS
  <2> QED BY <1>2, <2>1, <2>2
<1>4. g[n + 1] = StoredOf(b)
  BY <1>1 DEF StoredOf
<1>5. StoredOf(b) \in ByteTexts
  BY <1>2 DEF StoredOf
<1>6. /\ f = [k \in DOMAIN t |-> f[k]] /\ g = [k \in DOMAIN Append(t, b) |-> g[k]]
  BY DEF u
<1>7. Ascii!DropsCR(t) = Ascii!FlattenSeq(f) /\ Ascii!DropsCR(Append(t, b)) = Ascii!FlattenSeq(g)
  BY Zenon DEF Ascii!DropsCR, u
<1> HIDE DEF f, g
<1>8. f \in Seq(ByteTexts) /\ g = Append(f, StoredOf(b))
  <2>1. g[Len(t) + 1] = StoredOf(b) /\ \A k \in DOMAIN t : f[k] = g[k] /\ f[k] \in ByteTexts
    BY <1>3, <1>4
  <2>2. g[Len(t) + 1] \in ByteTexts
    BY <1>5, <2>1
  <2>3. f = [k \in DOMAIN t |-> f[k]]
    BY <1>6
  <2>4. g = [k \in DOMAIN Append(t, b) |-> g[k]]
    BY <1>6
  <2>5. f \in Seq(ByteTexts) /\ g = Append(f, g[Len(t) + 1])
    <3>1. IsLonger(g, f, t, b, ByteTexts)
      BY <2>1, <2>2, <2>3, <2>4, Zenon DEF IsLonger
    <3>2. \A p, q : IsLonger(q, p, t, b, ByteTexts) => p \in Seq(ByteTexts) /\ q = Append(p, q[Len(t) + 1])
      <4>1. PICK R : t \in Seq(R) /\ b \in R
        BY DEF ByteTexts
      <4> QED BY ONLY <4>1, OnePositionMore
    <3> HIDE DEF f, g
    <3> QED BY <3>1, <3>2, Zenon
  <2> QED BY <2>1, <2>5, Zenon
<1> QED BY <1>5, <1>7, <1>8, FlattenOne DEF ByteTexts

-----------------------------------------------------------------------------
Buffers == Seq(ByteTexts \ {<<>>})
\* Whether what has been read ends with a CR.
CRBefore(q) == q # <<>> /\ EndsWithCR(q[Len(q)])
Pieces(q) == [k \in DOMAIN q |-> Ascii!Converts(q[k], k > 1 /\ Ascii!Last(q[k - 1]) = "CR")]

\* A buffer more.
LEMMA PiecesOne ==
  ASSUME NEW q \in Buffers, NEW u \in ByteTexts \ {<<>>}
  PROVE  Pieces(q) \in Seq(ByteTexts) /\ Pieces(Append(q, u)) = Append(Pieces(q), Ascii!Converts(u, CRBefore(q)))
<1> DEFINE v == Append(q, u)
           n == Len(q)
           f == Pieces(q)
           g == Pieces(v)
           T == ByteTexts \ {<<>>}
<1>1. /\ n \in Nat /\ DOMAIN q = 1..n /\ DOMAIN v = 1..(n + 1) /\ v[n + 1] = u
      /\ \A k \in 1..n : v[k] = q[k] /\ q[k] \in T
      /\ (q = <<>> <=> n = 0)
  BY DEF Buffers
<1> HIDE DEF v, T
<1>2. ASSUME NEW k \in 1..(n + 1), k > 1
      PROVE  k - 1 \in 1..n /\ v[k - 1] = q[k - 1]
  BY <1>1, <1>2
<1>3. ASSUME NEW k \in DOMAIN q PROVE f[k] = g[k] /\ f[k] \in ByteTexts
  <2>1. k \in 1..(n + 1) /\ v[k] = q[k] /\ q[k] \in ByteTexts
    BY <1>1 DEF T
  <2>2. k > 1 /\ Ascii!Last(q[k - 1]) = "CR" <=> k > 1 /\ Ascii!Last(v[k - 1]) = "CR"
    BY <1>2, <2>1
  <2>3. PICK c \in BOOLEAN : c = (k > 1 /\ Ascii!Last(q[k - 1]) = "CR")
    OBVIOUS
  <2>4. c = (k > 1 /\ Ascii!Last(v[k - 1]) = "CR")
    BY <2>2, <2>3
  <2>5. f[k] = Ascii!Converts(q[k], c)
    BY <2>3, Zenon DEF Pieces
  <2>6. g[k] = Ascii!Converts(v[k], c)
    BY <1>1, <2>1, <2>4, Zenon DEF Pieces
  <2>7. Ascii!Converts(q[k], c) \in ByteTexts
    BY <2>1, ConvertsOne, Zenon DEF Ascii!Bytes
  <2> QED BY <2>1, <2>5, <2>6, <2>7, Zenon
<1>4. g[n + 1] = Ascii!Converts(u, CRBefore(q))
  <2>1. PICK c \in BOOLEAN : c = (n + 1 > 1 /\ Ascii!Last(v[(n + 1) - 1]) = "CR")
    OBVIOUS
  <2>2. c = CRBefore(q)
    <3>1. n + 1 > 1 <=> q # <<>>
      BY <1>1
    <3>2. ASSUME n + 1 > 1
          PROVE  Ascii!Last(v[(n + 1) - 1]) = "CR" <=> EndsWithCR(q[n])
      <4>1. (n + 1) - 1 = n /\ n \in 1..n /\ v[n] = q[n] /\ q[n] \in T
        BY <1>1, <3>2
      <4> QED BY <4>1 DEF Ascii!Last, EndsWithCR, T
    <3> QED BY <2>1, <3>1, <3>2 DEF CRBefore
  <2>3. g[n + 1] = Ascii!Converts(v[n + 1], c)
    <3>1. n + 1 \in DOMAIN v
      BY <1>1
    <3> QED BY <2>1, <3>1, Zenon DEF Pieces
  <2> QED BY <1>1, <2>2, <2>3, Zenon
<1>5. Ascii!Converts(u, CRBefore(q)) \in ByteTexts
  <2>1. CRBefore(q) \in BOOLEAN
    BY DEF CRBefore, EndsWithCR
  <2> QED BY <2>1, ConvertsOne, Zenon DEF Ascii!Bytes
<1>6. IsLonger(g, f, q, u, ByteTexts)
  <2>1. f = [k \in DOMAIN q |-> f[k]]
    BY DEF Pieces
  <2>2. g = [k \in DOMAIN Append(q, u) |-> g[k]]
    BY DEF Pieces, v
  <2> HIDE DEF f, g
  <2>3. g[Len(q) + 1] \in ByteTexts
    BY <1>4, <1>5
  <2> QED BY <1>3, <2>1, <2>2, <2>3, Zenon DEF IsLonger
<1>7. \A p, r : IsLonger(r, p, q, u, ByteTexts) => p \in Seq(ByteTexts) /\ r = Append(p, r[Len(q) + 1])
  <2>1. PICK R : q \in Seq(R) /\ u \in R
    BY DEF Buffers
  <2> QED BY ONLY <2>1, OnePositionMore
<1> HIDE DEF f, g
<1>8. f \in Seq(ByteTexts) /\ g = Append(f, g[Len(q) + 1])
  BY <1>6, <1>7, Zenon
<1> QED BY <1>4, <1>8, Zenon DEF f, g, v

\* What has been read, and sent, of the buffers.
TextOf(q) == Ascii!FlattenSeq(q)
SentOf(q) == Ascii!FlattenSeq(Pieces(q))

\* They grow with a buffer.
LEMMA OneBuffer ==
  ASSUME NEW q \in Buffers, NEW u \in ByteTexts \ {<<>>}
  PROVE  /\ TextOf(q) \in ByteTexts /\ TextOf(Append(q, u)) = TextOf(q) \o u
         /\ SentOf(q) \in ByteTexts /\ SentOf(Append(q, u)) = SentOf(q) \o Ascii!Converts(u, CRBefore(q))
         /\ Ascii!Converts(u, CRBefore(q)) \in ByteTexts
<1>1. q \in Seq(ByteTexts) /\ u \in ByteTexts
  BY DEF Buffers
<1>2. TextOf(q) \in ByteTexts /\ TextOf(Append(q, u)) = TextOf(q) \o u
  BY <1>1, FlattenOne DEF ByteTexts, TextOf
<1>3. Ascii!Converts(u, CRBefore(q)) \in ByteTexts
  <2>1. CRBefore(q) \in BOOLEAN
    BY DEF CRBefore, EndsWithCR
  <2> QED BY <1>1, <2>1, ConvertsOne, Zenon DEF Ascii!Bytes
<1>4. Pieces(q) \in Seq(ByteTexts) /\ Pieces(Append(q, u)) = Append(Pieces(q), Ascii!Converts(u, CRBefore(q)))
  BY PiecesOne
<1>5. SentOf(q) \in ByteTexts /\ SentOf(Append(q, u)) = SentOf(q) \o Ascii!Converts(u, CRBefore(q))
  BY <1>3, <1>4, FlattenOne, Zenon DEF ByteTexts, SentOf
<1> QED BY <1>2, <1>3, <1>5

\* One byte more, in a buffer of its own or at the end of the last one.
IsRead(v, q, b) ==
  /\ v \in Buffers
  /\ TextOf(v) = TextOf(q) \o <<b>> /\ SentOf(v) = SentOf(q) \o Sent(b, CRBefore(q))
  /\ CRBefore(v) <=> b = "CR"

\* CmdRETR.java:101 - the byte begins a buffer,
LEMMA ReadAlone ==
  ASSUME NEW q \in Buffers, NEW b \in Ascii!Bytes
  PROVE  IsRead(Append(q, <<b>>), q, b)
<1>1. <<b>> \in ByteTexts \ {<<>>} /\ <<>> \in ByteTexts /\ Append(<<>>, b) = <<b>> /\ CRBefore(q) \in BOOLEAN
  BY DEF ByteTexts, CRBefore, EndsWithCR
<1>2. Ascii!Converts(<<>>, CRBefore(q)) = <<>>
  <2> DEFINE f == [k \in DOMAIN <<>> |-> IF <<>>[k] = "LF" /\ ~(IF k = 1 THEN CRBefore(q) ELSE <<>>[k - 1] = "CR")
                                          THEN <<"CR", "LF">> ELSE <<(<<>>)[k]>>]
  <2>1. f = <<>> /\ Len(<<>>) = 0
    OBVIOUS
  <2>2. Ascii!Converts(<<>>, CRBefore(q)) = Ascii!FlattenSeq(f)
    BY Zenon DEF Ascii!Converts
  <2> HIDE DEF f
  <2> QED BY <2>1, <2>2, Zenon DEF Ascii!FlattenSeq
<1>3. Ascii!Converts(<<b>>, CRBefore(q)) = Sent(b, CRBefore(q))
  <2>1. Ascii!Converts(Append(<<>>, b), CRBefore(q))
        = Ascii!Converts(<<>>, CRBefore(q)) \o Sent(b, IF <<>> = <<>> THEN CRBefore(q) ELSE EndsWithCR(<<>>))
    BY <1>1, ConvertsOne, Zenon
  <2>2. Sent(b, CRBefore(q)) \in Seq({"CR", "LF", b})
    <3>1. <<"CR", "LF">> \in Seq({"CR", "LF", b}) /\ <<b>> \in Seq({"CR", "LF", b})
      OBVIOUS
    <3> QED BY <3>1, Zenon DEF Sent
  <2>3. <<>> \o Sent(b, CRBefore(q)) = Sent(b, CRBefore(q))
    BY <2>2, ConcatEmptySeq
  <2>4. Sent(b, IF <<>> = <<>> THEN CRBefore(q) ELSE EndsWithCR(<<>>)) = Sent(b, CRBefore(q))
    BY Zenon
  <2> QED BY <1>1, <1>2, <2>1, <2>3, <2>4, Zenon
<1>4. Append(q, <<b>>) \in Buffers /\ Len(Append(q, <<b>>)) = Len(q) + 1 /\ Append(q, <<b>>)[Len(q) + 1] = <<b>>
      /\ Append(q, <<b>>) # <<>>
  BY <1>1 DEF Buffers
<1>5. CRBefore(Append(q, <<b>>)) <=> b = "CR"
  BY <1>4 DEF CRBefore, EndsWithCR
<1>6. /\ TextOf(Append(q, <<b>>)) = TextOf(q) \o <<b>>
      /\ SentOf(Append(q, <<b>>)) = SentOf(q) \o Sent(b, CRBefore(q))
  BY <1>1, <1>3, OneBuffer, Zenon
<1> QED BY <1>4, <1>5, <1>6, Zenon DEF IsRead

\* or the read gives it too.
LEMMA ReadOn ==
  ASSUME NEW p \in Buffers, NEW u \in ByteTexts \ {<<>>}, NEW b \in Ascii!Bytes
  PROVE  IsRead(Append(p, Append(u, b)), Append(p, u), b)
<1> DEFINE w == Append(u, b)
           q == Append(p, u)
           c == CRBefore(p)
<1>1. /\ w \in ByteTexts \ {<<>>} /\ w = u \o <<b>> /\ w[Len(w)] = b /\ u \in ByteTexts /\ u # <<>> /\ c \in BOOLEAN
      /\ <<b>> \in ByteTexts
  BY DEF ByteTexts, CRBefore, EndsWithCR
<1>0. \A e \in ByteTexts \ {<<>>} :
        Append(p, e) \in Buffers /\ Append(p, e) # <<>> /\ Append(p, e)[Len(Append(p, e))] = e
  <2>1. PICK R : R = ByteTexts \ {<<>>}
    OBVIOUS
  <2>2. p \in Seq(R) /\ Buffers = Seq(R)
    BY <2>1 DEF Buffers
  <2>3. \A e \in R : Append(p, e) \in Seq(R) /\ Append(p, e) # <<>> /\ Append(p, e)[Len(Append(p, e))] = e
    <3> SUFFICES ASSUME NEW e \in R
                 PROVE  Append(p, e) \in Seq(R) /\ Append(p, e) # <<>> /\ Append(p, e)[Len(Append(p, e))] = e
      OBVIOUS
    <3>1. /\ Append(p, e) \in Seq(R) /\ Len(Append(p, e)) = Len(p) + 1 /\ Append(p, e)[Len(p) + 1] = e
      BY ONLY <2>2, e \in R, AppendIs
    <3>2. Len(p) \in Nat
      BY <2>2
    <3>3. \A k \in Nat : k + 1 # 0
      OBVIOUS
    <3>4. Len(<<>>) = 0
      OBVIOUS
    <3> QED BY <3>1, <3>2, <3>3, <3>4, Zenon
  <2> QED BY <2>1, <2>2, <2>3, Zenon
<1>2. q \in Buffers /\ q # <<>> /\ q[Len(q)] = u
  BY <1>0, Zenon
<1>3. Append(p, w) \in Buffers /\ Append(p, w) # <<>> /\ Append(p, w)[Len(Append(p, w))] = w
  BY <1>0, <1>1, Zenon
<1>4. (CRBefore(Append(p, w)) <=> b = "CR") /\ CRBefore(q) = EndsWithCR(u)
  BY <1>1, <1>2, <1>3 DEF CRBefore, EndsWithCR
<1> HIDE DEF w, q, c
<1>5. /\ TextOf(p) \in ByteTexts /\ TextOf(q) = TextOf(p) \o u /\ TextOf(Append(p, w)) = TextOf(p) \o w
      /\ SentOf(p) \in ByteTexts /\ SentOf(q) = SentOf(p) \o Ascii!Converts(u, c)
      /\ SentOf(Append(p, w)) = SentOf(p) \o Ascii!Converts(w, c) /\ Ascii!Converts(u, c) \in ByteTexts
  BY <1>1, OneBuffer, Zenon DEF q, c
<1>6. Ascii!Converts(w, c) = Ascii!Converts(u, c) \o Sent(b, EndsWithCR(u))
  BY <1>1, ConvertsOne, Zenon DEF w
<1>7. Sent(b, EndsWithCR(u)) \in ByteTexts
  <2>1. <<"CR", "LF">> \in ByteTexts /\ <<b>> \in ByteTexts
    BY DEF ByteTexts, Ascii!Bytes
  <2> QED BY <2>1, Zenon DEF Sent
<1>8. \A x, y, z \in ByteTexts : (x \o y) \o z = x \o (y \o z)
  BY ConcatAssociative DEF ByteTexts
<1>9. TextOf(Append(p, w)) = TextOf(q) \o <<b>>
  <2>1. (TextOf(p) \o u) \o <<b>> = TextOf(p) \o (u \o <<b>>)
    <3>1. PICK z \in ByteTexts : z = <<b>>
      BY <1>1
    <3>2. (TextOf(p) \o u) \o z = TextOf(p) \o (u \o z)
      <4>1. TextOf(p) \in ByteTexts /\ u \in ByteTexts
        BY <1>1, <1>5, Zenon
      <4> QED BY <1>8, <4>1, Zenon
    <3> QED BY <3>1, <3>2
  <2> QED BY <1>1, <1>5, <2>1, Zenon
<1>10. SentOf(Append(p, w)) = SentOf(q) \o Sent(b, CRBefore(q))
  <2>1. CRBefore(q) = EndsWithCR(u)
    BY <1>4
  <2>2. (SentOf(p) \o Ascii!Converts(u, c)) \o Sent(b, EndsWithCR(u)) = SentOf(p) \o (Ascii!Converts(u, c) \o Sent(b, EndsWithCR(u)))
    BY <1>5, <1>7, <1>8, Zenon
  <2> QED BY <1>5, <1>6, <2>1, <2>2, Zenon
<1> QED BY <1>3, <1>4, <1>9, <1>10, Zenon DEF IsRead, w, q

-----------------------------------------------------------------------------
\* What AsciiIsFaithful says of a text and what is sent of it, and that both end in a CR
\* or neither does.
SentWell(t, r) ==
  /\ t \in ByteTexts /\ r \in ByteTexts /\ (EndsWithCR(t) <=> EndsWithCR(r))
  /\ \A k \in DOMAIN r : r[k] = "LF" => k > 1 /\ r[k - 1] = "CR"
  /\ Len(r) = Len(t) + Cardinality(Bare(t))
  /\ Ascii!DropsCR(r) = Ascii!DropsCR(t)

\* A byte more is bare when it is an LF after something else than a CR.
LEMMA BareOne ==
  ASSUME NEW t \in ByteTexts, NEW b \in Ascii!Bytes
  PROVE  /\ Cardinality(Bare(t)) \in Nat
         /\ Cardinality(Bare(Append(t, b))) = Cardinality(Bare(t)) + (IF b = "LF" /\ ~EndsWithCR(t) THEN 1 ELSE 0)
<1> DEFINE n == Len(t)
           u == Append(t, b)
<1>1. /\ n \in Nat /\ DOMAIN t = 1..n /\ DOMAIN u = 1..(n + 1) /\ u[n + 1] = b /\ \A k \in 1..n : u[k] = t[k]
      /\ (t = <<>> <=> n = 0)
  BY DEF ByteTexts
<1> HIDE DEF n, u
<1>2. IsFiniteSet(Bare(t))
  <2>1. IsFiniteSet(1..n)
    BY <1>1, FS_Interval
  <2>2. Bare(t) \subseteq 1..n
    BY <1>1 DEF Bare
  <2> QED BY <2>1, <2>2, FS_Subset
<1>3. Cardinality(Bare(t)) \in Nat
  BY <1>2, FS_CardinalityType
<1>4. n + 1 \notin Bare(t)
  BY <1>1 DEF Bare
<1>5. ASSUME NEW k \in 1..n PROVE k \in Bare(u) <=> k \in Bare(t)
  <2>1. k \in DOMAIN u /\ k \in DOMAIN t /\ u[k] = t[k] /\ (k # 1 => u[k - 1] = t[k - 1])
    BY <1>1
  <2> QED BY <2>1 DEF Bare
<1>6. n + 1 \in Bare(u) <=> b = "LF" /\ ~EndsWithCR(t)
  <2>1. n + 1 \in DOMAIN u /\ u[n + 1] = b /\ (n + 1 = 1 <=> t = <<>>)
    BY <1>1
  <2>2. ASSUME t # <<>> PROVE u[(n + 1) - 1] = t[Len(t)]
    BY <1>1, <2>2 DEF n
  <2> QED BY <2>1, <2>2 DEF Bare, EndsWithCR
<1>7. Bare(u) \subseteq 1..n \cup {n + 1} /\ Bare(t) \subseteq 1..n
  BY <1>1 DEF Bare
<1>8. CASE b = "LF" /\ ~EndsWithCR(t)
  <2>1. Bare(u) = Bare(t) \cup {n + 1}
    BY <1>5, <1>6, <1>7, <1>8
  <2>2. Cardinality(Bare(u)) = Cardinality(Bare(t)) + 1
    BY <1>2, <1>4, <2>1, FS_AddElement
  <2> QED BY <1>3, <1>8, <2>2 DEF u
<1>9. CASE ~(b = "LF" /\ ~EndsWithCR(t))
  <2>1. Bare(u) = Bare(t)
    BY <1>5, <1>6, <1>7, <1>9
  <2> QED BY <1>3, <1>9, <2>1 DEF u
<1> QED BY <1>8, <1>9

\* What is sent of a text stays sound with each byte that is read.
LEMMA SoundGrows ==
  ASSUME NEW t \in ByteTexts, NEW r \in ByteTexts, SentWell(t, r), NEW b \in Ascii!Bytes
  PROVE  SentWell(t \o <<b>>, r \o Sent(b, EndsWithCR(t)))
<1> DEFINE u == Append(t, b)
<1>1. /\ u \in ByteTexts /\ u = t \o <<b>> /\ Len(u) = Len(t) + 1 /\ (EndsWithCR(u) <=> b = "CR")
      /\ Len(t) \in Nat /\ Len(r) \in Nat
  BY DEF ByteTexts, EndsWithCR
<1>2. Ascii!DropsCR(u) = Ascii!DropsCR(t) \o StoredOf(b) /\ Ascii!DropsCR(t) \in ByteTexts
  BY DropsOne
<1>3. /\ Cardinality(Bare(u)) = Cardinality(Bare(t)) + (IF b = "LF" /\ ~EndsWithCR(t) THEN 1 ELSE 0)
      /\ Cardinality(Bare(t)) \in Nat
  BY BareOne
<1> HIDE DEF u
<1>4. CASE b = "LF" /\ ~EndsWithCR(t)
  <2> DEFINE c == Append(r, "CR")
             s == Append(c, "LF")
  <2>1. Sent(b, EndsWithCR(t)) = <<"CR", "LF">>
    BY <1>4 DEF Sent
  <2>2. /\ c \in ByteTexts /\ Len(c) = Len(r) + 1 /\ c[Len(r) + 1] = "CR" /\ \A k \in 1..Len(r) : c[k] = r[k]
    BY DEF ByteTexts, Ascii!Bytes
  <2>3. Ascii!DropsCR(c) = Ascii!DropsCR(r) \o StoredOf("CR") /\ Ascii!DropsCR(r) \in ByteTexts
    BY DropsOne DEF Ascii!Bytes
  <2> HIDE DEF c
  <2>4. /\ s \in ByteTexts /\ Len(s) = Len(r) + 2 /\ s[Len(r) + 2] = "LF" /\ s[Len(r) + 1] = "CR"
        /\ DOMAIN s = 1..(Len(r) + 2) /\ \A k \in 1..Len(r) : s[k] = r[k]
    BY <1>1, <2>2 DEF ByteTexts, Ascii!Bytes
  <2>5. Ascii!DropsCR(s) = Ascii!DropsCR(c) \o StoredOf("LF")
    BY <2>2, DropsOne DEF Ascii!Bytes
  <2>6. s = r \o <<"CR", "LF">>
    BY DEF ByteTexts, Ascii!Bytes, c
  <2> HIDE DEF s
  <2>7. ~EndsWithCR(s) /\ ~EndsWithCR(u)
    BY <1>1, <1>4, <2>4 DEF EndsWithCR
  <2>8. ASSUME NEW k \in DOMAIN s, s[k] = "LF" PROVE k > 1 /\ s[k - 1] = "CR"
    <3>1. k \in 1..Len(r) \/ k = Len(r) + 1 \/ k = Len(r) + 2
      BY <1>1, <2>4
    <3>2. CASE k \in 1..Len(r)
      <4>1. k \in DOMAIN r /\ r[k] = "LF"
        BY <2>4, <2>8, <3>2 DEF ByteTexts
      <4>2. k > 1 /\ r[k - 1] = "CR"
        BY <4>1 DEF SentWell
      <4>3. k - 1 \in 1..Len(r)
        BY <1>1, <3>2, <4>2
      <4> QED BY <2>4, <4>2, <4>3
    <3>3. CASE k = Len(r) + 1
      BY <2>4, <2>8, <3>3
    <3>4. CASE k = Len(r) + 2
      <4>1. k - 1 = Len(r) + 1 /\ k > 1
        BY <1>1, <3>4
      <4> QED BY <2>4, <4>1
    <3> QED BY <3>1, <3>2, <3>3, <3>4
  <2>9. Len(s) = Len(u) + Cardinality(Bare(u))
    <3>1. Len(r) = Len(t) + Cardinality(Bare(t))
      BY DEF SentWell
    <3> QED BY <1>1, <1>3, <1>4, <2>4, <3>1
  <2>10. Ascii!DropsCR(s) = Ascii!DropsCR(u)
    <3>1. Ascii!DropsCR(r) \o <<>> = Ascii!DropsCR(r)
      BY <2>3 DEF ByteTexts
    <3>2. StoredOf("CR") = <<>> /\ b = "LF"
      BY <1>4 DEF StoredOf
    <3>3. Ascii!DropsCR(r) = Ascii!DropsCR(t)
      BY DEF SentWell
    <3> QED BY <1>2, <2>3, <2>5, <3>1, <3>2, <3>3, Zenon
  <2>11. SentWell(u, s)
    BY <1>1, <2>4, <2>7, <2>8, <2>9, <2>10 DEF SentWell
  <2> QED BY <1>1, <2>1, <2>6, <2>11, Zenon
<1>5. CASE ~(b = "LF" /\ ~EndsWithCR(t))
  <2> DEFINE s == Append(r, b)
  <2>1. Sent(b, EndsWithCR(t)) = <<b>>
    BY <1>5 DEF Sent
  <2>2. /\ s \in ByteTexts /\ Len(s) = Len(r) + 1 /\ s[Len(r) + 1] = b /\ \A k \in 1..Len(r) : s[k] = r[k]
        /\ s = r \o <<b>> /\ DOMAIN s = 1..(Len(r) + 1)
    BY DEF ByteTexts
  <2>3. Ascii!DropsCR(s) = Ascii!DropsCR(r) \o StoredOf(b)
    BY DropsOne
  <2> HIDE DEF s
  <2>4. EndsWithCR(s) <=> EndsWithCR(u)
    BY <1>1, <2>2 DEF EndsWithCR
  <2>5. ASSUME NEW k \in DOMAIN s, s[k] = "LF" PROVE k > 1 /\ s[k - 1] = "CR"
    <3>1. k \in 1..Len(r) \/ k = Len(r) + 1
      BY <1>1, <2>2
    <3>2. CASE k \in 1..Len(r)
      <4>1. k \in DOMAIN r /\ r[k] = "LF"
        BY <2>2, <2>5, <3>2 DEF ByteTexts
      <4>2. k > 1 /\ r[k - 1] = "CR"
        BY <4>1 DEF SentWell
      <4>3. k - 1 \in 1..Len(r)
        BY <1>1, <3>2, <4>2
      <4> QED BY <2>2, <4>2, <4>3
    <3>3. CASE k = Len(r) + 1
      <4>1. EndsWithCR(r)
        BY <1>5, <2>2, <2>5, <3>3 DEF SentWell
      <4>2. r[Len(r)] = "CR" /\ Len(r) # 0
        BY <1>1, <4>1 DEF EndsWithCR, ByteTexts
      <4>3. k - 1 = Len(r) /\ k > 1 /\ Len(r) \in 1..Len(r)
        BY <1>1, <3>3, <4>2
      <4> QED BY <2>2, <4>2, <4>3
    <3> QED BY <3>1, <3>2, <3>3
  <2>6. Len(s) = Len(u) + Cardinality(Bare(u))
    <3>1. Len(r) = Len(t) + Cardinality(Bare(t))
      BY DEF SentWell
    <3>2. Cardinality(Bare(u)) = Cardinality(Bare(t))
      <4>1. Cardinality(Bare(u)) = Cardinality(Bare(t)) + 0
        BY <1>3, <1>5, Zenon
      <4> QED BY <1>3, <4>1
    <3>3. Len(s) = Len(r) + 1 /\ Len(u) = Len(t) + 1
      BY <1>1, <2>2
    <3>4. \A x, y, c \in Nat : x = y + c => x + 1 = (y + 1) + c
      OBVIOUS
    <3>5. Len(r) + 1 = (Len(t) + 1) + Cardinality(Bare(t))
      BY <1>1, <1>3, <3>1, <3>4, Zenon
    <3> QED BY <3>2, <3>3, <3>5, Zenon
  <2>7. Ascii!DropsCR(s) = Ascii!DropsCR(u)
    BY <1>2, <2>3 DEF SentWell
  <2>8. SentWell(u, s)
    BY <1>1, <2>2, <2>4, <2>5, <2>6, <2>7 DEF SentWell
  <2> QED BY <1>1, <2>1, <2>2, <2>8, Zenon
<1> QED BY <1>4, <1>5

AsciiInv == buffers \in Buffers /\ (CRBefore(buffers) <=> EndsWithCR(TextOf(buffers))) /\ SentWell(TextOf(buffers), SentOf(buffers))

\* Nothing has been read.
LEMMA AsciiBegins ==
  ASSUME Ascii!Init
  PROVE  AsciiInv
<1>1. buffers = <<>> /\ Len(<<>>) = 0 /\ <<>> \in Buffers /\ <<>> \in ByteTexts /\ DOMAIN <<>> = {}
  BY DEF Ascii!Init, Buffers, ByteTexts
<1>2. Ascii!FlattenSeq(<<>>) = <<>>
  BY <1>1, Zenon DEF Ascii!FlattenSeq
<1>3. Pieces(<<>>) = <<>>
  BY <1>1 DEF Pieces
<1>4. TextOf(buffers) = <<>> /\ SentOf(buffers) = <<>>
  BY <1>1, <1>2, <1>3, Zenon DEF TextOf, SentOf
<1>5. Bare(<<>>) = {} /\ Cardinality({}) = 0
  BY <1>1, FS_EmptySet DEF Bare
<1>6. SentWell(<<>>, <<>>)
  BY <1>1, <1>5 DEF SentWell
<1>7. ~CRBefore(<<>>) /\ ~EndsWithCR(<<>>)
  BY DEF CRBefore, EndsWithCR
<1> QED BY <1>1, <1>4, <1>6, <1>7, Zenon DEF AsciiInv

\* A byte is read.
LEMMA AsciiReads ==
  ASSUME AsciiInv, Ascii!Read
  PROVE  AsciiInv'
<1>1. PICK b \in Ascii!Bytes :
        \/ buffers' = Append(buffers, <<b>>)
        \/ buffers # <<>> /\ buffers' = Append(Ascii!Front(buffers), Append(Ascii!Last(buffers), b))
  BY DEF Ascii!Read
<1>2. IsRead(buffers', buffers, b)
  <2>1. CASE buffers' = Append(buffers, <<b>>)
    BY <2>1, ReadAlone DEF AsciiInv
  <2>2. CASE buffers # <<>> /\ buffers' = Append(Ascii!Front(buffers), Append(Ascii!Last(buffers), b))
    <3>1. PICK p, u : p = Ascii!Front(buffers) /\ u = Ascii!Last(buffers)
      OBVIOUS
    <3>2. p \in Buffers /\ u \in ByteTexts \ {<<>>} /\ buffers = Append(p, u)
      BY <2>2, <3>1 DEF AsciiInv, Buffers, Ascii!Front, Ascii!Last
    <3>3. IsRead(Append(p, Append(u, b)), Append(p, u), b)
      BY <3>2, ReadOn
    <3> QED BY <2>2, <3>1, <3>2, <3>3, Zenon
  <2> QED BY <1>1, <2>1, <2>2
<1>3. /\ buffers' \in Buffers /\ (CRBefore(buffers') <=> b = "CR")
      /\ TextOf(buffers') = TextOf(buffers) \o <<b>>
      /\ SentOf(buffers') = SentOf(buffers) \o Sent(b, CRBefore(buffers))
  BY <1>2, Zenon DEF IsRead
<1>4. PICK cr \in BOOLEAN : cr = CRBefore(buffers) /\ cr = EndsWithCR(TextOf(buffers))
  BY DEF AsciiInv, CRBefore, EndsWithCR
<1>5. TextOf(buffers) \in ByteTexts /\ SentOf(buffers) \in ByteTexts
  BY DEF AsciiInv, SentWell
<1>6. SentWell(TextOf(buffers'), SentOf(buffers'))
  BY <1>3, <1>4, <1>5, SoundGrows, Zenon DEF AsciiInv
<1>7. EndsWithCR(TextOf(buffers')) <=> b = "CR"
  <2>1. \A t \in ByteTexts : EndsWithCR(t \o <<b>>) <=> b = "CR"
    BY DEF ByteTexts, EndsWithCR
  <2> QED BY <1>3, <1>5, <2>1
<1> QED BY <1>3, <1>6, <1>7 DEF AsciiInv

\* What the invariant says of the property.
LEMMA AsciiIsSound ==
  ASSUME AsciiInv
  PROVE  Ascii!AsciiIsFaithful
<1>1. Ascii!text = TextOf(buffers) /\ Ascii!Retrieved = SentOf(buffers)
  BY Zenon DEF Ascii!text, TextOf, Ascii!Retrieved, SentOf, Pieces
<1>2. \A S : Ascii!Cardinality(S) = Cardinality(S)
  BY Zenon DEF Ascii!Cardinality, Cardinality
<1>3. \A t, r : SentWell(t, r) =>
        /\ \A k \in DOMAIN r : r[k] = "LF" => k > 1 /\ r[k - 1] = "CR"
        /\ Len(r) = Len(t) + Ascii!Cardinality({k \in DOMAIN t : t[k] = "LF" /\ (k = 1 \/ t[k - 1] # "CR")})
        /\ Ascii!DropsCR(r) = Ascii!DropsCR(t)
  BY <1>2, Zenon DEF SentWell, Bare
<1>4. SentWell(Ascii!text, Ascii!Retrieved)
  BY <1>1, Zenon DEF AsciiInv
<1> QED BY <1>3, <1>4, Zenon DEF Ascii!AsciiIsFaithful

\* CmdRETR.java:99-136, CmdAbstractStore.java:130-144 - in whatever buffers a text of any
\* length is read, each LF is sent with one CR before it, nothing else is added, and
\* dropping the CRs gives the same as dropping them from the text.
THEOREM TextsAreFaithful == SessionSpec => []AsciiIsFaithful
<1> DEFINE Inv == part = "ascii" => AsciiInv
<1>1. SessionInit => Inv
  BY AsciiBegins DEF SessionInit
<1>2. Inv /\ [SessionNext]_sessionsVars => Inv'
  <2>1. CASE part = "ascii" /\ Ascii!Read /\ UNCHANGED <<part, vars, filesVars>>
    BY <2>1, AsciiReads
  <2>2. CASE UNCHANGED sessionsVars
    <3>1. buffers' = buffers /\ part' = part
      BY <2>2 DEF sessionsVars
    <3>2. AsciiInv => AsciiInv'
      BY <3>1 DEF AsciiInv
    <3> QED BY <3>1, <3>2
  <2> QED BY <2>1, <2>2 DEF SessionNext
<1>3. Inv => AsciiIsFaithful
  BY AsciiIsSound DEF AsciiIsFaithful
<1> QED BY <1>1, <1>2, <1>3, PTL DEF SessionSpec
=============================================================================
