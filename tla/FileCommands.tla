---------------------------- MODULE FileCommands ----------------------------
(***************************************************************************)
(* The commands that change or read files, in sessions that share one file *)
(* system without a lock.  A step of a command is one call on the file     *)
(* system whose answer the command acts on later, or one buffer of a       *)
(* transfer; checks that all lead to the same refusal and change nothing   *)
(* are one step with the call that follows them.                           *)
(*                                                                         *)
(* Transfers are in binary mode (AsciiTransfer has the other); a data      *)
(* connection is set up or not, and ends or fails at any moment            *)
(* (SessionData has it in detail).  Names have no "..", so that every path *)
(* lies below the chroot directory and violatesChroot is false.            *)
(***************************************************************************)
EXTENDS FileSystem

CONSTANTS
  Sessions,    \* session threads
  Params,      \* parameters of commands
  Kept,        \* paths of which one holds a file when the sessions begin
  MaxChunks,   \* bound on the buffers of one transfer
  Unlistable,  \* directories for which listFiles answers null
  Unknown      \* contents the replies do not determine

\* What a file may contain: for each buffer received its command and place.
Chunks == {Hole} \cup ((0..MaxCommands) \X (1..MaxChunks))

\* What the constants may be.
CommandsAssumption ==
  /\ MaxChunks \in Nat
  /\ Kept \subseteq {p \in Paths : Below(Storage, p)}
  /\ Params \subseteq [absolute : BOOLEAN, path : Seq(STRING)]
  /\ Unknown # None /\ None \notin Seq(Chunks) /\ Unknown \notin Seq(Chunks)

VARIABLES
  workingDir,  \* per session
  renameFrom,  \* per session: the path of the last RNFR, or None
  cmd,         \* per session: the command it executes
  started,     \* number of commands; the last one's name
  crashed,     \* an uncaught exception has ended the process
  wanted,      \* history: what the replies have promised about each path
  writers,     \* history: per file, the STOR commands that opened it
  raced        \* history: files that got a name a STOR had found free

fsVars == <<tree, data>>
ownVars == <<workingDir, renameFrom>>
historyVars == <<wanted, writers, raced>>
vars == <<fsVars, ownVars, cmd, started, crashed, historyVars>>

Idle == [pc |-> "idle", verb |-> None, number |-> 0, target |-> None, file |-> None,
         pos |-> 0, bytes |-> <<>>, entry |-> None, frames |-> <<>>, alone |-> TRUE]

Pcs == {"idle", "check", "exists", "delete", "open", "connect", "receive", "send", "sent",
        "enter", "list", "loop"}

TypeOK ==
  /\ DOMAIN tree \subseteq Paths /\ \A p \in DOMAIN tree : tree[p] \in Files \cup {None}
  /\ \A f \in Files : \A k \in DOMAIN data[f] : data[f][k] \in Chunks
  /\ workingDir \in [Sessions -> Paths]
  /\ renameFrom \in [Sessions -> Paths \cup {None}]
  /\ \A s \in Sessions : /\ cmd[s].pc \in Pcs /\ cmd[s].number \in 0..MaxCommands
                         /\ cmd[s].alone \in BOOLEAN
                         /\ cmd[s].file \in Files \cup {None} /\ cmd[s].pos \in Nat
  /\ started \in 0..MaxCommands
  /\ crashed \in BOOLEAN
  /\ writers \in [Files -> SUBSET (0..MaxCommands)]
  /\ raced \subseteq Files

Init ==
  /\ \E p \in Kept :
       tree = [q \in {q \in Paths : IsPrefix(q, p)} |-> IF q = p THEN 0 ELSE None]
  /\ data = [f \in Files |-> IF f = 0 THEN [k \in 1..MaxChunks |-> <<0, k>>] ELSE <<>>]
  /\ workingDir = [s \in Sessions |-> Chroot]
  /\ renameFrom = [s \in Sessions |-> None]
  /\ cmd = [s \in Sessions |-> Idle]
  /\ started = 0
  /\ crashed = FALSE
  /\ wanted = [p \in Paths |-> Content(p)]
  /\ writers = [f \in Files |-> {}]
  /\ raced = {}

-----------------------------------------------------------------------------
(***************************************************************************)
(* Names                                                                   *)
(***************************************************************************)

\* inputPathToChrootedFile: an absolute parameter is one below the chroot directory.
\* With "/0" in front it is one below the storage directory, which is the same here.
InputPathToChrootedFile(dir, param) ==
  IF param.absolute THEN Chroot \o param.path ELSE dir \o param.path

\* RETR and CWD know neither the working directory nor absolute names.
StoragePath(param) == Storage \o param.path

-----------------------------------------------------------------------------
(***************************************************************************)
(* Beginning and end of a command                                          *)
(***************************************************************************)
Changes(c) == c.pc # "idle" /\ c.verb # "RETR"

\* A command of session s on the paths P disturbs those of other sessions.
Disturb(s, P) ==
  [t \in Sessions |->
     IF t # s /\ cmd[t].pc # "idle" /\ \E p \in P : Overlap(p, cmd[t].target)
       THEN [cmd[t] EXCEPT !.alone = FALSE] ELSE cmd[t]]

\* No other session changes anything at, above or below the paths P.
Undisturbed(s, P) ==
  \A t \in Sessions \ {s} : \A p \in P : ~(Changes(cmd[t]) /\ Overlap(p, cmd[t].target))

Begin(s, verb, pc, p) ==
  /\ cmd[s].pc = "idle"
  /\ started < MaxCommands
  /\ started' = started + 1
  /\ cmd' = [(IF verb = "RETR" THEN cmd ELSE Disturb(s, {p})) EXCEPT
               ![s] = [Idle EXCEPT !.pc = pc, !.verb = verb, !.number = started + 1,
                                   !.target = p, !.alone = Undisturbed(s, {p})]]
  /\ UNCHANGED <<fsVars, ownVars, crashed, historyVars>>

\* A command that is one step.
Instant(s) ==
  /\ cmd[s].pc = "idle"
  /\ started < MaxCommands
  /\ started' = started + 1
  /\ UNCHANGED <<data, crashed, writers>>

Goes(s, pc) == cmd' = [cmd EXCEPT ![s].pc = pc]

\* The reply says of the paths in P, unless others were at work there,
\* is that they hold content.
Ends(s, P, content) ==
  /\ cmd' = [cmd EXCEPT ![s] = Idle]
  /\ wanted' = [p \in Paths |->
       IF cmd[s].alone THEN (IF p \in P THEN content ELSE wanted[p])
       ELSE IF \E q \in P \cup {cmd[s].target} : Overlap(p, q) THEN Unknown ELSE wanted[p]]

EndsWithoutChange(s) == Ends(s, {}, None)

\* What a target holds after a transfer that has begun: the bytes received, behind
\* those that were there for APPE.
AfterTransfer(s) ==
  LET p == cmd[s].target
      old == IF wanted[p] = None THEN <<>> ELSE wanted[p]
  IN  IF cmd[s].verb = "STOR" THEN cmd[s].bytes
      ELSE IF old = Unknown THEN Unknown ELSE old \o cmd[s].bytes

-----------------------------------------------------------------------------
(***************************************************************************)
(* STOR and APPE: doStorOrAppe                                             *)
(***************************************************************************)
BeginStore(s) ==
  \E verb \in {"STOR", "APPE"}, param \in Params :
    /\ InputPathToChrootedFile(workingDir[s], param) \in Paths
    /\ Begin(s, verb, "check", InputPathToChrootedFile(workingDir[s], param))

Storing(s, pc) == cmd[s].verb \in {"STOR", "APPE"} /\ cmd[s].pc = pc

\* if (storeFile.isDirectory())
StoreChecksDirectory(s) ==
  /\ Storing(s, "check")
  /\ IF IsDirectory(cmd[s].target)
       THEN EndsWithoutChange(s)
       ELSE Goes(s, "exists") /\ UNCHANGED wanted
  /\ UNCHANGED <<fsVars, ownVars, started, crashed, writers, raced>>

\* Fault: the stream is trusted to truncate the file.
StoreTruncates(s) ==
  /\ Storing(s, "exists")
  /\ Goes(s, "open")
  /\ UNCHANGED <<fsVars, ownVars, started, crashed, historyVars>>

\* if (storeFile.exists()) if (!append)
StoreChecksExists(s) ==
  /\ Storing(s, "exists")
  /\ Goes(s, IF Exists(cmd[s].target) /\ cmd[s].verb = "STOR" THEN "delete" ELSE "open")
  /\ UNCHANGED <<fsVars, ownVars, started, crashed, historyVars>>

\* storeFile.delete(), which deletes an empty directory as well.
StoreDeletes(s) ==
  LET p == cmd[s].target
  IN  /\ Storing(s, "delete")
      /\ IF CanDelete(p)
           THEN tree' = Without({p}) /\ Goes(s, "open") /\ UNCHANGED wanted
           ELSE EndsWithoutChange(s) /\ UNCHANGED tree
      /\ UNCHANGED <<data, ownVars, started, crashed, writers, raced>>

\* STORs that have found the name p free, or have made it so.
FindFree(s, p) ==
  {t \in Sessions \ {s} : cmd[t].verb = "STOR" /\ cmd[t].pc = "open" /\ cmd[t].target = p}

\* Fault: the stream is made without the append flag.
OpenForgetsAppend(s) ==
  LET p == cmd[s].target
      f == IF IsFile(p) THEN tree[p] ELSE cmd[s].number
  IN  /\ Storing(s, "open")
      /\ CanOpen(p)
      /\ tree' = With(p, f)
      /\ data' = [data EXCEPT ![f] = <<>>]
      /\ cmd' = [cmd EXCEPT ![s].pc = "connect", ![s].file = f]
      /\ UNCHANGED <<ownVars, started, crashed, historyVars>>

\* new FileOutputStream(storeFile, append)
StoreOpens(s) ==
  LET p == cmd[s].target
      stor == cmd[s].verb = "STOR"
      f == IF IsFile(p) THEN tree[p] ELSE cmd[s].number
  IN  /\ Storing(s, "open")
      /\ CanOpen(p)
      /\ tree' = With(p, f)
      /\ data' = IF stor THEN [data EXCEPT ![f] = <<>>] ELSE data
      /\ cmd' = [cmd EXCEPT ![s].pc = "connect", ![s].file = f]
      /\ writers' = IF stor THEN [writers EXCEPT ![f] = @ \cup {cmd[s].number}] ELSE writers
      /\ raced' = IF ~IsFile(p) /\ FindFree(s, p) # {} THEN raced \cup {f} ELSE raced
      /\ UNCHANGED <<ownVars, started, crashed, wanted>>

\* FileNotFoundException
StoreCannotOpen(s) ==
  /\ Storing(s, "open")
  /\ ~CanOpen(cmd[s].target)
  /\ EndsWithoutChange(s)
  /\ UNCHANGED <<fsVars, ownVars, started, crashed, writers, raced>>

\* startUsingDataSocket(); where it fails the target has been emptied already.
StoreConnects(s) ==
  /\ Storing(s, "connect")
  /\ \/ Goes(s, "receive") /\ UNCHANGED wanted
     \/ Ends(s, {cmd[s].target}, AfterTransfer(s))
  /\ UNCHANGED <<fsVars, ownVars, started, crashed, writers, raced>>

\* receiveFromDataSocket gives a buffer; it is written and flushed.
StoreReceives(s) ==
  LET f == cmd[s].file
      chunk == <<cmd[s].number, Len(cmd[s].bytes) + 1>>
      pos == IF cmd[s].verb = "APPE" THEN Len(data[f]) ELSE cmd[s].pos
  IN  /\ Storing(s, "receive")
      /\ Len(cmd[s].bytes) < MaxChunks
      /\ data' = [data EXCEPT ![f] = Written(@, pos, chunk)]
      /\ cmd' = [cmd EXCEPT ![s].pos = @ + 1, ![s].bytes = Append(@, chunk)]
      /\ UNCHANGED <<tree, ownVars, started, crashed, historyVars>>

\* The end of the data, or no connection any more: 226, 425 or 426.
StoreEnds(s) ==
  /\ Storing(s, "receive")
  /\ Ends(s, {cmd[s].target}, AfterTransfer(s))
  /\ UNCHANGED <<fsVars, ownVars, started, crashed, writers, raced>>

\* The device is full: 451, and some of the buffer may have been written.
StoreCannotWrite(s) ==
  /\ Storing(s, "receive")
  /\ Ends(s, {cmd[s].target}, Unknown)
  /\ UNCHANGED <<fsVars, ownVars, started, crashed, writers, raced>>

-----------------------------------------------------------------------------
(***************************************************************************)
(* RETR                                                                    *)
(***************************************************************************)
BeginRetr(s) ==
  \E param \in Params :
    StoragePath(param) \in Paths /\ Begin(s, "RETR", "open", StoragePath(param))

Retrieving(s, pc) == cmd[s].verb = "RETR" /\ cmd[s].pc = pc

RetrEnds(s) == cmd' = [cmd EXCEPT ![s] = Idle]

\* isDirectory, exists, canRead, new FileInputStream: all refuse with 550.
RetrOpens(s) ==
  LET p == cmd[s].target
  IN  /\ Retrieving(s, "open")
      /\ IF IsFile(p)
           THEN cmd' = [cmd EXCEPT ![s].pc = "connect", ![s].file = tree[p]]
           ELSE RetrEnds(s)
      /\ UNCHANGED <<fsVars, ownVars, started, crashed, historyVars>>

RetrConnects(s) ==
  /\ Retrieving(s, "connect")
  /\ Goes(s, "send") \/ RetrEnds(s)
  /\ UNCHANGED <<fsVars, ownVars, started, crashed, historyVars>>

\* in.read and sendViaDataSocket, which may fail: 426.
RetrSends(s) ==
  LET content == data[cmd[s].file]
  IN  /\ Retrieving(s, "send")
      /\ IF cmd[s].pos < Len(content)
           THEN \/ cmd' = [cmd EXCEPT ![s].pos = @ + 1,
                                      ![s].bytes = Append(@, content[cmd[s].pos + 1])]
                \/ RetrEnds(s)
           ELSE Goes(s, "sent")
      /\ UNCHANGED <<fsVars, ownVars, started, crashed, historyVars>>

\* 226 Transmission finished
RetrReplies(s) ==
  /\ Retrieving(s, "sent")
  /\ RetrEnds(s)
  /\ UNCHANGED <<fsVars, ownVars, started, crashed, historyVars>>

-----------------------------------------------------------------------------
(***************************************************************************)
(* DELE                                                                    *)
(***************************************************************************)
BeginDele(s) ==
  \E param \in Params :
    /\ InputPathToChrootedFile(workingDir[s], param) \in Paths
    /\ Begin(s, "DELE", "check", InputPathToChrootedFile(workingDir[s], param))

DeleChecksDirectory(s) ==
  /\ cmd[s].verb = "DELE" /\ cmd[s].pc = "check"
  /\ IF IsDirectory(cmd[s].target)
       THEN EndsWithoutChange(s)
       ELSE Goes(s, "delete") /\ UNCHANGED wanted
  /\ UNCHANGED <<fsVars, ownVars, started, crashed, writers, raced>>

DeleDeletes(s) ==
  LET p == cmd[s].target
  IN  /\ cmd[s].verb = "DELE" /\ cmd[s].pc = "delete"
      /\ IF CanDelete(p)
           THEN tree' = Without({p}) /\ Ends(s, {p}, None)
           ELSE EndsWithoutChange(s) /\ UNCHANGED tree
      /\ UNCHANGED <<data, ownVars, started, crashed, writers, raced>>

-----------------------------------------------------------------------------
(***************************************************************************)
(* RMD: recursiveDelete.  A frame is a call that has listed its directory; *)
(* entry is the path the innermost call is about.                          *)
(***************************************************************************)

\* isDirectory, and the comparison with the root of the file system.
BeginRmd(s) ==
  \E param \in Params :
    LET p == InputPathToChrootedFile(workingDir[s], param)
    IN  /\ p \in Paths
        /\ IF IsDirectory(p) /\ p # Root
             THEN Begin(s, "RMD", "enter", p)
             ELSE Instant(s) /\ UNCHANGED <<tree, ownVars, cmd, wanted, raced>>

Removing(s, pc) == cmd[s].verb = "RMD" /\ cmd[s].pc = pc

Entry(s) == IF cmd[s].entry = None THEN cmd[s].target ELSE cmd[s].entry

\* A call returns: to the loop of its caller, or to run, which replies.
Returns(s, success, frames) ==
  IF frames = <<>>
    THEN Ends(s, {p \in Paths : IsPrefix(cmd[s].target, p)},
              IF success THEN None ELSE Unknown)
    ELSE /\ cmd' = [cmd EXCEPT ![s].pc = "loop",
                      ![s].frames = [frames EXCEPT ![Len(frames)].success = @ /\ success]]
         /\ UNCHANGED wanted

\* exists, isDirectory; a file is deleted.
RmdEnters(s) ==
  LET p == Entry(s)
  IN  /\ Removing(s, "enter")
      /\ IF IsDirectory(p)
           THEN Goes(s, "list") /\ UNCHANGED <<tree, wanted>>
           ELSE /\ tree' = IF CanDelete(p) THEN Without({p}) ELSE tree
                /\ Returns(s, CanDelete(p), cmd[s].frames)
      /\ UNCHANGED <<data, ownVars, started, crashed, writers, raced>>

\* listFiles() answers null where there is no directory any more.
RmdLists(s) ==
  LET p == Entry(s)
  IN  /\ Removing(s, "list")
      /\ IF IsDirectory(p) /\ p \notin Unlistable
           THEN /\ cmd' = [cmd EXCEPT ![s].pc = "loop",
                             ![s].frames = Append(@, [dir |-> p, todo |-> Entries(p), success |-> TRUE])]
                /\ UNCHANGED crashed
           ELSE crashed' = TRUE /\ UNCHANGED cmd
      /\ UNCHANGED <<fsVars, ownVars, started, historyVars>>

\* The loop over the entries, in any order, and success && toDelete.delete().
RmdLoops(s) ==
  LET frames == cmd[s].frames
      top == Last(frames)
      deleted == top.success /\ CanDelete(top.dir)
  IN  /\ Removing(s, "loop")
      /\ \/ /\ \E e \in top.todo :
                 cmd' = [cmd EXCEPT ![s].pc = "enter", ![s].entry = e,
                           ![s].frames[Len(frames)].todo = @ \ {e}]
            /\ UNCHANGED <<tree, wanted>>
         \/ /\ top.todo = {}
            /\ tree' = IF deleted THEN Without({top.dir}) ELSE tree
            /\ Returns(s, deleted, Front(frames))
      /\ UNCHANGED <<data, ownVars, started, crashed, writers, raced>>

-----------------------------------------------------------------------------
(***************************************************************************)
(* MKD, RNFR, RNTO, CWD, CDUP                                              *)
(***************************************************************************)
Mkd(s) ==
  \E param \in Params :
    LET p == InputPathToChrootedFile(workingDir[s], param)
    IN  /\ Instant(s)
        /\ CanMake(p)
        /\ tree' = With(p, None)
        /\ cmd' = Disturb(s, {p})
        /\ wanted' = IF Undisturbed(s, {p}) THEN wanted ELSE [wanted EXCEPT ![p] = Unknown]
        /\ UNCHANGED <<ownVars, raced>>

Rnfr(s) ==
  \E param \in Params :
    LET p == InputPathToChrootedFile(workingDir[s], param)
    IN  /\ Instant(s)
        /\ renameFrom' = [renameFrom EXCEPT ![s] = IF Exists(p) THEN p ELSE None]
        /\ UNCHANGED <<tree, workingDir, cmd, wanted, raced>>

\* fromFile.renameTo(toFile); the source is forgotten, whatever happened.
Rnto(s) ==
  \E param \in Params :
    LET q == InputPathToChrootedFile(workingDir[s], param)
        p == renameFrom[s]
        rest(x, r) == SubSeq(r, Len(x) + 1, Len(r))
    IN  /\ Instant(s)
        /\ p # None /\ CanRename(p, q)
        /\ DOMAIN Moved(p, q) \subseteq Paths
        /\ tree' = Moved(p, q)
        /\ cmd' = Disturb(s, {p, q})
        /\ raced' = raced \cup {tree[r] : r \in {r \in DOMAIN tree :
                                IsPrefix(p, r) /\ IsFile(r) /\ FindFree(s, q \o rest(p, r)) # {}}}
        /\ wanted' = [r \in Paths |->
             IF p = q THEN wanted[r]
             ELSE IF ~Undisturbed(s, {p, q})
               THEN (IF Overlap(p, r) \/ Overlap(q, r) THEN Unknown ELSE wanted[r])
             ELSE IF IsPrefix(q, r)
               THEN (IF p \o rest(q, r) \in Paths THEN wanted[p \o rest(q, r)] ELSE None)
             ELSE IF IsPrefix(p, r) THEN None ELSE wanted[r]]
        /\ renameFrom' = [renameFrom EXCEPT ![s] = None]
        /\ UNCHANGED workingDir

RntoFails(s) ==
  \E param \in Params :
    LET q == InputPathToChrootedFile(workingDir[s], param)
        p == renameFrom[s]
    IN  /\ Instant(s)
        /\ p = None \/ ~CanRename(p, q)
        /\ renameFrom' = [renameFrom EXCEPT ![s] = None]
        /\ UNCHANGED <<tree, workingDir, cmd, wanted, raced>>

Cwd(s) ==
  \E param \in Params :
    /\ Instant(s)
    /\ IsDirectory(StoragePath(param))
    /\ workingDir' = [workingDir EXCEPT ![s] = StoragePath(param)]
    /\ UNCHANGED <<tree, renameFrom, cmd, wanted, raced>>

\* getParentFile; above the chroot directory is a violation.
Cdup(s) ==
  /\ Instant(s)
  /\ workingDir[s] # Chroot
  /\ IsDirectory(Front(workingDir[s]))
  /\ workingDir' = [workingDir EXCEPT ![s] = Front(@)]
  /\ UNCHANGED <<tree, renameFrom, cmd, wanted, raced>>

-----------------------------------------------------------------------------
Store(s) ==
  \/ BeginStore(s) \/ StoreChecksDirectory(s) \/ StoreChecksExists(s) \/ StoreDeletes(s)
  \/ StoreOpens(s) \/ StoreCannotOpen(s) \/ StoreConnects(s) \/ StoreReceives(s)
  \/ StoreEnds(s) \/ StoreCannotWrite(s)
Retr(s) ==
  \/ BeginRetr(s) \/ RetrOpens(s) \/ RetrConnects(s) \/ RetrSends(s) \/ RetrReplies(s)
Dele(s) == BeginDele(s) \/ DeleChecksDirectory(s) \/ DeleDeletes(s)
Rmd(s) == BeginRmd(s) \/ RmdEnters(s) \/ RmdLists(s) \/ RmdLoops(s)

Next ==
  /\ ~crashed
  /\ \E s \in Sessions :
       \/ Store(s) \/ Retr(s) \/ Dele(s) \/ Rmd(s)
       \/ Mkd(s) \/ Rnfr(s) \/ Rnto(s) \/ RntoFails(s) \/ Cwd(s) \/ Cdup(s)

Spec == Init /\ [][Next]_vars

-----------------------------------------------------------------------------
(***************************************************************************)
(* Properties                                                              *)
(***************************************************************************)

\* What the replies promise of a path is what it holds, whenever no command is at
\* work on it: the bytes of the last STOR, also of one that failed, with those of
\* later APPEs behind them (CmdAbstractStore.java:166: "If this transfer fails, a
\* later APPEND operation might be received"), moved by renames and gone when
\* deleted.  A RETR that ends with 226 has sent just that.  Commands that ran at
\* the same time on one path promise nothing.
FilesAreAsSent ==
  /\ \A p \in Paths :
       wanted[p] # Unknown /\ (\A s \in Sessions : ~(Changes(cmd[s]) /\ Overlap(p, cmd[s].target)))
         => Content(p) = wanted[p]
  /\ \A s \in Sessions :
       LET c == cmd[s]
       IN  c.pc = "sent" /\ c.alone /\ wanted[c.target] # Unknown => c.bytes = wanted[c.target]

\* Two STORs write into one file only where the file got its name after one of them
\* had looked for it: deleting before opening keeps them apart otherwise, also a
\* STOR from the one whose file it replaces.
StoresDoNotMix ==
  \A f \in Files : \A m, n \in writers[f] : m # n => f \in raced

\* listFiles() answers null, which ends the process, only for a directory that
\* cannot be read or that another session has taken away since isDirectory().
CrashNeedsOther ==
  crashed => \E s \in Sessions :
               Removing(s, "list") /\ (~cmd[s].alone \/ Entry(s) \in Unlistable)
=============================================================================
