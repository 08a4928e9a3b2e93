---------------------------- MODULE ResourcesProofs ----------------------------
(***************************************************************************)
(* Theorems about the six components that MCResources puts side by side,   *)
(* for any modules, directories, files and names, and any number of edits  *)
(* and builds.                                                             *)
(*                                                                         *)
(* The argument, a component at a time: the keeper file is never behind    *)
(* the pack (IdsInv); a processed copy that is behind its file belongs to  *)
(* one that data binding has yet to look at (FileInv); the first directory *)
(* of a sequence that defines a resource does not depend on the order of   *)
(* two kinds of which one does not define it (FirstJoined); a class that   *)
(* is not younger than its recorded time is the one retrolambda wrote      *)
(* (Lowered); the copies of a library that was compiled in this build are  *)
(* those there are now (LibRInv); and the cache of annotated files is what *)
(* its maker collected (AptInv).                                           *)
(***************************************************************************)
EXTENDS MCResources, FiniteSetTheorems, SequenceTheorems, TLAPS


-----------------------------------------------------------------------------
(***************************************************************************)
(* Ids.  The keeper is never behind the pack: it is what aapt has written  *)
(* into it, or R.java, from which it will be generated, is the pack.       *)
(***************************************************************************)
IdsHistories == [unrefreshed : SUBSET ResIds!Names, byR : SUBSET ResIds!Names, written : SUBSET ResIds!Names]

\* The names of type "id" that a build may miss.
Excused(h) == h.unrefreshed \cup (h.byR \cap Documented) \cup h.written

\* The public entries whose names are declared nowhere.
Undeclared == (ResIds!NamesOf(keeper) \cap IdNames) \ ids

IdsInv ==
  /\ ResIds!TypeOK /\ idsHistory \in IdsHistories
  /\ code \subseteq idsPack
  /\ idsPack \subseteq IF kept THEN keeper ELSE r
  /\ idsPhase = "aapt" => kept /\ keeper = idsPack /\ missing = {}
  /\ kept /\ idsPhase = "idle" => Undeclared \subseteq Excused(idsHistory)
  /\ ResIds!NamesOf(own) \subseteq idsHistory.written
  /\ ResIds!IdsMayDisappear

LEMMA NamesOfUnion ==
  ASSUME NEW A, NEW B
  PROVE  /\ ResIds!NamesOf(A \cup B) = ResIds!NamesOf(A) \cup ResIds!NamesOf(B)
         /\ A \subseteq B => ResIds!NamesOf(A) \subseteq ResIds!NamesOf(B)
         /\ A \subseteq ResIds!Entries => ResIds!NamesOf(A) \subseteq ResIds!Names
BY DEF ResIds!NamesOf, ResIds!Entries

\* A table has its public entries and is one of resources and ids.
LEMMA TablesExtend ==
  ASSUME NEW D \in SUBSET ResIds!Names, NEW E \in SUBSET ResIds!Entries, NEW T \in ResIds!Tables(D, E)
  PROVE  E \subseteq T /\ T \subseteq ResIds!Entries
<1>1. PICK f \in ResIds!Injection(D \ ResIds!NamesOf(E), ResIds!Free(E)) :
        T = E \cup {<<n, f[n]>> : n \in DOMAIN f}
  BY DEF ResIds!Tables
<1>2. f \in [D \ ResIds!NamesOf(E) -> Ids]
  BY <1>1 DEF ResIds!Injection, ResIds!Free
<1> QED BY <1>1, <1>2 DEF ResIds!Entries

LEMMA IdsBegin == ASSUME ResIds!Init, PartsAssumption PROVE IdsInv
<1>1. defined \subseteq ResIds!Names /\ own = {} /\ ownIds = {} /\ idsChanged = {}
      /\ idsPack = r /\ code = r /\ missing = {} /\ idsPhase = "idle" /\ idsEdits = 0 /\ idsBuilds = 0
  BY DEF ResIds!Init
<1>2. r \subseteq ResIds!Entries
  BY <1>1, TablesExtend DEF ResIds!Init
<1>3. PICK how \in {"keeper", "R", "none"} : ResIds!KeepIds(how)
  BY DEF ResIds!Init
<1>4. /\ keeper = (IF how = "none" THEN {} ELSE r) /\ kept = (how # "none")
      /\ ids \subseteq IdNames
      /\ how = "keeper" => ids = ResIds!NamesOf(r) \cap IdNames
      /\ how = "R" => ids = {n \in ResIds!NamesOf(r) : n \in IdNames \ Documented}
      /\ idsHistory = [unrefreshed |-> {}, byR |-> IF how = "R" THEN ResIds!NamesOf(r) ELSE {}, written |-> {}]
  BY <1>3 DEF ResIds!KeepIds, ResIds!IdsByPublic, ResIds!IdsByR
<1>5. ResIds!TypeOK
  BY <1>1, <1>2, <1>4 DEF ResIds!TypeOK, PartsAssumption, ResIds!ResourceIdsAssumption
<1>6. idsHistory \in IdsHistories
  BY <1>2, <1>4, NamesOfUnion DEF IdsHistories
<1>7. kept => Undeclared \subseteq Excused(idsHistory)
  BY <1>4 DEF Undeclared, Excused
<1>8. ResIds!NamesOf(own) \subseteq idsHistory.written
  BY <1>1 DEF ResIds!NamesOf
<1>9. ResIds!IdsMayDisappear
  BY <1>1 DEF ResIds!IdsMayDisappear
<1> QED BY <1>1, <1>4, <1>5, <1>6, <1>7, <1>8, <1>9 DEF IdsInv

\* What generate_r_file leaves: a public.xml that is not behind the pack, and no name of
\* type "id" in it that is declared nowhere, but for the exceptions.
LEMMA FilesAreGenerated ==
  ASSUME IdsInv, idsPhase = "idle", PartsAssumption,
         NEW h, h = IF kept THEN idsHistory ELSE [idsHistory EXCEPT !.byR = ResIds!NamesOf(r)]
  PROVE  LET g == ResIds!GenerateRFile
         IN  /\ idsPack \subseteq g.keeper /\ g.keeper \subseteq ResIds!Entries
             /\ g.ids \subseteq IdNames
             /\ (ResIds!NamesOf(g.keeper \cup own) \cap IdNames) \ g.ids \subseteq Excused(h)
             /\ h \in IdsHistories
             /\ ResIds!NamesOf(own) \subseteq h.written
<1> DEFINE g == ResIds!GenerateRFile
           public == IF kept THEN keeper ELSE r
           items == IF kept THEN ids ELSE {n \in ResIds!NamesOf(r) : n \in IdNames \ Documented}
<1>1. /\ g.keeper = (IF ResIds!IdsChanged THEN public \cup own ELSE public)
      /\ g.ids = (IF ResIds!IdsChanged THEN items \cup ownIds ELSE items)
  BY DEF ResIds!GenerateRFile, ResIds!MergeWithOld, ResIds!MergeXml, ResIds!PublicByR, ResIds!IdsByR
<1>2. /\ keeper \subseteq ResIds!Entries /\ r \subseteq ResIds!Entries /\ ids \subseteq IdNames
      /\ ownIds \subseteq IdNames /\ own \subseteq ResIds!Entries /\ kept \in BOOLEAN
  BY DEF IdsInv, ResIds!TypeOK, PartsAssumption, ResIds!ResourceIdsAssumption, ResIds!Entries, ResIds!Names
<1>3. h \in IdsHistories /\ h.written = idsHistory.written
      /\ (~kept => h.byR = ResIds!NamesOf(r)) /\ (kept => h = idsHistory)
  BY <1>2, NamesOfUnion DEF IdsInv, IdsHistories
<1>4. idsPack \subseteq g.keeper /\ g.keeper \subseteq ResIds!Entries /\ g.ids \subseteq IdNames
  BY <1>1, <1>2 DEF IdsInv
<1>5. items \subseteq g.ids /\ g.keeper \cup own = public \cup own
  BY <1>1
<1>6. (ResIds!NamesOf(public) \cap IdNames) \ items \subseteq Excused(h)
  BY <1>3 DEF IdsInv, Undeclared, Excused
<1>7. ResIds!NamesOf(own) \subseteq h.written
  BY <1>3 DEF IdsInv
<1>8. (ResIds!NamesOf(public \cup own) \cap IdNames) \ g.ids \subseteq Excused(h)
  BY <1>5, <1>6, <1>7, NamesOfUnion DEF Excused
<1> QED BY <1>3, <1>4, <1>5, <1>7, <1>8

LEMMA IdsEdited ==
  ASSUME IdsInv, PartsAssumption, ResIds!EditLayout \/ ResIds!EditPublic \/ ResIds!EditIds
  PROVE  IdsInv' /\ idsPack' = idsPack
<1>1. \E kind \in ResIds!Files : ResIds!IsEdited(kind)
  BY DEF ResIds!EditLayout, ResIds!EditPublic, ResIds!EditIds, ResIds!Files
<1>2. /\ idsPhase = "idle" /\ idsEdits' \in 0..MaxIdsEdits /\ idsChanged' \subseteq ResIds!Files
      /\ UNCHANGED <<keeper, ids, kept, r, idsPack, code, missing, idsPhase, idsBuilds>>
  BY <1>1 DEF ResIds!IsEdited, ResIds!files, IdsInv, ResIds!TypeOK, PartsAssumption, ResIds!ResourceIdsAssumption
<1>3. defined' \subseteq ResIds!Names /\ own' \subseteq OwnEntries /\ ownIds' \subseteq IdNames
  BY DEF ResIds!EditLayout, ResIds!EditPublic, ResIds!EditIds, IdsInv, ResIds!TypeOK
<1>4. ResIds!TypeOK'
  BY <1>2, <1>3 DEF IdsInv, ResIds!TypeOK
<1>5. ResIds!NamesOf(own') \subseteq ResIds!Names
  BY <1>3, NamesOfUnion DEF PartsAssumption, ResIds!ResourceIdsAssumption, ResIds!Entries, ResIds!Names
<1>6. \/ idsHistory' = idsHistory /\ own' = own
      \/ idsHistory' = [idsHistory EXCEPT !.written = @ \cup ResIds!NamesOf(own')]
  BY DEF ResIds!EditLayout, ResIds!EditPublic, ResIds!EditIds
<1>7. /\ idsHistory' \in IdsHistories /\ Excused(idsHistory) \subseteq Excused(idsHistory')
      /\ ResIds!NamesOf(own') \subseteq idsHistory'.written
  BY <1>5, <1>6 DEF IdsInv, IdsHistories, Excused
<1>8. ResIds!IdsMayDisappear'
  BY <1>2, <1>7 DEF IdsInv, ResIds!IdsMayDisappear, Excused
<1>9. Undeclared' = Undeclared
  BY <1>2 DEF Undeclared, ResIds!NamesOf
<1> QED BY <1>2, <1>4, <1>7, <1>8, <1>9 DEF IdsInv

LEMMA AaptFailsStep ==
  ASSUME IdsInv, PartsAssumption, ResIds!AaptFails
  PROVE  IdsInv' /\ idsPack' = idsPack
<1> DEFINE g == ResIds!GenerateRFile
           h == IF kept THEN idsHistory ELSE [idsHistory EXCEPT !.byR = ResIds!NamesOf(r)]
<1>1. /\ idsPhase = "idle" /\ idsPhase' = "idle" /\ idsBuilds' \in 0..MaxIdsBuilds /\ kept' = TRUE
      /\ UNCHANGED <<defined, own, ownIds, idsChanged, r, code, idsEdits, idsPack>>
      /\ keeper' = g.keeper /\ ids' = g.ids /\ idsHistory' = h
      /\ missing' = {} \/ missing' = ResIds!Undefined(g)
  BY DEF ResIds!AaptFails, ResIds!BuildBegins, ResIds!source, IdsInv, ResIds!TypeOK,
         PartsAssumption, ResIds!ResourceIdsAssumption
<1> HIDE DEF h
<1>2. /\ idsPack \subseteq g.keeper /\ g.keeper \subseteq ResIds!Entries /\ g.ids \subseteq IdNames
      /\ (ResIds!NamesOf(g.keeper \cup own) \cap IdNames) \ g.ids \subseteq Excused(h)
      /\ h \in IdsHistories /\ ResIds!NamesOf(own) \subseteq h.written
  BY <1>1, FilesAreGenerated DEF h
<1> HIDE DEF g
<1>3. own \subseteq ResIds!Entries
  BY DEF IdsInv, ResIds!TypeOK, PartsAssumption, ResIds!ResourceIdsAssumption, ResIds!Entries, ResIds!Names
<1>4. missing' \subseteq ResIds!Names /\ missing' \cap IdNames \subseteq Excused(h)
  <2>1. CASE missing' = ResIds!Undefined(g)
    <3>1. missing' \subseteq ResIds!NamesOf(g.keeper \cup own) \ g.ids
      BY <2>1 DEF ResIds!Undefined, ResIds!Public, ResIds!Defined
    <3> QED BY <1>2, <1>3, <3>1, NamesOfUnion
  <2> QED BY <1>1, <2>1
<1>5. ResIds!TypeOK'
  BY <1>1, <1>2, <1>4 DEF IdsInv, ResIds!TypeOK
<1>6. Undeclared' \subseteq Excused(idsHistory')
  <2>1. Undeclared' = (ResIds!NamesOf(g.keeper) \cap IdNames) \ g.ids
    BY <1>1 DEF Undeclared, ResIds!NamesOf
  <2> QED BY <1>1, <1>2, <2>1, NamesOfUnion
<1>7. ResIds!NamesOf(own') \subseteq idsHistory'.written
  BY <1>1, <1>2
<1>8. ResIds!IdsMayDisappear'
  BY <1>1, <1>4 DEF ResIds!IdsMayDisappear, Excused
<1> QED BY <1>1, <1>2, <1>5, <1>6, <1>7, <1>8 DEF IdsInv

LEMMA AaptStep ==
  ASSUME IdsInv, PartsAssumption, ResIds!Aapt
  PROVE  IdsInv' /\ idsPack \subseteq idsPack'
<1> DEFINE g == ResIds!GenerateRFile
           h == IF kept THEN idsHistory ELSE [idsHistory EXCEPT !.byR = ResIds!NamesOf(r)]
<1>1. /\ idsPhase = "idle" /\ idsPhase' = "aapt" /\ idsBuilds' \in 0..MaxIdsBuilds /\ kept' = TRUE
      /\ UNCHANGED <<defined, own, ownIds, idsChanged, r, code, idsEdits>>
      /\ idsPack' \in ResIds!Tables(ResIds!Defined(g), ResIds!Public(g))
      /\ keeper' = idsPack' /\ ids' = g.ids /\ idsHistory' = h /\ missing' = {}
  BY DEF ResIds!Aapt, ResIds!BuildBegins, ResIds!source, IdsInv, ResIds!TypeOK,
         PartsAssumption, ResIds!ResourceIdsAssumption
<1> HIDE DEF h
<1>2. /\ idsPack \subseteq g.keeper /\ g.keeper \subseteq ResIds!Entries /\ g.ids \subseteq IdNames
      /\ h \in IdsHistories /\ ResIds!NamesOf(own) \subseteq h.written
  BY <1>1, FilesAreGenerated DEF h
<1> HIDE DEF g
<1>3. ResIds!Defined(g) \subseteq ResIds!Names /\ ResIds!Public(g) \subseteq ResIds!Entries
      /\ g.keeper \subseteq ResIds!Public(g)
  BY <1>2 DEF IdsInv, ResIds!TypeOK, ResIds!Defined, ResIds!Public, PartsAssumption,
              ResIds!ResourceIdsAssumption, ResIds!Entries, ResIds!Names
<1>4. idsPack \subseteq idsPack' /\ idsPack' \subseteq ResIds!Entries
  BY <1>1, <1>2, <1>3, TablesExtend
<1>5. ResIds!TypeOK'
  BY <1>1, <1>2, <1>4 DEF IdsInv, ResIds!TypeOK
<1>6. ResIds!NamesOf(own') \subseteq idsHistory'.written
  BY <1>1, <1>2
<1>7. ResIds!IdsMayDisappear'
  BY <1>1 DEF ResIds!IdsMayDisappear
<1> QED BY <1>1, <1>2, <1>4, <1>5, <1>6, <1>7 DEF IdsInv

LEMMA AfterAaptStep ==
  ASSUME IdsInv, PartsAssumption, ResIds!RestFails \/ ResIds!Finish
  PROVE  IdsInv' /\ idsPack' = idsPack
<1>1. /\ idsPhase = "aapt" /\ idsPhase' = "idle" /\ ResIds!Compiles
      /\ UNCHANGED <<defined, own, ownIds, keeper, kept, idsPack, missing, idsEdits, idsBuilds>>
  BY DEF ResIds!RestFails, ResIds!Finish, ResIds!source, ResIds!files
<1>2. code' \subseteq idsPack /\ code' \subseteq ResIds!Entries /\ r' \subseteq ResIds!Entries
  BY <1>1 DEF ResIds!Compiles, IdsInv, ResIds!TypeOK
<1>3. kept /\ keeper = idsPack /\ missing = {}
  BY <1>1 DEF IdsInv
<1>4. /\ idsHistory' \in IdsHistories /\ idsHistory'.written = idsHistory.written
      /\ ids' \subseteq IdNames /\ idsChanged' \subseteq ResIds!Files
      /\ (ResIds!NamesOf(keeper) \cap IdNames) \ ids' \subseteq idsHistory'.unrefreshed
  <2>0. ResIds!NamesOf(keeper) \subseteq ResIds!Names
    BY NamesOfUnion DEF IdsInv, ResIds!TypeOK
  <2>1. CASE ResIds!RestFails
    <3>1. idsHistory' = [idsHistory EXCEPT !.unrefreshed = @ \cup (ResIds!NamesOf(idsPack) \ ids)]
          /\ ids' = ids /\ idsChanged' = idsChanged
      BY <2>1 DEF ResIds!RestFails, ResIds!files
    <3> QED BY <1>3, <2>0, <3>1 DEF IdsInv, IdsHistories, ResIds!TypeOK
  <2>2. CASE ResIds!Finish
    <3>1. /\ idsHistory' = [idsHistory EXCEPT !.unrefreshed = {}, !.byR = {}]
          /\ ids' = ResIds!NamesOf(keeper) \cap IdNames /\ idsChanged' \subseteq idsChanged
      BY <2>2 DEF ResIds!Finish, ResIds!IdsByPublic, ResIds!TakenOff, ResIds!IdFiles
    <3> QED BY <2>0, <3>1 DEF IdsInv, IdsHistories, ResIds!TypeOK
  <2> QED BY <2>1, <2>2
<1>5. ResIds!TypeOK'
  BY <1>1, <1>2, <1>4 DEF IdsInv, ResIds!TypeOK
<1>6. Undeclared' \subseteq Excused(idsHistory')
  BY <1>1, <1>4 DEF Undeclared, Excused, ResIds!NamesOf
<1>7. ResIds!NamesOf(own') \subseteq idsHistory'.written
  BY <1>1, <1>4 DEF IdsInv
<1>8. ResIds!IdsMayDisappear'
  BY <1>1, <1>3 DEF ResIds!IdsMayDisappear
<1> QED BY <1>1, <1>2, <1>3, <1>4, <1>5, <1>6, <1>7, <1>8 DEF IdsInv

LEMMA IdsStep ==
  ASSUME IdsInv, PartsAssumption, [ResIds!Next]_resIdsVars
  PROVE  IdsInv' /\ idsPack \subseteq idsPack'
<1>1. CASE UNCHANGED resIdsVars
  <2>1. ResIds!TypeOK' /\ Undeclared' = Undeclared /\ ResIds!IdsMayDisappear'
    BY <1>1 DEF resIdsVars, IdsInv, ResIds!TypeOK, Undeclared, ResIds!NamesOf, ResIds!IdsMayDisappear
  <2>2. ResIds!NamesOf(own') = ResIds!NamesOf(own)
    BY <1>1 DEF resIdsVars
  <2> QED BY <1>1, <2>1, <2>2 DEF resIdsVars, IdsInv
<1> QED BY <1>1, IdsEdited, AaptFailsStep, AaptStep, AfterAaptStep DEF ResIds!Next


-----------------------------------------------------------------------------
(***************************************************************************)
(* Copies.  A copy that is behind its file belongs to a file that the scan *)
(* finds and data binding has yet to look at.  A changed file that is not  *)
(* an id file is always on the list, under one of its two names.           *)
(***************************************************************************)
Hidden(f) == Binding!IdFile(f) /\ Binding!HasCopy(f)
Changed(f) == bindingVersion[f] > bindingStat[f]
Waits(f) == <<Binding!Owner(f[1]), f[1]>> \in bindingTodo
Renamed(f) == f \in replaced /\ Binding!Output(f) \in res

FileInv(f) ==
  /\ bindingStat[f] <= bindingVersion[f]
  /\ bindingStat[f] <= bindingPacked[f] \/ Hidden(f)
  /\ Binding!HasCopy(f) /\ ~Binding!IdFile(f) /\ copy[f] # bindingVersion[f] =>
       /\ Changed(f) /\ bindingPhase \in {"idle", "scanned", "binding"}
       /\ bindingPhase = "binding" => Waits(f)
  /\ bindingPhase \in {"packed", "recovered"} => bindingPacked[f] = bindingVersion[f] \/ Hidden(f)
  /\ bindingPhase = "scanned" /\ Changed(f) => Binding!Source(f) \in res
  /\ bindingPhase \in {"binding", "bound", "packed", "recovered"} /\ Changed(f) /\ ~Binding!IdFile(f) =>
       /\ Binding!Source(f) \in res \/ (Renamed(f) /\ bindingPhase # "recovered")
       /\ bindingPhase = "binding" /\ Waits(f) => Binding!Source(f) \in res

\* The directories with a copy are what the clean build made of those of the modules
\* with data binding.
CopiesMade ==
  /\ \A m \in BindingModules : ResDirs[m] \subseteq bindingMapper \cup Late
  /\ bindingMapper \subseteq UNION {ResDirs[m] : m \in BindingModules}
  /\ overwritten \subseteq Late \ bindingMapper

ListsKept ==
  /\ lists \in [ResModules -> SUBSET Binding!Files]
  /\ bindingPhase # "idle" => \A m \in ResModules :
       lists[m] = IF m = MainModule THEN {} ELSE {f \in Binding!Files : Changed(f) /\ Binding!Owner(f[1]) = m}
  /\ bindingPhase \notin {"idle", "recovered"} => \A item \in res : Binding!Prefix(item) \in prefixes
  /\ \A place \in bindingTodo : place[2] \in ResDirs[place[1]]

BindingInv ==
  /\ Binding!TypeOK
  /\ \A f \in Binding!Files : FileInv(f)
  /\ CopiesMade /\ ListsKept
  /\ Binding!PreparationFails

LEMMA Owners ==
  ASSUME PartsAssumption, NEW m \in ResModules, NEW d \in ResDirs[m]
  PROVE  d \in Binding!AllDirs /\ Binding!Owner(d) = m
BY DEF PartsAssumption, Binding!DataBindingAssumption, Binding!AllDirs, Binding!Owner

LEMMA FilesHaveOwners ==
  ASSUME PartsAssumption, NEW f \in Binding!Files
  PROVE  /\ f = <<f[1], f[2]>> /\ f[1] \in Binding!AllDirs /\ f[2] \in {"layout", "ids"}
         /\ Binding!Owner(f[1]) \in ResModules /\ f[1] \in ResDirs[Binding!Owner(f[1])]
<1>1. f = <<f[1], f[2]>> /\ f[1] \in Binding!AllDirs /\ f[2] \in {"layout", "ids"}
  BY DEF Binding!Files
<1>2. \E m \in ResModules : f[1] \in ResDirs[m]
  BY <1>1 DEF Binding!AllDirs
<1> QED BY <1>1, <1>2 DEF Binding!Owner

\* An item of the list is one of the two names of a file.
LEMMA ItemsNameFiles ==
  ASSUME NEW item \in Binding!Items
  PROVE  /\ item[2] \in Binding!Files
         /\ item = Binding!Source(item[2]) \/ item = Binding!Output(item[2])
         /\ item[1] = "source" <=> item = Binding!Source(item[2])
BY DEF Binding!Items, Binding!Source, Binding!Output

LEMMA FilesNameItems ==
  ASSUME NEW f \in Binding!Files
  PROVE  /\ Binding!Source(f) \in Binding!Items /\ Binding!Output(f) \in Binding!Items
         /\ Binding!Source(f) # Binding!Output(f)
         /\ Binding!Source(f)[1] = "source" /\ Binding!Source(f)[2] = f /\ Binding!Output(f)[2] = f
         /\ Binding!Prefix(Binding!Source(f)) = <<"source", f[1]>>
         /\ Binding!Prefix(Binding!Output(f)) = <<"output", f[1]>>
         /\ \A g : Binding!Source(f) = Binding!Source(g) => f = g
BY DEF Binding!Items, Binding!Source, Binding!Output, Binding!Prefix

LEMMA BindingBegins == ASSUME Binding!Init, PartsAssumption PROVE BindingInv
<1>1. /\ bindingVersion = [f \in Binding!Files |-> 0] /\ bindingStat = bindingVersion /\ copy = bindingVersion /\ bindingPacked = bindingVersion
      /\ res = {} /\ lists = [m \in ResModules |-> {}] /\ replaced = {} /\ prefixes = {} /\ bindingTodo = {}
      /\ overwritten = {} /\ bindingPhase = "idle" /\ failure = "none" /\ bindingBuilds = 0
  BY DEF Binding!Init
<1>2. PICK absent \in SUBSET Late : bindingMapper = (UNION {ResDirs[m] : m \in BindingModules}) \ absent
  BY DEF Binding!Init
<1>3. BindingModules \subseteq ResModules /\ MaxBindingEdits \in Nat /\ MaxBindingBuilds \in Nat
  BY DEF PartsAssumption, Binding!DataBindingAssumption
<1>4. bindingMapper \subseteq Binding!AllDirs
  BY <1>2, <1>3 DEF Binding!AllDirs
<1>5. Binding!TypeOK
  <2>1. bindingVersion \in [Binding!Files -> 0..MaxBindingEdits]
    BY <1>1, <1>3
  <2> QED BY <1>1, <1>3, <1>4, <2>1 DEF Binding!TypeOK
<1>6. ASSUME NEW f \in Binding!Files PROVE FileInv(f)
  <2>1. bindingVersion[f] = 0 /\ bindingStat[f] = 0 /\ copy[f] = 0 /\ bindingPacked[f] = 0
    BY <1>1
  <2> QED BY <1>1, <2>1 DEF FileInv
<1>7. CopiesMade
  <2>1. \A d : d \in bindingMapper <=> (\E m \in BindingModules : d \in ResDirs[m]) /\ d \notin absent
    BY <1>2
  <2> QED BY <1>1, <2>1 DEF CopiesMade
<1>8. ListsKept
  BY <1>1 DEF ListsKept
<1>9. Binding!PreparationFails
  BY <1>1 DEF Binding!PreparationFails
<1> QED BY <1>5, <1>6, <1>7, <1>8, <1>9 DEF BindingInv

LEMMA VersionsAreNumbers ==
  ASSUME Binding!TypeOK, PartsAssumption, NEW f \in Binding!Files
  PROVE  bindingVersion[f] \in Nat /\ bindingStat[f] \in Nat /\ bindingPacked[f] \in Nat /\ copy[f] \in Nat
<1>1. \A n \in 0..MaxBindingEdits : n \in Nat
  BY DEF PartsAssumption, Binding!DataBindingAssumption
<1> QED BY <1>1 DEF Binding!TypeOK

LEMMA EditStep ==
  ASSUME BindingInv, PartsAssumption, NEW e \in Binding!Files, Binding!Edit(e)
  PROVE  BindingInv'
<1>1. PICK n \in 1..MaxBindingEdits : bindingVersion[e] < n /\ bindingVersion' = [bindingVersion EXCEPT ![e] = n]
  BY DEF Binding!Edit
<1>2. /\ bindingPhase = "idle"
      /\ UNCHANGED <<bindingStat, copy, bindingPacked, bindingMapper, res, lists, replaced, prefixes,
                     bindingTodo, overwritten, bindingPhase, failure, bindingBuilds>>
  BY DEF Binding!Edit, Binding!cache, Binding!working
<1>3. Binding!TypeOK'
  <2>1. bindingVersion' \in [Binding!Files -> 0..MaxBindingEdits]
    BY <1>1 DEF BindingInv, Binding!TypeOK
  <2> QED BY <1>2, <2>1 DEF BindingInv, Binding!TypeOK
<1>4. ASSUME NEW f \in Binding!Files PROVE FileInv(f)'
  <2>1. bindingVersion[f] \in Nat /\ bindingStat[f] \in Nat /\ bindingPacked[f] \in Nat /\ copy[f] \in Nat
    BY VersionsAreNumbers DEF BindingInv
  <2>3. bindingVersion' = [bindingVersion EXCEPT ![e] = n] /\ bindingVersion \in [Binding!Files -> 0..MaxBindingEdits]
    BY <1>1 DEF BindingInv, Binding!TypeOK
  <2>4. bindingVersion'[f] = bindingVersion[f] \/ (bindingVersion'[f] \in Nat /\ bindingVersion'[f] > bindingVersion[f])
    BY <1>1, <2>3
  <2>2. FileInv(f)
    BY DEF BindingInv
  <2> QED BY <1>2, <2>1, <2>2, <2>4 DEF FileInv, Changed, Hidden, Binding!HasCopy, Binding!IdFile
<1>5. CopiesMade' /\ ListsKept' /\ Binding!PreparationFails'
  BY <1>2 DEF BindingInv, CopiesMade, ListsKept, Binding!PreparationFails, Binding!IdFile
<1> QED BY <1>3, <1>4, <1>5 DEF BindingInv

LEMMA ScanStep ==
  ASSUME BindingInv, PartsAssumption, Binding!Scan
  PROVE  BindingInv'
<1>1. /\ bindingPhase = "idle" /\ bindingPhase' = "scanned" /\ failure' = "none"
      /\ bindingBuilds' \in 0..MaxBindingBuilds
      /\ UNCHANGED <<bindingVersion, bindingStat, copy, bindingPacked, bindingMapper, bindingTodo, overwritten>>
      /\ replaced' = {} /\ prefixes' = {"source"} \X Binding!AllDirs
      /\ res' = {Binding!Source(f) : f \in {g \in Binding!Files : Changed(g)}}
      /\ lists' = [m \in ResModules |-> IF m = MainModule THEN {}
                     ELSE {f \in {g \in Binding!Files : Changed(g)} : Binding!Owner(f[1]) = m}]
  BY DEF Binding!Scan, Binding!project, Binding!cache, Binding!MergedResPaths, Changed, BindingInv,
         Binding!TypeOK, PartsAssumption, Binding!DataBindingAssumption
<1>2. res' \subseteq Binding!Items /\ \A item \in res' : Binding!Prefix(item) \in prefixes'
  <2> SUFFICES ASSUME NEW f \in Binding!Files
               PROVE  Binding!Source(f) \in Binding!Items /\ Binding!Prefix(Binding!Source(f)) \in prefixes'
    BY <1>1
  <2> QED BY <1>1, FilesNameItems, FilesHaveOwners
<1>3. \A m \in ResModules : lists'[m] \subseteq ResDirs[m] \X {"layout", "ids"}
  BY <1>1, FilesHaveOwners
<1>4. Binding!TypeOK'
  BY <1>1, <1>2, <1>3 DEF BindingInv, Binding!TypeOK
<1>5. ASSUME NEW f \in Binding!Files PROVE FileInv(f)'
  <2>1. FileInv(f)
    BY DEF BindingInv
  <2>2. Changed(f) => Binding!Source(f) \in res'
    BY <1>1
  <2> QED BY <1>1, <2>1, <2>2 DEF FileInv, Changed, Hidden, Binding!HasCopy, Binding!IdFile
<1>6. CopiesMade' /\ Binding!PreparationFails'
  BY <1>1 DEF BindingInv, CopiesMade, Binding!PreparationFails
<1>7. ListsKept'
  BY <1>1, <1>2 DEF BindingInv, ListsKept, Changed
<1> QED BY <1>4, <1>5, <1>6, <1>7 DEF BindingInv

LEMMA CheckIdsStep ==
  ASSUME BindingInv, PartsAssumption, Binding!CheckIdsChange
  PROVE  BindingInv'
<1>1. /\ bindingPhase = "scanned" /\ bindingPhase' = "binding"
      /\ bindingTodo' = {place \in BindingModules \X Binding!AllDirs : place[2] \in ResDirs[place[1]]}
      /\ UNCHANGED <<bindingVersion, bindingStat, copy, bindingPacked, bindingMapper, lists, replaced, prefixes,
                     overwritten, failure, bindingBuilds>>
  BY DEF Binding!CheckIdsChange, Binding!project, Binding!cache
<1>2. PICK s : res' = res \ Binding!TakenOff(s)
  BY DEF Binding!CheckIdsChange
<1>3. res' \subseteq res /\ \A item \in res \ res' : Binding!IsId(item)
  BY <1>2 DEF Binding!TakenOff
<1>4. Binding!TypeOK'
  BY <1>1, <1>3 DEF BindingInv, Binding!TypeOK
<1>5. ASSUME NEW f \in Binding!Files PROVE FileInv(f)'
  <2>1. FileInv(f)
    BY DEF BindingInv
  <2>2. Changed(f) /\ ~Binding!IdFile(f) => Binding!Source(f) \in res'
    BY <1>1, <1>3, <2>1, FilesNameItems DEF FileInv, Binding!IsId, Binding!IdFile
  <2>3. Binding!HasCopy(f) => Waits(f)'
    <3> SUFFICES ASSUME Binding!HasCopy(f) PROVE Waits(f)'
      OBVIOUS
    <3>1. PICK m \in BindingModules : f[1] \in ResDirs[m]
      BY DEF BindingInv, CopiesMade, Binding!HasCopy
    <3>2. m \in ResModules
      BY DEF PartsAssumption, Binding!DataBindingAssumption
    <3> QED BY <1>1, <3>1, <3>2, Owners DEF Waits
  <2> QED BY <1>1, <2>1, <2>2, <2>3 DEF FileInv, Changed, Hidden, Binding!HasCopy, Binding!IdFile
<1>6. CopiesMade' /\ Binding!PreparationFails'
  BY <1>1 DEF BindingInv, CopiesMade, Binding!PreparationFails, Binding!IdFile
<1>7. ListsKept'
  BY <1>1, <1>3 DEF BindingInv, ListsKept, Changed
<1> QED BY <1>4, <1>5, <1>6, <1>7 DEF BindingInv


\* What waits in the phase "binding" is what the tool is given when its directory is
\* looked at.
LEMMA WaitingIsGiven ==
  ASSUME BindingInv, PartsAssumption, bindingPhase = "binding",
         NEW f \in Binding!Files, Binding!HasCopy(f), ~Binding!IdFile(f), copy[f] # bindingVersion[f]
  PROVE  /\ Waits(f) /\ Binding!Source(f) \in res
         /\ f \in Binding!ResourceFiles(Binding!Owner(f[1]))
<1>1. Waits(f) /\ Changed(f) /\ Binding!Source(f) \in res
  BY DEF BindingInv, FileInv
<1>2. CASE Binding!Owner(f[1]) = MainModule
  BY <1>1, <1>2, FilesNameItems DEF Binding!ResourceFiles
<1>3. CASE Binding!Owner(f[1]) # MainModule
  <2>1. lists[Binding!Owner(f[1])] = {g \in Binding!Files : Changed(g) /\ Binding!Owner(g[1]) = Binding!Owner(f[1])}
    BY <1>3, FilesHaveOwners DEF BindingInv, ListsKept
  <2> QED BY <1>1, <1>3, <2>1 DEF Binding!ResourceFiles
<1> QED BY <1>1, <1>2, <1>3

\* A directory that waits is of the module it waits for.
LEMMA PlaceOfModule ==
  ASSUME BindingInv, PartsAssumption, NEW m, NEW d, <<m, d>> \in bindingTodo
  PROVE  /\ m \in BindingModules /\ m \in ResModules /\ d \in ResDirs[m] /\ d \in Binding!AllDirs
         /\ Binding!Owner(d) = m
<1>1. m \in BindingModules /\ d \in ResDirs[m]
  <2>1. <<m, d>> \in BindingModules \X Binding!AllDirs /\ <<m, d>>[2] \in ResDirs[<<m, d>>[1]]
    BY DEF BindingInv, ListsKept, Binding!TypeOK
  <2> QED BY <2>1
<1>2. m \in ResModules
  BY <1>1 DEF PartsAssumption, Binding!DataBindingAssumption
<1> QED BY <1>1, <1>2, Owners

LEMMA UnchangedStep ==
  ASSUME BindingInv, PartsAssumption, NEW m, NEW d, Binding!Unchanged(m, d)
  PROVE  BindingInv'
<1>1. /\ bindingPhase = "binding" /\ <<m, d>> \in bindingTodo /\ bindingTodo' = bindingTodo \ {<<m, d>>}
      /\ UNCHANGED <<bindingVersion, bindingStat, copy, bindingPacked, bindingMapper, res, lists, replaced, prefixes,
                     overwritten, bindingPhase, failure, bindingBuilds>>
      /\ {f \in Binding!ResourceFiles(m) : f[1] = d} = {}
  BY DEF Binding!Unchanged, Binding!project, Binding!cache
<1>2. Binding!Owner(d) = m
  BY <1>1, PlaceOfModule
<1>3. Binding!TypeOK'
  BY <1>1 DEF BindingInv, Binding!TypeOK
<1>4. ASSUME NEW f \in Binding!Files PROVE FileInv(f)'
  <2>1. FileInv(f)
    BY DEF BindingInv
  <2>2. Binding!HasCopy(f) /\ ~Binding!IdFile(f) /\ copy[f] # bindingVersion[f] => Waits(f)'
    <3> SUFFICES ASSUME Binding!HasCopy(f), ~Binding!IdFile(f), copy[f] # bindingVersion[f] PROVE Waits(f)'
      OBVIOUS
    <3>1. Waits(f) /\ f \in Binding!ResourceFiles(Binding!Owner(f[1]))
      BY <1>1, WaitingIsGiven
    <3>2. f[1] # d
      BY <1>1, <1>2, <3>1
    <3> QED BY <1>1, <3>1, <3>2 DEF Waits
  <2>3. Waits(f)' => Waits(f)
    BY <1>1 DEF Waits
  <2> QED BY <1>1, <2>1, <2>2, <2>3 DEF FileInv, Changed, Hidden, Renamed, Binding!HasCopy, Binding!IdFile
<1>5. CopiesMade' /\ ListsKept' /\ Binding!PreparationFails'
  BY <1>1 DEF BindingInv, CopiesMade, ListsKept, Changed, Binding!PreparationFails, Binding!IdFile
<1> QED BY <1>3, <1>4, <1>5 DEF BindingInv

\* A build that ends, or fails, leaves everything but the copies.
LEMMA BuildEndsStep ==
  ASSUME BindingInv, PartsAssumption, bindingPhase # "idle", bindingPhase' = "idle",
         failure' \in {"none", "tool", "code"}, failure' = "code" => Binding!PreparationFails',
         UNCHANGED <<bindingVersion, bindingPacked, bindingMapper, res, lists, replaced, prefixes, bindingTodo,
                     bindingBuilds>>,
         bindingStat' \in [Binding!Files -> 0..MaxBindingEdits], copy' \in [Binding!Files -> 0..MaxBindingEdits],
         overwritten' \subseteq overwritten \cup (Late \ bindingMapper), overwritten' \subseteq Binding!AllDirs,
         NEW S \in SUBSET Binding!Files,
         bindingStat' = [f \in Binding!Files |-> IF f \in S THEN bindingVersion[f] ELSE bindingStat[f]],
         S # {} => bindingPhase = "recovered" /\ copy' = copy,
         \A f \in Binding!Files : copy'[f] = copy[f] \/ copy'[f] = bindingVersion[f]
  PROVE  BindingInv'
<1>1. Binding!TypeOK'
  BY DEF BindingInv, Binding!TypeOK
<1>2. ASSUME NEW f \in Binding!Files PROVE FileInv(f)'
  <2>1. FileInv(f)
    BY DEF BindingInv
  <2>2. bindingVersion[f] \in Nat /\ bindingStat[f] \in Nat /\ bindingPacked[f] \in Nat /\ copy[f] \in Nat
    BY VersionsAreNumbers DEF BindingInv
  <2>3. CASE f \in S
    <3>1. bindingStat'[f] = bindingVersion[f] /\ bindingPhase = "recovered" /\ copy' = copy
      BY <2>3
    <3> QED BY <2>1, <2>2, <3>1 DEF FileInv, Changed, Hidden, Renamed, Binding!HasCopy, Binding!IdFile
  <2>4. CASE f \notin S
    <3>1. bindingStat'[f] = bindingStat[f]
      BY <2>4
    <3> QED BY <2>1, <2>2, <3>1 DEF FileInv, Changed, Hidden, Renamed, Binding!HasCopy, Binding!IdFile
  <2> QED BY <2>3, <2>4
<1>3. CopiesMade' /\ ListsKept'
  BY DEF BindingInv, CopiesMade, ListsKept
<1>4. Binding!PreparationFails'
  BY DEF Binding!PreparationFails
<1> QED BY <1>1, <1>2, <1>3, <1>4 DEF BindingInv

LEMMA FailStep ==
  ASSUME BindingInv, PartsAssumption, bindingPhase # "idle", NEW why \in {"tool", "code"}, Binding!Fails(why),
         why = "code" => \E m \in BindingModules \ {MainModule} : \E f \in lists[m] : Binding!IdFile(f),
         copy' \in [Binding!Files -> 0..MaxBindingEdits],
         overwritten' \subseteq overwritten \cup (Late \ bindingMapper), overwritten' \subseteq Binding!AllDirs,
         \A f \in Binding!Files : copy'[f] = copy[f] \/ copy'[f] = bindingVersion[f]
  PROVE  BindingInv'
<1>1. /\ bindingPhase' = "idle" /\ failure' = why
      /\ UNCHANGED <<bindingVersion, bindingStat, bindingPacked, bindingMapper, res, lists, replaced, prefixes,
                     bindingTodo, bindingBuilds>>
  BY DEF Binding!Fails, Binding!project, Binding!working
<1>2. bindingStat \in [Binding!Files -> 0..MaxBindingEdits]
  BY DEF BindingInv, Binding!TypeOK
<1>3. bindingStat' = [f \in Binding!Files |-> IF f \in {} THEN bindingVersion[f] ELSE bindingStat[f]]
  BY <1>1, <1>2
<1>4. failure' = "code" => Binding!PreparationFails'
  BY <1>1 DEF Binding!PreparationFails, Binding!IdFile
<1>5. bindingStat' \in [Binding!Files -> 0..MaxBindingEdits] /\ {} \in SUBSET Binding!Files
  BY <1>1, <1>2
<1>6. bindingPhase' = "idle" /\ failure' \in {"none", "tool", "code"}
  BY <1>1
<1>7. UNCHANGED <<bindingVersion, bindingPacked, bindingMapper, res, lists, replaced, prefixes, bindingTodo,
                  bindingBuilds>>
  BY <1>1
<1> HIDE DEF BindingInv
<1> QED BY <1>3, <1>4, <1>5, <1>6, <1>7, BuildEndsStep

\* What the tool is given are files of the directory.
LEMMA GivenFiles ==
  ASSUME BindingInv, PartsAssumption, bindingPhase = "binding", NEW m, NEW d, <<m, d>> \in bindingTodo,
         NEW f \in Binding!ResourceFiles(m), f[1] = d
  PROVE  /\ f \in Binding!Files
         /\ Binding!Source(f) \in res \/ (m # MainModule /\ f \in lists[m] /\ Binding!IdFile(f))
<1>1. m \in ResModules /\ Binding!Owner(d) = m
  BY PlaceOfModule
<1>2. CASE m = MainModule
  <2>1. PICK item \in res : item[1] = "source" /\ f = item[2]
    BY <1>2 DEF Binding!ResourceFiles
  <2>2. item \in Binding!Items
    BY DEF BindingInv, Binding!TypeOK
  <2> QED BY <2>1, <2>2, ItemsNameFiles
<1>3. CASE m # MainModule
  <2>1. f \in lists[m] /\ f \in Binding!Files /\ Changed(f)
    BY <1>1, <1>3 DEF Binding!ResourceFiles, BindingInv, ListsKept
  <2>2. FileInv(f) /\ Waits(f)
    BY <1>1, <2>1 DEF BindingInv, Waits
  <2> QED BY <1>3, <2>1, <2>2 DEF FileInv
<1> QED BY <1>2, <1>3

\* The directories the tool writes into.
LEMMA WrittenDirs ==
  ASSUME BindingInv, PartsAssumption, NEW m, NEW d, <<m, d>> \in bindingTodo,
         overwritten' = overwritten \cup ({d} \ bindingMapper)
  PROVE  /\ overwritten' \subseteq overwritten \cup (Late \ bindingMapper)
         /\ overwritten' \subseteq Binding!AllDirs
<1>1. m \in BindingModules /\ d \in ResDirs[m] /\ d \in Binding!AllDirs
  BY PlaceOfModule
<1> QED BY <1>1 DEF BindingInv, CopiesMade, Binding!TypeOK

LEMMA ProcessStep ==
  ASSUME BindingInv, PartsAssumption, NEW m, NEW d, Binding!Process(m, d)
  PROVE  BindingInv'
<1> DEFINE fs == {f \in Binding!ResourceFiles(m) : f[1] = d}
<1>1. bindingPhase = "binding" /\ <<m, d>> \in bindingTodo /\ overwritten' = overwritten \cup ({d} \ bindingMapper)
  BY DEF Binding!Process
<1>2. /\ overwritten' \subseteq overwritten \cup (Late \ bindingMapper)
      /\ overwritten' \subseteq Binding!AllDirs
  BY <1>1, WrittenDirs
<1>3. m \in BindingModules /\ m \in ResModules /\ Binding!Owner(d) = m
  BY <1>1, PlaceOfModule
<1>4. \A f \in fs : f \in Binding!Files /\ f[1] = d
  BY <1>1, GivenFiles
<1>5. ASSUME NEW c, c = copy \/ c = Binding!Processed(fs, d)
      PROVE  /\ c \in [Binding!Files -> 0..MaxBindingEdits]
             /\ \A f \in Binding!Files : c[f] = copy[f] \/ c[f] = bindingVersion[f]
  <2>1. copy \in [Binding!Files -> 0..MaxBindingEdits] /\ bindingVersion \in [Binding!Files -> 0..MaxBindingEdits]
    BY DEF BindingInv, Binding!TypeOK
  <2> QED BY <1>5, <2>1 DEF Binding!Processed
<1>6. copy' = copy \/ copy' = Binding!Processed(fs, d)
  BY DEF Binding!Process
<1>7. CASE Binding!Fails("tool")
  BY <1>1, <1>2, <1>5, <1>6, <1>7, FailStep
<1>8. CASE Binding!Fails("code") /\ \E f \in fs : Binding!Source(f) \notin res
  <2>1. PICK f \in fs : Binding!Source(f) \notin res
    BY <1>8
  <2>2. m # MainModule /\ f \in lists[m] /\ Binding!IdFile(f)
    BY <1>1, <2>1, GivenFiles
  <2>3. \E k \in BindingModules \ {MainModule} : \E g \in lists[k] : Binding!IdFile(g)
    BY <1>3, <2>2
  <2> QED BY <1>1, <1>2, <1>5, <1>6, <1>8, <2>3, FailStep
<1>9. CASE /\ copy' = Binding!Processed(fs, d)
           /\ res' = (res \ {Binding!Source(f) : f \in fs}) \cup {<<Binding!Target(d), f>> : f \in fs}
           /\ replaced' = replaced \cup fs
           /\ prefixes' = prefixes \cup {<<Binding!Target(d), d>>}
           /\ bindingTodo' = bindingTodo \ {<<m, d>>}
           /\ UNCHANGED <<bindingVersion, bindingStat, bindingPacked, bindingMapper, lists, bindingPhase, failure,
                          bindingBuilds>>
  <2>1. \A f \in fs : /\ <<Binding!Target(d), f>> \in Binding!Items
                      /\ Binding!Prefix(<<Binding!Target(d), f>>) = <<Binding!Target(d), d>>
    BY <1>4 DEF Binding!Items, Binding!Target, Binding!Prefix
  <2>2. d \in Binding!AllDirs /\ Binding!Target(d) \in {"source", "output"}
    BY <1>1, PlaceOfModule DEF Binding!Target
  <2>3. Binding!TypeOK'
    <3>1. res' \subseteq Binding!Items
      BY <1>9, <2>1 DEF BindingInv, Binding!TypeOK
    <3>2. prefixes' \subseteq {"source", "output"} \X Binding!AllDirs
      BY <1>9, <2>2 DEF BindingInv, Binding!TypeOK
    <3>3. replaced' \subseteq Binding!Files
      BY <1>4, <1>9 DEF BindingInv, Binding!TypeOK
    <3>4. copy' \in [Binding!Files -> 0..MaxBindingEdits]
      BY <1>5, <1>9
    <3> QED BY <1>2, <1>9, <3>1, <3>2, <3>3, <3>4 DEF BindingInv, Binding!TypeOK
  <2>4. ASSUME NEW f \in Binding!Files PROVE FileInv(f)'
    <3>1. FileInv(f)
      BY DEF BindingInv
    <3>2. copy'[f] = IF f \in fs /\ d \in bindingMapper THEN bindingVersion[f] ELSE copy[f]
      BY <1>9 DEF Binding!Processed
    <3>3. Binding!HasCopy(f) /\ ~Binding!IdFile(f) /\ copy'[f] # bindingVersion[f] => Waits(f)'
      <4> SUFFICES ASSUME Binding!HasCopy(f), ~Binding!IdFile(f), copy'[f] # bindingVersion[f] PROVE Waits(f)'
        OBVIOUS
      <4>1. copy[f] # bindingVersion[f]
        BY <3>2
      <4>2. Waits(f) /\ f \in Binding!ResourceFiles(Binding!Owner(f[1]))
        BY <1>1, <4>1, WaitingIsGiven
      <4>3. f[1] # d
        BY <1>3, <3>2, <4>2 DEF Binding!HasCopy
      <4> QED BY <1>9, <4>2, <4>3 DEF Waits
    <3>4. Waits(f)' => Waits(f) /\ f[1] # d
      BY <1>3, <1>9 DEF Waits
    <3>5. f \notin fs => (Binding!Source(f) \in res => Binding!Source(f) \in res')
                         /\ (Binding!Output(f) \in res => Binding!Output(f) \in res')
      <4>1. \A g \in fs : Binding!Source(g) = Binding!Source(f) => f = g
        BY FilesNameItems
      <4>2. \A g \in fs : Binding!Source(g) # Binding!Output(f)
        BY DEF Binding!Source, Binding!Output
      <4> QED BY <1>9, <4>1, <4>2
    <3>6. f \in fs => f \in replaced' /\ (Binding!Source(f) \in res' \/ Binding!Output(f) \in res')
      BY <1>9 DEF Binding!Target, Binding!Source, Binding!Output
    <3>7. f \in fs => f[1] = d
      OBVIOUS
    <3> HIDE DEF fs
    <3>8. (Binding!Source(f) \in res \/ Renamed(f)) => (Binding!Source(f) \in res' \/ Renamed(f)')
      BY <1>9, <3>5, <3>6 DEF Renamed
    <3>9. Waits(f)' /\ Binding!Source(f) \in res => Binding!Source(f) \in res'
      BY <3>4, <3>5, <3>7
    <3>10. copy'[f] # bindingVersion[f] => copy[f] # bindingVersion[f]
      BY <3>2
    <3>11. Binding!Source(f)' = Binding!Source(f)
      BY DEF Binding!Source
    <3> QED BY <1>1, <1>9, <3>1, <3>3, <3>4, <3>8, <3>9, <3>10, <3>11
            DEF FileInv, Changed, Hidden, Binding!HasCopy, Binding!IdFile
  <2>5. CopiesMade' /\ Binding!PreparationFails'
    BY <1>2, <1>9 DEF BindingInv, CopiesMade, Binding!PreparationFails, Binding!IdFile
  <2>6. ListsKept'
    <3>1. \A item \in res' : Binding!Prefix(item) \in prefixes'
      BY <1>1, <1>9, <2>1 DEF BindingInv, ListsKept
    <3> QED BY <1>9, <3>1 DEF BindingInv, ListsKept, Changed
  <2> QED BY <2>3, <2>4, <2>5, <2>6 DEF BindingInv
<1> QED BY <1>7, <1>8, <1>9 DEF Binding!Process, Binding!project


LEMMA BindingEndsStep == ASSUME BindingInv, PartsAssumption, Binding!BindingEnds PROVE BindingInv'
<1>1. /\ bindingPhase = "binding" /\ bindingPhase' = "bound" /\ bindingTodo = {}
      /\ UNCHANGED <<bindingVersion, bindingStat, copy, bindingPacked, bindingMapper, res, lists, replaced, prefixes,
                     bindingTodo, overwritten, failure, bindingBuilds>>
  BY DEF Binding!BindingEnds, Binding!project, Binding!cache, Binding!working
<1>2. Binding!TypeOK'
  BY <1>1 DEF BindingInv, Binding!TypeOK
<1>3. ASSUME NEW f \in Binding!Files PROVE FileInv(f)'
  <2>1. FileInv(f) /\ ~Waits(f)
    BY <1>1 DEF BindingInv, Waits
  <2> QED BY <1>1, <2>1 DEF FileInv, Changed, Hidden, Renamed, Binding!HasCopy, Binding!IdFile
<1>4. CopiesMade' /\ ListsKept' /\ Binding!PreparationFails'
  BY <1>1 DEF BindingInv, CopiesMade, ListsKept, Changed, Binding!PreparationFails, Binding!IdFile
<1> QED BY <1>2, <1>3, <1>4 DEF BindingInv

LEMMA PackStep == ASSUME BindingInv, PartsAssumption, Binding!Aapt PROVE BindingInv'
<1>1. bindingPhase = "bound"
  BY DEF Binding!Aapt
<1>2. Binding!RelativePathsFound
  BY <1>1 DEF BindingInv, ListsKept, Binding!RelativePathsFound
<1>3. CASE Binding!Fails("tool") /\ UNCHANGED <<copy, overwritten>>
  <2>1. copy' \in [Binding!Files -> 0..MaxBindingEdits] /\ overwritten' \subseteq Binding!AllDirs
    BY <1>3 DEF BindingInv, Binding!TypeOK
  <2> QED BY <1>1, <1>3, <2>1, FailStep
<1>4. CASE /\ bindingPacked' = [f \in Binding!Files |-> IF f[1] \in bindingMapper THEN copy[f] ELSE bindingVersion[f]]
           /\ bindingPhase' = "packed"
           /\ UNCHANGED <<bindingVersion, bindingStat, copy, bindingMapper, res, lists, replaced, prefixes,
                          bindingTodo, overwritten, failure, bindingBuilds>>
  <2>1. Binding!TypeOK'
    <3>1. bindingPacked' \in [Binding!Files -> 0..MaxBindingEdits]
      BY <1>4 DEF BindingInv, Binding!TypeOK
    <3> QED BY <1>4, <3>1 DEF BindingInv, Binding!TypeOK
  <2>2. ASSUME NEW f \in Binding!Files PROVE FileInv(f)'
    <3>1. FileInv(f)
      BY DEF BindingInv
    <3>2. bindingPacked'[f] = IF f[1] \in bindingMapper THEN copy[f] ELSE bindingVersion[f]
      BY <1>4
    <3>3. bindingPacked'[f] = bindingVersion[f] \/ Hidden(f)
      BY <1>1, <3>1, <3>2 DEF FileInv, Hidden, Binding!HasCopy
    <3> QED BY <1>1, <1>4, <3>1, <3>3 DEF FileInv, Changed, Hidden, Renamed, Binding!HasCopy, Binding!IdFile
  <2>3. CopiesMade' /\ ListsKept' /\ Binding!PreparationFails'
    BY <1>1, <1>4 DEF BindingInv, CopiesMade, ListsKept, Changed, Binding!PreparationFails, Binding!IdFile
  <2> QED BY <2>1, <2>2, <2>3 DEF BindingInv
<1> QED BY <1>2, <1>3, <1>4 DEF Binding!Aapt, Binding!project, Binding!working

LEMMA RecoverStep == ASSUME BindingInv, PartsAssumption, Binding!RecoverOriginalFilePath PROVE BindingInv'
<1> DEFINE outputs == {item \in res : item[2] \in replaced}
<1>1. /\ bindingPhase = "packed" /\ bindingPhase' = "recovered"
      /\ res' = (res \ outputs) \cup {Binding!Source(item[2]) : item \in outputs}
      /\ UNCHANGED <<bindingVersion, bindingStat, copy, bindingPacked, bindingMapper, lists, replaced, prefixes,
                     bindingTodo, overwritten, failure, bindingBuilds>>
  BY DEF Binding!RecoverOriginalFilePath, Binding!project, Binding!cache
<1>2. Binding!TypeOK'
  <2>1. \A item \in outputs : Binding!Source(item[2]) \in Binding!Items
    BY ItemsNameFiles, FilesNameItems DEF BindingInv, Binding!TypeOK
  <2>2. res' \subseteq Binding!Items
    BY <1>1, <2>1 DEF BindingInv, Binding!TypeOK
  <2> QED BY <1>1, <2>2 DEF BindingInv, Binding!TypeOK
<1>3. ASSUME NEW f \in Binding!Files PROVE FileInv(f)'
  <2>1. FileInv(f)
    BY DEF BindingInv
  <2>2. Binding!Source(f) \in res \/ Renamed(f) => Binding!Source(f) \in res'
    BY <1>1, FilesNameItems DEF Renamed
  <2>3. Binding!Source(f)' = Binding!Source(f)
    BY DEF Binding!Source
  <2> HIDE DEF outputs
  <2> QED BY <1>1, <2>1, <2>2, <2>3 DEF FileInv, Changed, Hidden, Binding!HasCopy, Binding!IdFile
<1>4. CopiesMade' /\ ListsKept' /\ Binding!PreparationFails'
  BY <1>1 DEF BindingInv, CopiesMade, ListsKept, Changed, Binding!PreparationFails, Binding!IdFile
<1> QED BY <1>2, <1>3, <1>4 DEF BindingInv

\* The files whose stat is recorded.
Recorded == {item[2] : item \in {x \in res : x[1] = "source"}} \cup UNION {lists[m] : m \in ResModules}

LEMMA RecordedFiles ==
  ASSUME BindingInv
  PROVE  /\ Recorded \in SUBSET Binding!Files
         /\ \A f : Binding!Source(f) \in res => f \in Recorded
         /\ \A m \in ResModules : lists[m] \subseteq Recorded
<1>1. \A item \in res : item[2] \in Binding!Files
  BY ItemsNameFiles DEF BindingInv, Binding!TypeOK
<1>2. \A m \in ResModules : lists[m] \subseteq Binding!Files
  BY DEF BindingInv, ListsKept
<1>3. \A f : f \in Recorded <=> \/ \E item \in res : item[1] = "source" /\ f = item[2]
                                \/ \E m \in ResModules : f \in lists[m]
  BY DEF Recorded
<1>4. \A f : Binding!Source(f)[1] = "source" /\ Binding!Source(f)[2] = f
  BY DEF Binding!Source
<1> QED BY <1>1, <1>2, <1>3, <1>4

LEMMA UpdateStatStep ==
  ASSUME BindingInv, PartsAssumption, Binding!UpdateStat
  PROVE  /\ BindingInv'
         /\ \A f \in Binding!Files :
              bindingStat'[f] = bindingVersion[f] \/ (Binding!IdFile(f) /\ Binding!Owner(f[1]) = MainModule)
<1>1. /\ bindingPhase = "recovered" /\ bindingPhase' = "idle"
      /\ bindingStat' = [f \in Binding!Files |-> IF f \in Recorded THEN bindingVersion[f] ELSE bindingStat[f]]
      /\ UNCHANGED <<bindingVersion, copy, bindingPacked, bindingMapper, res, lists, replaced, prefixes,
                     bindingTodo, overwritten, failure, bindingBuilds>>
  BY DEF Binding!UpdateStat, Recorded, Binding!cache, Binding!working
<1>2. Recorded \in SUBSET Binding!Files
  BY RecordedFiles
<1>3. bindingStat' \in [Binding!Files -> 0..MaxBindingEdits] /\ copy' \in [Binding!Files -> 0..MaxBindingEdits]
  BY <1>1 DEF BindingInv, Binding!TypeOK
<1>4. failure' \in {"none", "tool", "code"} /\ overwritten' \subseteq Binding!AllDirs
  BY <1>1 DEF BindingInv, Binding!TypeOK
<1>5. failure' = "code" => Binding!PreparationFails'
  BY <1>1 DEF BindingInv, Binding!PreparationFails, Binding!IdFile
<1>6. overwritten' \subseteq overwritten \cup (Late \ bindingMapper)
  BY <1>1
<1>7. \A f \in Binding!Files : copy'[f] = copy[f] \/ copy'[f] = bindingVersion[f]
  BY <1>1
<1>8. UNCHANGED <<bindingVersion, bindingPacked, bindingMapper, res, lists, replaced, prefixes, bindingTodo,
                  bindingBuilds>>
  BY <1>1
<1>9. bindingPhase # "idle" /\ bindingPhase' = "idle"
  BY <1>1
<1>10. Recorded # {} => bindingPhase = "recovered" /\ copy' = copy
  BY <1>1
<1>11. BindingInv'
  <2> HIDE DEF BindingInv, Recorded
  <2> QED BY <1>1, <1>2, <1>3, <1>4, <1>5, <1>6, <1>7, <1>8, <1>9, <1>10, BuildEndsStep
<1>12. ASSUME NEW f \in Binding!Files, ~(Binding!IdFile(f) /\ Binding!Owner(f[1]) = MainModule)
       PROVE  bindingStat'[f] = bindingVersion[f]
  <2>1. FileInv(f) /\ bindingVersion[f] \in Nat /\ bindingStat[f] \in Nat
    BY VersionsAreNumbers DEF BindingInv
  <2>2. CASE ~Changed(f)
    BY <1>1, <2>1, <2>2 DEF Changed, FileInv
  <2>3. CASE Changed(f) /\ Binding!Owner(f[1]) # MainModule
    <3>1. Binding!Owner(f[1]) \in ResModules
      BY FilesHaveOwners
    <3>2. f \in lists[Binding!Owner(f[1])]
      BY <1>1, <2>3, <3>1 DEF BindingInv, ListsKept
    <3> QED BY <1>1, <3>1, <3>2, RecordedFiles
  <2>4. CASE Changed(f) /\ Binding!Owner(f[1]) = MainModule
    <3>1. Binding!Source(f) \in res
      BY <1>1, <1>12, <2>1, <2>4 DEF FileInv
    <3> QED BY <1>1, <3>1, RecordedFiles
  <2> QED BY <2>2, <2>3, <2>4
<1> QED BY <1>11, <1>12

LEMMA LaterTaskFailsStep == ASSUME BindingInv, PartsAssumption, Binding!LaterTaskFails PROVE BindingInv'
<1>1. bindingPhase = "recovered" /\ Binding!Fails("tool") /\ copy' = copy /\ overwritten' = overwritten
  BY DEF Binding!LaterTaskFails
<1>2. copy' \in [Binding!Files -> 0..MaxBindingEdits] /\ overwritten' \subseteq Binding!AllDirs
  BY <1>1 DEF BindingInv, Binding!TypeOK
<1> QED BY <1>1, <1>2, FailStep

LEMMA BindingStutters == ASSUME BindingInv, UNCHANGED bindingVars PROVE BindingInv'
<1>1. UNCHANGED <<bindingVersion, bindingStat, copy, bindingPacked, bindingMapper, res, lists, replaced, prefixes,
                  bindingTodo, overwritten, bindingPhase, failure, bindingBuilds>>
  BY DEF bindingVars
<1>2. Binding!TypeOK'
  BY <1>1 DEF BindingInv, Binding!TypeOK
<1>3. \A f \in Binding!Files : FileInv(f)'
  BY <1>1 DEF BindingInv, FileInv, Changed, Hidden, Renamed, Waits, Binding!HasCopy, Binding!IdFile
<1>4. CopiesMade' /\ ListsKept' /\ Binding!PreparationFails'
  BY <1>1 DEF BindingInv, CopiesMade, ListsKept, Changed, Binding!PreparationFails, Binding!IdFile
<1> QED BY <1>2, <1>3, <1>4 DEF BindingInv

LEMMA BindingStep ==
  ASSUME BindingInv, PartsAssumption, [Binding!Next]_bindingVars
  PROVE  /\ BindingInv'
         /\ bindingPhase = "recovered" /\ bindingPhase' = "idle" /\ failure' = "none" =>
              \A f \in Binding!Files :
                bindingStat'[f] = bindingVersion[f] \/ (Binding!IdFile(f) /\ Binding!Owner(f[1]) = MainModule)
<1>1. CASE Binding!Next /\ bindingPhase # "recovered"
  <2>1. ASSUME NEW f \in Binding!Files, Binding!Edit(f) PROVE BindingInv'
    BY <2>1, EditStep
  <2>2. ASSUME NEW m \in BindingModules, NEW d \in Binding!AllDirs, Binding!Unchanged(m, d) \/ Binding!Process(m, d)
        PROVE  BindingInv'
    BY <2>2, UnchangedStep, ProcessStep
  <2>3. ~Binding!UpdateStat /\ ~Binding!LaterTaskFails
    BY <1>1 DEF Binding!UpdateStat, Binding!LaterTaskFails
  <2> QED BY <1>1, <2>1, <2>2, <2>3, ScanStep, CheckIdsStep, BindingEndsStep, PackStep, RecoverStep DEF Binding!Next
<1>2. CASE Binding!Next /\ bindingPhase = "recovered"
  <2>1. \A f \in Binding!Files : ~Binding!Edit(f)
    BY <1>2 DEF Binding!Edit
  <2>2. ~Binding!Scan /\ ~Binding!CheckIdsChange /\ ~Binding!BindingEnds /\ ~Binding!Aapt
        /\ ~Binding!RecoverOriginalFilePath
    BY <1>2 DEF Binding!Scan, Binding!CheckIdsChange, Binding!BindingEnds, Binding!Aapt,
                Binding!RecoverOriginalFilePath
  <2>3. \A m, d : ~Binding!Unchanged(m, d) /\ ~Binding!Process(m, d)
    BY <1>2 DEF Binding!Unchanged, Binding!Process
  <2>4. Binding!UpdateStat \/ Binding!LaterTaskFails
    BY <1>2, <2>1, <2>2, <2>3 DEF Binding!Next
  <2>5. Binding!LaterTaskFails => failure' # "none"
    BY DEF Binding!LaterTaskFails, Binding!Fails
  <2> QED BY <2>4, <2>5, UpdateStatStep, LaterTaskFailsStep
<1>3. CASE UNCHANGED bindingVars
  BY <1>3, BindingStutters DEF bindingVars
<1> QED BY <1>1, <1>2, <1>3

\* What the runs check of data binding follows from the invariant.
LEMMA BindingInvSuffices ==
  ASSUME BindingInv
  PROVE  /\ Binding!TypeOK /\ Binding!PackIsCurrent /\ Binding!RecordedIsBuilt
         /\ Binding!PreparationFails /\ Binding!SourcesAreLeftAlone
<1>1. Binding!PackIsCurrent
  BY DEF BindingInv, FileInv, Hidden, Binding!PackIsCurrent
<1>2. Binding!RecordedIsBuilt
  <2> SUFFICES ASSUME NEW f \in Binding!Files PROVE bindingPacked[f] >= bindingStat[f] \/ Hidden(f)
    BY DEF Binding!RecordedIsBuilt, Hidden
  <2>1. FileInv(f)
    BY DEF BindingInv
  <2> QED BY <2>1 DEF FileInv
<1>3. Binding!SourcesAreLeftAlone
  BY DEF BindingInv, CopiesMade, Binding!SourcesAreLeftAlone
<1> QED BY <1>1, <1>2, <1>3 DEF BindingInv


-----------------------------------------------------------------------------
(***************************************************************************)
(* The order of the directories.                                           *)
(***************************************************************************)
LEMMA LeastPlace ==
  ASSUME NEW S \in SUBSET (Nat \ {0}), S # {}
  PROVE  LET k == CHOOSE k \in S : \A l \in S : k <= l IN k \in S /\ \A l \in S : k <= l
<1> DEFINE T == {1..k : k \in S}
<1>1. \A k \in S : 1..k \in FiniteSubsetsOf(Nat)
  <2> SUFFICES ASSUME NEW k \in S PROVE 1..k \in FiniteSubsetsOf(Nat)
    OBVIOUS
  <2>1. IsFiniteSet(1..k)
    BY FS_Interval
  <2> QED BY <2>1 DEF FiniteSubsetsOf
<1>2. PICK t \in T : \A u \in T : ~(<<u, t>> \in StrictSubsetOrdering(Nat))
  <2>1. T \subseteq FiniteSubsetsOf(Nat) /\ T # {}
    BY <1>1
  <2>2. IsWellFoundedOn(StrictSubsetOrdering(Nat), FiniteSubsetsOf(Nat))
    BY FS_StrictSubsetOrderingWellFounded
  <2> HIDE DEF T
  <2> QED BY <2>1, <2>2, WFMin
<1>3. PICK k \in S : t = 1..k
  OBVIOUS
<1>4. ASSUME NEW l \in S PROVE k <= l
  <2>1. 1..l \in T
    OBVIOUS
  <2>2. ~(<<1..l, 1..k>> \in StrictSubsetOrdering(Nat))
    BY <1>2, <1>3, <2>1
  <2>3. k \in Nat /\ l \in Nat /\ k > 0
    OBVIOUS
  <2>4. l < k => 1..l \subseteq 1..k /\ 1..l # 1..k /\ 1..l \in SUBSET Nat /\ 1..k \in SUBSET Nat
    <3> SUFFICES ASSUME l < k PROVE 1..l \subseteq 1..k /\ 1..l # 1..k
      BY <2>3
    <3>1. k \in 1..k /\ k \notin 1..l
      BY <2>3
    <3> QED BY <2>3, <3>1
  <2> QED BY <2>2, <2>3, <2>4 DEF StrictSubsetOrdering
<1>5. \E j \in S : \A l \in S : j <= l
  BY <1>4
<1> QED BY <1>5

\* The first directory that defines the resource, if there is one.
LEMMA FirstFound ==
  ASSUME NEW T, NEW dirs \in Seq(T)
  PROVE  /\ ~Overlay!Among(Overlay!ToSet(dirs)) => Overlay!First(dirs) = None
         /\ Overlay!Among(Overlay!ToSet(dirs)) => \E k \in DOMAIN dirs :
              /\ Overlay!First(dirs) = dirs[k] /\ Overlay!Defined(dirs[k])
              /\ \A l \in DOMAIN dirs : Overlay!Defined(dirs[l]) => k <= l
<1> DEFINE S == {k \in DOMAIN dirs : Overlay!Defined(dirs[k])}
<1>1. Overlay!Among(Overlay!ToSet(dirs)) <=> S # {}
  BY DEF Overlay!Among, Overlay!ToSet
<1>2. Overlay!First(dirs) = IF S = {} THEN None ELSE dirs[CHOOSE k \in S : \A l \in S : k <= l]
  BY DEF Overlay!First
<1>3. S \in SUBSET (Nat \ {0})
  BY LenProperties
<1>4. CASE S # {}
  <2> DEFINE k == CHOOSE k \in S : \A l \in S : k <= l
  <2>1. k \in S /\ \A l \in S : k <= l
    <3> HIDE DEF S
    <3> QED BY <1>3, <1>4, LeastPlace
  <2>2. Overlay!First(dirs) = dirs[k]
    BY <1>2, <1>4
  <2> HIDE DEF k
  <2> QED BY <1>1, <1>4, <2>1, <2>2
<1>5. CASE S = {}
  BY <1>1, <1>2, <1>5
<1> QED BY <1>4, <1>5

LEMMA Joined ==
  ASSUME NEW T, NEW a \in Seq(T), NEW b \in Seq(T)
  PROVE  /\ a \o b \in Seq(T)
         /\ Overlay!ToSet(a \o b) = Overlay!ToSet(a) \cup Overlay!ToSet(b)
         /\ Overlay!Among(Overlay!ToSet(a \o b)) <=>
              Overlay!Among(Overlay!ToSet(a)) \/ Overlay!Among(Overlay!ToSet(b))
<1>1. /\ a \o b \in Seq(T) /\ Len(a \o b) = Len(a) + Len(b)
      /\ DOMAIN (a \o b) = 1..(Len(a) + Len(b)) /\ DOMAIN a = 1..Len(a) /\ DOMAIN b = 1..Len(b)
      /\ Len(a) \in Nat /\ Len(b) \in Nat
      /\ \A i \in 1..(Len(a) + Len(b)) : (a \o b)[i] = IF i <= Len(a) THEN a[i] ELSE b[i - Len(a)]
  BY ConcatProperties, LenProperties
<1>2. ASSUME NEW d \in Overlay!ToSet(a \o b) PROVE d \in Overlay!ToSet(a) \cup Overlay!ToSet(b)
  <2>1. PICK i \in 1..(Len(a) + Len(b)) : d = (a \o b)[i]
    BY <1>1 DEF Overlay!ToSet
  <2> QED BY <1>1, <2>1 DEF Overlay!ToSet
<1>3. ASSUME NEW d \in Overlay!ToSet(a) PROVE d \in Overlay!ToSet(a \o b)
  <2>1. PICK i \in 1..Len(a) : d = a[i]
    BY <1>1 DEF Overlay!ToSet
  <2>2. i \in 1..(Len(a) + Len(b)) /\ (a \o b)[i] = d
    BY <1>1, <2>1
  <2> QED BY <1>1, <2>2 DEF Overlay!ToSet
<1>4. ASSUME NEW d \in Overlay!ToSet(b) PROVE d \in Overlay!ToSet(a \o b)
  <2>1. PICK i \in 1..Len(b) : d = b[i]
    BY <1>1 DEF Overlay!ToSet
  <2>2. i + Len(a) \in 1..(Len(a) + Len(b)) /\ (a \o b)[i + Len(a)] = d
    BY <1>1, <2>1
  <2> QED BY <1>1, <2>2 DEF Overlay!ToSet
<1>5. Overlay!ToSet(a \o b) = Overlay!ToSet(a) \cup Overlay!ToSet(b)
  BY <1>2, <1>3, <1>4
<1> QED BY <1>1, <1>5 DEF Overlay!Among

LEMMA FirstJoined ==
  ASSUME NEW T, NEW a \in Seq(T), NEW b \in Seq(T)
  PROVE  Overlay!First(a \o b) =
           IF Overlay!Among(Overlay!ToSet(a)) THEN Overlay!First(a) ELSE Overlay!First(b)
<1>1. /\ a \o b \in Seq(T) /\ Len(a \o b) = Len(a) + Len(b)
      /\ DOMAIN (a \o b) = 1..(Len(a) + Len(b)) /\ DOMAIN a = 1..Len(a) /\ DOMAIN b = 1..Len(b)
      /\ Len(a) \in Nat /\ Len(b) \in Nat
      /\ \A i \in 1..(Len(a) + Len(b)) : (a \o b)[i] = IF i <= Len(a) THEN a[i] ELSE b[i - Len(a)]
  BY ConcatProperties, LenProperties
<1>2. CASE Overlay!Among(Overlay!ToSet(a))
  <2>1. PICK k \in DOMAIN a : /\ Overlay!First(a) = a[k] /\ Overlay!Defined(a[k])
                              /\ \A l \in DOMAIN a : Overlay!Defined(a[l]) => k <= l
    BY <1>1, <1>2, FirstFound
  <2>2. PICK j \in DOMAIN (a \o b) :
          /\ Overlay!First(a \o b) = (a \o b)[j] /\ Overlay!Defined((a \o b)[j])
          /\ \A l \in DOMAIN (a \o b) : Overlay!Defined((a \o b)[l]) => j <= l
    <3>1. Overlay!Among(Overlay!ToSet(a \o b))
      BY <1>2, Joined
    <3> QED BY <1>1, <3>1, FirstFound
  <2>3. j <= k
    BY <1>1, <2>1, <2>2
  <2>4. (a \o b)[j] = a[j] /\ j \in DOMAIN a
    BY <1>1, <2>1, <2>2, <2>3
  <2>5. k <= j
    BY <2>1, <2>2, <2>4
  <2>6. j = k
    BY <1>1, <2>1, <2>2, <2>3, <2>5
  <2> QED BY <1>2, <2>1, <2>2, <2>4, <2>6
<1>3. CASE ~Overlay!Among(Overlay!ToSet(a)) /\ ~Overlay!Among(Overlay!ToSet(b))
  <2>1. ~Overlay!Among(Overlay!ToSet(a \o b))
    BY <1>3, Joined
  <2>2. Overlay!First(a \o b) = None /\ Overlay!First(b) = None
    BY <1>1, <1>3, <2>1, FirstFound
  <2> QED BY <1>3, <2>2
<1>4. CASE ~Overlay!Among(Overlay!ToSet(a)) /\ Overlay!Among(Overlay!ToSet(b))
  <2>1. PICK k \in DOMAIN b : /\ Overlay!First(b) = b[k] /\ Overlay!Defined(b[k])
                              /\ \A l \in DOMAIN b : Overlay!Defined(b[l]) => k <= l
    BY <1>1, <1>4, FirstFound
  <2>2. PICK j \in DOMAIN (a \o b) :
          /\ Overlay!First(a \o b) = (a \o b)[j] /\ Overlay!Defined((a \o b)[j])
          /\ \A l \in DOMAIN (a \o b) : Overlay!Defined((a \o b)[l]) => j <= l
    <3>1. Overlay!Among(Overlay!ToSet(a \o b))
      BY <1>4, Joined
    <3> QED BY <1>1, <3>1, FirstFound
  <2>3. \A i \in DOMAIN a : ~Overlay!Defined(a[i])
    BY <1>4 DEF Overlay!Among, Overlay!ToSet
  <2>4. j > Len(a) /\ (a \o b)[j] = b[j - Len(a)] /\ j - Len(a) \in DOMAIN b
    BY <1>1, <2>2, <2>3
  <2>5. k + Len(a) \in DOMAIN (a \o b) /\ (a \o b)[k + Len(a)] = b[k]
    BY <1>1, <2>1
  <2>6. j <= k + Len(a) /\ k <= j - Len(a)
    BY <2>1, <2>2, <2>4, <2>5
  <2>7. j - Len(a) = k
    BY <1>1, <2>1, <2>2, <2>6
  <2> QED BY <1>4, <2>1, <2>2, <2>4, <2>7
<1> QED BY <1>2, <1>3, <1>4

\* What the two commands find, by the kinds of directories.
ModuleDirs == MainDirs \o LocalDirs

LEMMA DirsAreSequences ==
  ASSUME PartsAssumption
  PROVE  /\ MainDirs \in Seq(Overlay!Dirs) /\ LocalDirs \in Seq(Overlay!Dirs)
         /\ DepDirs \in Seq(Overlay!Dirs) /\ ExtraDirs \in Seq(Overlay!Dirs)
         /\ <<Backup>> \in Seq(Overlay!Dirs) /\ ModuleDirs \in Seq(Overlay!Dirs)
<1>1. Backup \in Overlay!Dirs
  BY DEF Overlay!Dirs
<1>2. \A dirs \in {MainDirs, LocalDirs, DepDirs, ExtraDirs} : dirs \in Seq(Overlay!Dirs)
  BY DEF PartsAssumption, Overlay!ResourceOverlayAssumption
<1> HIDE DEF Overlay!Dirs
<1>3. MainDirs \in Seq(Overlay!Dirs) /\ LocalDirs \in Seq(Overlay!Dirs)
      /\ DepDirs \in Seq(Overlay!Dirs) /\ ExtraDirs \in Seq(Overlay!Dirs)
  BY <1>2
<1>4. ModuleDirs \in Seq(Overlay!Dirs)
  BY <1>3, Joined DEF ModuleDirs
<1>5. <<Backup>> \in Seq(Overlay!Dirs)
  BY <1>1
<1> QED BY <1>3, <1>4, <1>5

LEMMA FoundByCommand ==
  ASSUME PartsAssumption, NEW a, NEW b, {a, b} = {DepDirs, ExtraDirs}
  PROVE  Overlay!First(((ModuleDirs \o a) \o b) \o <<Backup>>) =
           IF Overlay!Among(Overlay!ToSet(ModuleDirs)) THEN Overlay!First(ModuleDirs)
           ELSE IF Overlay!Among(Overlay!ToSet(a)) THEN Overlay!First(a)
           ELSE IF Overlay!Among(Overlay!ToSet(b)) THEN Overlay!First(b)
           ELSE Overlay!First(<<Backup>>)
<1>1. /\ ModuleDirs \in Seq(Overlay!Dirs) /\ a \in Seq(Overlay!Dirs) /\ b \in Seq(Overlay!Dirs)
      /\ <<Backup>> \in Seq(Overlay!Dirs)
  <2>1. a \in {DepDirs, ExtraDirs} /\ b \in {DepDirs, ExtraDirs}
    OBVIOUS
  <2> QED BY <2>1, DirsAreSequences
<1> DEFINE two == ModuleDirs \o a
           three == two \o b
<1>2. two \in Seq(Overlay!Dirs) /\ three \in Seq(Overlay!Dirs)
  BY <1>1, Joined
<1>3. Overlay!First(two) = IF Overlay!Among(Overlay!ToSet(ModuleDirs)) THEN Overlay!First(ModuleDirs)
                           ELSE Overlay!First(a)
  BY <1>1, FirstJoined
<1>4. Overlay!Among(Overlay!ToSet(two)) <=>
        Overlay!Among(Overlay!ToSet(ModuleDirs)) \/ Overlay!Among(Overlay!ToSet(a))
  BY <1>1, Joined
<1> HIDE DEF two
<1>5. Overlay!First(three) = IF Overlay!Among(Overlay!ToSet(two)) THEN Overlay!First(two)
                             ELSE Overlay!First(b)
  BY <1>1, <1>2, FirstJoined
<1>6. Overlay!Among(Overlay!ToSet(three)) <=>
        Overlay!Among(Overlay!ToSet(two)) \/ Overlay!Among(Overlay!ToSet(b))
  BY <1>1, <1>2, Joined
<1>7. Overlay!First(three \o <<Backup>>) =
        IF Overlay!Among(Overlay!ToSet(three)) THEN Overlay!First(three) ELSE Overlay!First(<<Backup>>)
  <2> HIDE DEF three
  <2> QED BY <1>1, <1>2, FirstJoined
<1> QED BY <1>3, <1>4, <1>5, <1>6, <1>7 DEF two

\* A resource that a sequence of directories defines is taken from one of them.
LEMMA FirstIsAmong ==
  ASSUME NEW T, NEW a \in Seq(T), Overlay!Among(Overlay!ToSet(a))
  PROVE  Overlay!First(a) \in Overlay!ToSet(a)
<1>1. DOMAIN a = 1..Len(a) /\ Len(a) \in Nat
  BY LenProperties
<1>2. PICK k \in DOMAIN a : Overlay!First(a) = a[k]
  BY <1>1, FirstFound
<1> QED BY <1>2 DEF Overlay!ToSet

OverlayInv == Overlay!TypeOK /\ defines \cap overlayMapper \subseteq copied

LEMMA FirstIsDir ==
  ASSUME NEW T, NEW a \in Seq(T)
  PROVE  Overlay!First(a) \in T \cup {None}
<1>1. DOMAIN a = 1..Len(a) /\ Len(a) \in Nat /\ \A k \in DOMAIN a : a[k] \in T
  BY LenProperties, ElementOfSeq
<1> QED BY <1>1, FirstFound

LEMMA CommandsGiveDirs ==
  ASSUME PartsAssumption
  PROVE  /\ Overlay!First(Overlay!IncDirs) \in Overlay!Dirs \cup {None}
         /\ Overlay!First(Overlay!BaseDirs) \in Overlay!Dirs \cup {None}
<1>1. Overlay!IncDirs \in Seq(Overlay!Dirs) /\ Overlay!BaseDirs \in Seq(Overlay!Dirs)
  BY DirsAreSequences, Joined DEF Overlay!IncDirs, Overlay!BaseDirs, ModuleDirs
<1> QED BY <1>1, FirstIsDir

LEMMA OverlayBegins == ASSUME Overlay!Init, PartsAssumption PROVE OverlayInv
<1>1. /\ defines \subseteq Overlay!Dirs /\ copied = defines \cap overlayMapper /\ overlayEdits = 0
      /\ base = Overlay!First(Overlay!BaseDirs) /\ overlayPack = base
      /\ overlayMapper \in {{}, Overlay!ToSet(MainDirs), Overlay!ToSet(ModuleDirs)}
  BY DEF Overlay!Init, ModuleDirs
<1>2. \A a \in Seq(Overlay!Dirs) : Overlay!ToSet(a) \subseteq Overlay!Dirs
  BY LenProperties, ElementOfSeq DEF Overlay!ToSet
<1>3. overlayMapper \subseteq Overlay!Dirs
  BY <1>1, <1>2, DirsAreSequences
<1>4. 0 \in 0..MaxOverlayEdits
  BY DEF PartsAssumption, Overlay!ResourceOverlayAssumption
<1> QED BY <1>1, <1>3, <1>4, CommandsGiveDirs DEF OverlayInv, Overlay!TypeOK

LEMMA OverlayStep ==
  ASSUME OverlayInv, PartsAssumption, [Overlay!Next]_overlayVars
  PROVE  /\ OverlayInv'
         /\ overlayPack \in Overlay!ToSet(ModuleDirs) /\ overlayPack' \notin Overlay!ToSet(ModuleDirs) =>
              \A d \in Overlay!ToSet(ModuleDirs) : d \notin defines /\ d \notin copied
<1>1. CASE Overlay!IncrementalPack
  <2>1. /\ overlayPack' = Overlay!First(Overlay!IncDirs)
        /\ UNCHANGED <<defines, overlayMapper, copied, base, overlayEdits>>
    BY <1>1 DEF Overlay!IncrementalPack
  <2>2. OverlayInv'
    BY <2>1, CommandsGiveDirs DEF OverlayInv, Overlay!TypeOK
  <2>3. ASSUME overlayPack' \notin Overlay!ToSet(ModuleDirs), NEW d \in Overlay!ToSet(ModuleDirs)
        PROVE  d \notin defines /\ d \notin copied
    <3>1. overlayPack' = Overlay!First(((ModuleDirs \o DepDirs) \o ExtraDirs) \o <<Backup>>)
      BY <2>1 DEF Overlay!IncDirs, ModuleDirs
    <3>2. ~Overlay!Among(Overlay!ToSet(ModuleDirs))
      BY <2>3, <3>1, FoundByCommand, FirstIsAmong, DirsAreSequences
    <3>3. ~Overlay!Defined(d)
      BY <3>2 DEF Overlay!Among
    <3> QED BY <3>3 DEF Overlay!Defined, OverlayInv, Overlay!TypeOK
  <2> QED BY <2>2, <2>3
<1>2. ASSUME NEW d \in EditedDirs, Overlay!Edit(d)
      PROVE  OverlayInv' /\ overlayPack' = overlayPack
  <2>1. overlayEdits' \in 0..MaxOverlayEdits /\ d \in Overlay!Dirs
    BY <1>2 DEF Overlay!Edit, OverlayInv, Overlay!TypeOK, PartsAssumption, Overlay!ResourceOverlayAssumption
  <2> QED BY <1>2, <2>1 DEF Overlay!Edit, OverlayInv, Overlay!TypeOK
<1>3. CASE UNCHANGED overlayVars
  BY <1>3 DEF overlayVars, OverlayInv, Overlay!TypeOK
<1> QED BY <1>1, <1>2, <1>3 DEF Overlay!Next, overlayVars

LEMMA OverlayInvSuffices ==
  ASSUME OverlayInv, PartsAssumption
  PROVE  Overlay!TypeOK /\ Overlay!SamePlaceInBothPacks
<1>1. Overlay!IncDirs = ((ModuleDirs \o DepDirs) \o ExtraDirs) \o <<Backup>>
      /\ Overlay!BaseDirs = ((ModuleDirs \o ExtraDirs) \o DepDirs) \o <<Backup>>
  BY DEF Overlay!IncDirs, Overlay!BaseDirs, ModuleDirs
<1>2. Overlay!First(Overlay!IncDirs) # Overlay!First(Overlay!BaseDirs) =>
        /\ Overlay!Among(Overlay!ToSet(DepDirs)) /\ Overlay!Among(Overlay!ToSet(ExtraDirs))
        /\ ~Overlay!Among(Overlay!ToSet(ModuleDirs))
  BY <1>1, FoundByCommand
<1> QED BY <1>2 DEF OverlayInv, Overlay!SamePlaceInBothPacks, ModuleDirs


-----------------------------------------------------------------------------
(***************************************************************************)
(* The classes of the patch.  A class that is written after retrolambda    *)
(* has seen it is no older than the recorded time.  A source the scan does *)
(* not find changed has its class in the patch and in the dex, or the      *)
(* clean build's is right; so has, after a build that succeeded, a         *)
(* generated file that is not what the clean build generated.              *)
(***************************************************************************)
Holds(x, f) == x # None /\ x.content = content[f]
Built(x, f) == (x # None /\ x.content = content[f]) \/ (x = None /\ content[f] = 0)

Lowered(f) ==
  /\ classesStat[f] # None => classesStat[f] <= now
  /\ classes[f] # None /\ classesStat[f] # None => classes[f].lowered \/ classes[f].mtime >= classesStat[f]
  /\ classesPhase = "dx" /\ classes[f] # None =>
       classes[f].lowered \/ (classesStat[f] # None /\ classes[f].mtime = classesStat[f])

IsCompiled(f) ==
  /\ f \in dirty => content[f] # None
  /\ classesPhase \in {"apt", "javac"} /\ f \in compile => content[f] # None
  /\ classesPhase \in {"retrolambda", "dx", "done"} /\ f \in compile =>
       classes[f] # None /\ classes[f].content = content[f]

SourceBuilt(f) ==
  f \in Sources /\ f \notin dirty /\ content[f] # None => Built(classes[f], f) /\ Built(classesDex[f], f)

GeneratedBuilt(f) ==
  f \in Generated /\ content[f] # None /\ content[f] # aptCache[f] =>
    /\ classesPhase = "javac" /\ classesLayouts => Holds(classes[f], f)
    /\ classesPhase \in {"retrolambda", "dx", "done"} => Holds(classes[f], f)
    /\ classesPhase = "done" \/ (classesPhase = "idle" /\ ~classesFailed) => Holds(classesDex[f], f)

IsTaken(f) ==
  classesPhase # "idle" => /\ f \in dirty => f \in compile
                           /\ f \in Sources /\ f \in compile => f \in dirty
                           /\ f \in Generated /\ f \in compile => classesLayouts

PatchInv ==
  /\ Patch!TypeOK
  /\ \A f \in Patch!Files : Lowered(f) /\ IsCompiled(f) /\ SourceBuilt(f) /\ GeneratedBuilt(f) /\ IsTaken(f)
  /\ classesPhase = "apt" => classesLayouts /\ compile \cap Generated = {}
  /\ classesPhase = "done" => compile = {} \/ classesDex = classes

LEMMA PatchTypes ==
  ASSUME Patch!TypeOK, PartsAssumption, NEW f \in Patch!Files
  PROVE  /\ now \in Nat /\ now \in 0..MaxTime
         /\ classesStat[f] # None => classesStat[f] \in Nat
         /\ classes[f] # None => /\ classes[f] \in Patch!Class /\ classes[f].mtime \in Nat
                                 /\ classes[f].content \in Contents /\ classes[f].lowered \in BOOLEAN
         /\ content[f] # None => content[f] \in Contents
<1>1. \A n \in 0..MaxTime : n \in Nat
  BY DEF PartsAssumption, Patch!PatchClassesAssumption
<1> QED BY <1>1 DEF Patch!TypeOK, Patch!Class

LEMMA PatchFiles ==
  ASSUME PartsAssumption, NEW f \in Patch!Files
  PROVE  (f \in Sources /\ f \notin Generated) \/ (f \in Generated /\ f \notin Sources)
BY DEF Patch!Files, PartsAssumption, Patch!PatchClassesAssumption

LEMMA PatchBegins == ASSUME Patch!Init, PartsAssumption PROVE PatchInv
<1>1. /\ aptCache \in [Generated -> {0, None}]
      /\ content = [f \in Patch!Files |-> IF f \in Generated THEN aptCache[f] ELSE 0]
      /\ dirty = {} /\ classesLayouts = FALSE /\ compile = {}
      /\ classes = [f \in Patch!Files |-> None] /\ classesStat = classes /\ classesDex = classes
      /\ now = 0 /\ classesPhase = "idle" /\ classesFailed = FALSE /\ classesEdits = 0 /\ classesBuilds = 0
  BY DEF Patch!Init
<1>2. 0 \in 0..MaxTime /\ 0 \in 0..MaxClassesEdits /\ 0 \in 0..MaxClassesBuilds /\ 0 \in Contents
  BY DEF PartsAssumption, Patch!PatchClassesAssumption
<1>3. ASSUME NEW f \in Patch!Files
      PROVE  /\ classes[f] = None /\ classesStat[f] = None /\ classesDex[f] = None
             /\ content[f] = IF f \in Generated THEN aptCache[f] ELSE 0
             /\ content[f] \in Contents \cup {None}
  BY <1>1, <1>2
<1>4. Patch!TypeOK
  <2>1. content \in [Patch!Files -> Contents \cup {None}]
    BY <1>1, <1>3
  <2>2. aptCache \in [Generated -> Contents \cup {None}]
    BY <1>1, <1>2
  <2> QED BY <1>1, <1>2, <1>3, <2>1, <2>2 DEF Patch!TypeOK
<1>5. ASSUME NEW f \in Patch!Files
      PROVE  Lowered(f) /\ IsCompiled(f) /\ SourceBuilt(f) /\ GeneratedBuilt(f) /\ IsTaken(f)
  BY <1>1, <1>3, PatchFiles DEF Lowered, IsCompiled, SourceBuilt, GeneratedBuilt, IsTaken, Built, Holds
<1> QED BY <1>1, <1>4, <1>5 DEF PatchInv

LEMMA PatchTickStep == ASSUME PatchInv, PartsAssumption, Patch!Tick PROVE PatchInv'
<1>1. /\ now' = now + 1 /\ now < MaxTime
      /\ UNCHANGED <<content, dirty, classesLayouts, aptCache, compile, classes, classesStat, classesDex,
                     classesPhase, classesFailed, classesEdits, classesBuilds>>
  BY DEF Patch!Tick, Patch!input, Patch!output
<1>2. Patch!TypeOK'
  <2>1. now' \in 0..MaxTime
    BY <1>1 DEF PatchInv, Patch!TypeOK, PartsAssumption, Patch!PatchClassesAssumption
  <2> QED BY <1>1, <2>1 DEF PatchInv, Patch!TypeOK
<1>3. ASSUME NEW f \in Patch!Files
      PROVE  (Lowered(f) /\ IsCompiled(f) /\ SourceBuilt(f) /\ GeneratedBuilt(f) /\ IsTaken(f))'
  <2>1. Lowered(f) /\ IsCompiled(f) /\ SourceBuilt(f) /\ GeneratedBuilt(f) /\ IsTaken(f)
    BY DEF PatchInv
  <2>2. now \in Nat /\ (classesStat[f] # None => classesStat[f] \in Nat)
    BY PatchTypes DEF PatchInv
  <2> QED BY <1>1, <2>1, <2>2 DEF Lowered, IsCompiled, SourceBuilt, GeneratedBuilt, IsTaken, Built, Holds
<1> QED BY <1>1, <1>2, <1>3 DEF PatchInv

LEMMA PatchEditStep == ASSUME PatchInv, PartsAssumption, Patch!Edit PROVE PatchInv'
<1>1. /\ classesPhase = "idle" /\ classesEdits' = classesEdits + 1 /\ classesEdits < MaxClassesEdits
      /\ UNCHANGED <<aptCache, compile, classes, classesStat, classesDex, now, classesPhase, classesFailed, classesBuilds>>
  BY DEF Patch!Edit, Patch!output
<1>2. classesEdits' \in 0..MaxClassesEdits
  BY <1>1 DEF PatchInv, Patch!TypeOK, PartsAssumption, Patch!PatchClassesAssumption
<1>3. ASSUME NEW g \in Sources, NEW c \in Contents \cup {None}, content' = [content EXCEPT ![g] = c],
             dirty' = IF c = None THEN dirty \ {g} ELSE dirty \cup {g}, classesLayouts' = classesLayouts
      PROVE  PatchInv'
  <2>1. content \in [Patch!Files -> Contents \cup {None}] /\ g \in Patch!Files
    BY DEF PatchInv, Patch!TypeOK, Patch!Files
  <2>2. \A f \in Patch!Files : content'[f] = IF f = g THEN c ELSE content[f]
    BY <1>3, <2>1
  <2>3. Patch!TypeOK'
    <3>1. content' \in [Patch!Files -> Contents \cup {None}]
      BY <1>3, <2>1
    <3> QED BY <1>1, <1>2, <1>3, <3>1 DEF PatchInv, Patch!TypeOK
  <2>4. ASSUME NEW f \in Patch!Files
        PROVE  (Lowered(f) /\ IsCompiled(f) /\ SourceBuilt(f) /\ GeneratedBuilt(f) /\ IsTaken(f))'
    <3>1. Lowered(f) /\ IsCompiled(f) /\ SourceBuilt(f) /\ GeneratedBuilt(f) /\ IsTaken(f)
      BY DEF PatchInv
    <3>2. CASE f = g
      <4>1. f \notin Generated
        BY <3>2, PatchFiles
      <4> QED BY <1>1, <1>3, <2>2, <3>1, <3>2, <4>1 DEF Lowered, IsCompiled, SourceBuilt, GeneratedBuilt, IsTaken, Built, Holds
    <3>3. CASE f # g
      <4>1. (f \in dirty' <=> f \in dirty) /\ content'[f] = content[f]
        BY <1>3, <2>2, <3>3
      <4> QED BY <1>1, <1>3, <3>1, <4>1 DEF Lowered, IsCompiled, SourceBuilt, GeneratedBuilt, IsTaken, Built, Holds
    <3> QED BY <3>2, <3>3
  <2> QED BY <1>1, <2>3, <2>4 DEF PatchInv
<1>4. CASE classesLayouts' = TRUE /\ UNCHANGED <<content, dirty>>
  <2>1. Patch!TypeOK'
    BY <1>1, <1>2, <1>4 DEF PatchInv, Patch!TypeOK
  <2>2. ASSUME NEW f \in Patch!Files
        PROVE  (Lowered(f) /\ IsCompiled(f) /\ SourceBuilt(f) /\ GeneratedBuilt(f) /\ IsTaken(f))'
    <3>1. Lowered(f) /\ IsCompiled(f) /\ SourceBuilt(f) /\ GeneratedBuilt(f) /\ IsTaken(f)
      BY DEF PatchInv
    <3> QED BY <1>1, <1>4, <3>1 DEF Lowered, IsCompiled, SourceBuilt, GeneratedBuilt, IsTaken, Built, Holds
  <2> QED BY <1>1, <2>1, <2>2 DEF PatchInv
<1>5. \A c \in Contents : c # None
  BY DEF PartsAssumption, Patch!PatchClassesAssumption
<1> QED BY <1>3, <1>4, <1>5 DEF Patch!Edit

LEMMA PatchStartStep == ASSUME PatchInv, PartsAssumption, Patch!StartBuild PROVE PatchInv'
<1>1. /\ classesPhase = "idle" /\ compile' = dirty /\ classesBuilds' = classesBuilds + 1
      /\ classesBuilds < MaxClassesBuilds
      /\ classesPhase' = IF classesLayouts THEN "apt" ELSE "javac"
      /\ UNCHANGED <<content, dirty, classesLayouts, aptCache, classes, classesStat, classesDex, now, classesFailed, classesEdits>>
  BY DEF Patch!StartBuild, Patch!FillClasspaths, Patch!input
<1>2. Patch!TypeOK'
  <2>1. classesBuilds' \in 0..MaxClassesBuilds
    BY <1>1 DEF PatchInv, Patch!TypeOK, PartsAssumption, Patch!PatchClassesAssumption
  <2> QED BY <1>1, <2>1 DEF PatchInv, Patch!TypeOK, Patch!Files
<1>3. ASSUME NEW f \in Patch!Files
      PROVE  (Lowered(f) /\ IsCompiled(f) /\ SourceBuilt(f) /\ GeneratedBuilt(f) /\ IsTaken(f))'
  <2>1. Lowered(f) /\ IsCompiled(f) /\ SourceBuilt(f) /\ GeneratedBuilt(f) /\ IsTaken(f)
    BY DEF PatchInv
  <2>2. f \in dirty => f \in Sources /\ f \notin Generated
    BY PatchFiles DEF PatchInv, Patch!TypeOK
  <2> QED BY <1>1, <2>1, <2>2 DEF Lowered, IsCompiled, SourceBuilt, GeneratedBuilt, IsTaken, Built, Holds
<1>4. dirty \cap Generated = {}
  BY DEF PatchInv, Patch!TypeOK, PartsAssumption, Patch!PatchClassesAssumption
<1> QED BY <1>1, <1>2, <1>3, <1>4 DEF PatchInv

LEMMA PatchFailsStep == ASSUME PatchInv, PartsAssumption, Patch!Fails PROVE PatchInv'
<1>1. /\ classesPhase' = "idle" /\ classesFailed' = TRUE
      /\ UNCHANGED <<content, dirty, classesLayouts, aptCache, compile, classes, classesStat, classesDex, now,
                     classesEdits, classesBuilds>>
  BY DEF Patch!Fails, Patch!input, Patch!output
<1>2. Patch!TypeOK'
  BY <1>1 DEF PatchInv, Patch!TypeOK
<1>3. ASSUME NEW f \in Patch!Files
      PROVE  (Lowered(f) /\ IsCompiled(f) /\ SourceBuilt(f) /\ GeneratedBuilt(f) /\ IsTaken(f))'
  <2>1. Lowered(f) /\ IsCompiled(f) /\ SourceBuilt(f) /\ GeneratedBuilt(f) /\ IsTaken(f)
    BY DEF PatchInv
  <2> QED BY <1>1, <2>1 DEF Lowered, IsCompiled, SourceBuilt, GeneratedBuilt, IsTaken, Built, Holds
<1> QED BY <1>1, <1>2, <1>3 DEF PatchInv

LEMMA PatchGenerates ==
  ASSUME PatchInv, PartsAssumption, Patch!Generates
  PROVE  /\ content' \in [Patch!Files -> Contents \cup {None}]
         /\ \A f \in Sources : content'[f] = content[f]
<1>1. PICK generated \in [Generated -> Contents \cup {None}] :
        content' = [f \in Patch!Files |-> IF f \in Generated THEN generated[f] ELSE content[f]]
  BY DEF Patch!Generates
<1>2. content' \in [Patch!Files -> Contents \cup {None}]
  BY <1>1 DEF PatchInv, Patch!TypeOK
<1>3. \A f \in Sources : f \in Patch!Files /\ f \notin Generated
  BY DEF PartsAssumption, Patch!PatchClassesAssumption, Patch!Files
<1> QED BY <1>1, <1>2, <1>3

\* What javac writes: a class of each file as it is.
LEMMA PatchWrites ==
  ASSUME PatchInv, PartsAssumption, NEW W \in SUBSET Patch!Files, Patch!Writes(W),
         content' \in [Patch!Files -> Contents \cup {None}],
         \A f \in W : content'[f] # None,
         NEW f \in Patch!Files
  PROVE  /\ f \in W => /\ classes'[f] \in Patch!Class /\ classes'[f] # None
                       /\ classes'[f].content = content'[f] /\ classes'[f].mtime = now
         /\ f \notin W => classes'[f] = classes[f]
<1>1. CASE f \in W
  <2>1. content'[f] \in Contents /\ now \in 0..MaxTime
    BY <1>1, PatchTypes DEF PatchInv
  <2>2. classes'[f] = [content |-> content'[f], mtime |-> now, lowered |-> FALSE]
    BY <1>1 DEF Patch!Writes
  <2>3. classes'[f] \in Patch!Class /\ classes'[f].content = content'[f] /\ classes'[f].mtime = now
    BY <2>1, <2>2 DEF Patch!Class
  <2>4. classes'[f] # None
    BY <2>3 DEF Patch!Class, PartsAssumption, Patch!PatchClassesAssumption
  <2> QED BY <1>1, <2>3, <2>4
<1>2. CASE f \notin W
  BY <1>2 DEF Patch!Writes
<1> QED BY <1>1, <1>2

\* The times stay in order, and a source keeps what it has of the patch.
LEMMA PatchWritesKeeps ==
  ASSUME PatchInv, PartsAssumption, NEW W \in SUBSET Patch!Files, Patch!Writes(W),
         content' \in [Patch!Files -> Contents \cup {None}],
         \A f \in W : content'[f] # None, \A f \in Sources : content'[f] = content[f],
         UNCHANGED <<dirty, classesStat, classesDex, now>>, classesPhase \in {"apt", "javac"},
         classesPhase' \in {"idle", "javac", "done", "retrolambda"},
         NEW f \in Patch!Files
  PROVE  Lowered(f)' /\ SourceBuilt(f)'
<1>1. Lowered(f) /\ SourceBuilt(f)
  BY DEF PatchInv
<1>2. now \in Nat /\ (classesStat[f] # None => classesStat[f] \in Nat)
  BY PatchTypes DEF PatchInv
<1>3. /\ f \in W => classes'[f] # None /\ classes'[f].content = content'[f] /\ classes'[f].mtime = now
      /\ f \notin W => classes'[f] = classes[f]
  BY PatchWrites
<1>4. Lowered(f)'
  BY <1>1, <1>2, <1>3 DEF Lowered
<1>5. SourceBuilt(f)'
  BY <1>1, <1>3 DEF SourceBuilt, Built
<1> QED BY <1>4, <1>5

LEMMA PatchAptStep == ASSUME PatchInv, PartsAssumption, Patch!RunAptOnly PROVE PatchInv'
<1>1. /\ classesPhase = "apt" /\ classesLayouts
      /\ Patch!Generates /\ Patch!Writes(Patch!Processed)
      /\ compile' = compile \cup {f \in Generated : Patch!Found(f)}
      /\ classesPhase' = IF compile' = {} THEN "done" ELSE "javac"
      /\ UNCHANGED <<dirty, classesLayouts, aptCache, classesStat, classesDex, now, classesFailed, classesEdits, classesBuilds>>
  BY DEF Patch!RunAptOnly, PatchInv
<1>2. /\ content' \in [Patch!Files -> Contents \cup {None}]
      /\ \A f \in Sources : content'[f] = content[f]
  BY <1>1, PatchGenerates
<1>3. Patch!Processed \in SUBSET Patch!Files /\ \A f \in Patch!Processed : content'[f] # None
  BY DEF Patch!Processed, PatchInv, Patch!TypeOK, Patch!Files, PartsAssumption, Patch!PatchClassesAssumption
<1>4. ASSUME NEW f \in Patch!Files
      PROVE  /\ f \in Patch!Processed => /\ classes'[f] \in Patch!Class /\ classes'[f] # None
                                         /\ classes'[f].content = content'[f]
             /\ f \notin Patch!Processed => classes'[f] = classes[f]
  BY <1>1, <1>2, <1>3, PatchWrites
<1>5. Patch!TypeOK'
  <2>1. compile' \subseteq Patch!Files /\ classesPhase' \in {"done", "javac"}
    BY <1>1 DEF PatchInv, Patch!TypeOK, Patch!Files
  <2>2. \A f \in Patch!Files : classes'[f] \in Patch!Class \cup {None}
    BY <1>4 DEF PatchInv, Patch!TypeOK
  <2> QED BY <1>1, <1>2, <2>1, <2>2 DEF PatchInv, Patch!TypeOK
<1>6. ASSUME NEW f \in Patch!Files
      PROVE  (Lowered(f) /\ IsCompiled(f) /\ SourceBuilt(f) /\ GeneratedBuilt(f) /\ IsTaken(f))'
  <2>1. Lowered(f) /\ IsCompiled(f) /\ SourceBuilt(f) /\ GeneratedBuilt(f) /\ IsTaken(f)
    BY DEF PatchInv
  <2>2. Lowered(f)' /\ SourceBuilt(f)'
    <3>1. classesPhase \in {"apt", "javac"} /\ classesPhase' \in {"idle", "javac", "done", "retrolambda"}
      BY <1>1
    <3> QED BY <1>1, <1>2, <1>3, <3>1, PatchWritesKeeps
  <2>3. CASE f \in Sources /\ f \notin Generated
    <3>1. content'[f] = content[f] /\ (f \in compile' <=> f \in compile)
      BY <1>1, <1>2, <2>3
    <3>2. classesPhase' = "done" => f \notin compile'
      BY <1>1
    <3>3. (IsCompiled(f) /\ GeneratedBuilt(f) /\ IsTaken(f))'
      BY <1>1, <2>1, <2>3, <3>1, <3>2 DEF IsCompiled, GeneratedBuilt, IsTaken
    <3> QED BY <2>2, <3>3
  <2>4. CASE f \in Generated /\ f \notin Sources
    <3>1. f \notin dirty
      BY <2>4 DEF PatchInv, Patch!TypeOK
    <3>2. f \notin compile
      BY <1>1, <2>4 DEF PatchInv
    <3>3. f \in compile' <=> content'[f] # None /\ content'[f] # aptCache[f]
      BY <1>1, <2>4, <3>2 DEF Patch!Found
    <3>4. content'[f] # None => classes'[f] # None /\ classes'[f].content = content'[f]
      BY <1>4, <2>4 DEF Patch!Processed
    <3>5. classesPhase' = "done" => f \notin compile'
      BY <1>1
    <3>6. IsCompiled(f)' /\ IsTaken(f)'
      BY <1>1, <2>4, <3>1, <3>3, <3>5 DEF IsCompiled, IsTaken
    <3>7. GeneratedBuilt(f)'
      BY <1>1, <2>4, <3>3, <3>4, <3>5 DEF GeneratedBuilt, Holds
    <3> QED BY <2>2, <3>6, <3>7
  <2> QED BY <2>3, <2>4, PatchFiles
<1>7. classesPhase' = "done" => compile' = {}
  BY <1>1
<1> QED BY <1>1, <1>5, <1>6, <1>7 DEF PatchInv

\* What javac is given: with the processor the generated files as well.
Given(W) ==
  /\ W \in SUBSET Patch!Files /\ Patch!Writes(W)
  /\ content' \in [Patch!Files -> Contents \cup {None}]
  /\ (\A f \in W : content'[f] # None) /\ \A f \in Sources : content'[f] = content[f]

LEMMA PatchJavacStep == ASSUME PatchInv, PartsAssumption, Patch!RunJavacTask PROVE PatchInv'
<1>1. /\ classesPhase = "javac" /\ classesPhase' = "retrolambda"
      /\ UNCHANGED <<dirty, classesLayouts, aptCache, compile, classesStat, classesDex, now, classesFailed,
                     classesEdits, classesBuilds>>
  BY DEF Patch!RunJavacTask
<1>2. \/ classesLayouts /\ content' = content /\ Patch!Writes(compile)
      \/ ~classesLayouts /\ Patch!Generates /\ Patch!Writes(Patch!Processed)
  BY DEF Patch!RunJavacTask
<1>3. compile \subseteq Patch!Files /\ \A f \in compile : content[f] # None
  BY <1>1 DEF PatchInv, Patch!TypeOK, IsCompiled
<1>4. \A f \in compile : ~classesLayouts => f \in Sources
  BY <1>1, <1>3, PatchFiles DEF PatchInv, IsTaken
<1>5. PICK W : /\ Given(W) /\ compile \subseteq W
               /\ ~classesLayouts => \A f \in Generated : content'[f] # None => f \in W
               /\ classesLayouts => content' = content
  <2>1. CASE classesLayouts /\ content' = content /\ Patch!Writes(compile)
    BY <1>3, <2>1 DEF Given, PatchInv, Patch!TypeOK
  <2>2. CASE ~classesLayouts /\ Patch!Generates /\ Patch!Writes(Patch!Processed)
    <3>1. content' \in [Patch!Files -> Contents \cup {None}] /\ \A f \in Sources : content'[f] = content[f]
      BY <2>2, PatchGenerates
    <3>2. Patch!Processed \in SUBSET Patch!Files /\ \A f \in Patch!Processed : content'[f] # None
      BY <1>3 DEF Patch!Processed, Patch!Files, PartsAssumption, Patch!PatchClassesAssumption
    <3>3. compile \subseteq Patch!Processed
      BY <1>3, <1>4, <2>2, <3>1 DEF Patch!Processed
    <3>4. \A f \in Generated : content'[f] # None => f \in Patch!Processed
      BY DEF Patch!Processed
    <3> QED BY <2>2, <3>1, <3>2, <3>3, <3>4 DEF Given
  <2> QED BY <1>2, <2>1, <2>2
<1>6. ASSUME NEW f \in Patch!Files
      PROVE  /\ f \in W => /\ classes'[f] \in Patch!Class /\ classes'[f] # None
                           /\ classes'[f].content = content'[f]
             /\ f \notin W => classes'[f] = classes[f]
  BY <1>5, PatchWrites DEF Given
<1>7. Patch!TypeOK'
  <2>1. \A f \in Patch!Files : classes'[f] \in Patch!Class \cup {None}
    BY <1>6 DEF PatchInv, Patch!TypeOK
  <2> QED BY <1>1, <1>5, <2>1 DEF PatchInv, Patch!TypeOK, Given
<1>8. ASSUME NEW f \in Patch!Files
      PROVE  (Lowered(f) /\ IsCompiled(f) /\ SourceBuilt(f) /\ GeneratedBuilt(f) /\ IsTaken(f))'
  <2>1. Lowered(f) /\ IsCompiled(f) /\ SourceBuilt(f) /\ GeneratedBuilt(f) /\ IsTaken(f)
    BY DEF PatchInv
  <2>2. Lowered(f)' /\ SourceBuilt(f)'
    <3>1. classesPhase \in {"apt", "javac"} /\ classesPhase' \in {"idle", "javac", "done", "retrolambda"}
      BY <1>1
    <3>2. UNCHANGED <<dirty, classesStat, classesDex, now>>
      BY <1>1
    <3> QED BY <1>5, <3>1, <3>2, PatchWritesKeeps DEF Given
  <2>3. IsCompiled(f)'
    <3>1. f \in compile => classes'[f] # None /\ classes'[f].content = content'[f]
      BY <1>5, <1>6
    <3>2. f \in dirty => content'[f] # None
      BY <1>5, <2>1 DEF IsCompiled, Given, PatchInv, Patch!TypeOK
    <3> QED BY <1>1, <3>1, <3>2 DEF IsCompiled
  <2>4. GeneratedBuilt(f)'
    <3>1. CASE ~classesLayouts
      BY <1>1, <1>5, <1>6, <3>1 DEF GeneratedBuilt, Holds
    <3>2. CASE classesLayouts
      <4>1. f \in W \/ classes'[f] = classes[f]
        BY <1>6
      <4>2. content'[f] = content[f]
        BY <1>5, <3>2
      <4> QED BY <1>1, <1>6, <2>1, <3>2, <4>1, <4>2 DEF GeneratedBuilt, Holds
    <3> QED BY <3>1, <3>2
  <2>5. IsTaken(f)'
    BY <1>1, <2>1 DEF IsTaken
  <2> QED BY <2>2, <2>3, <2>4, <2>5
<1> QED BY <1>1, <1>7, <1>8 DEF PatchInv

LEMMA PatchJavacFailsStep == ASSUME PatchInv, PartsAssumption, Patch!JavacFails PROVE PatchInv'
<1>1. /\ classesPhase \in {"apt", "javac"} /\ classesPhase' = "idle" /\ classesFailed' = TRUE
      /\ UNCHANGED <<dirty, classesLayouts, aptCache, compile, classesStat, classesDex, now,
                     classesEdits, classesBuilds>>
  BY DEF Patch!JavacFails
<1>2. compile \subseteq Patch!Files /\ \A f \in compile : content[f] # None
  BY <1>1 DEF PatchInv, Patch!TypeOK, IsCompiled
<1>3. PICK W : Given(W)
  <2>1. ASSUME NEW part1 \in SUBSET compile, content' = content, Patch!Writes(part1)
        PROVE  Given(part1)
    BY <1>2, <2>1 DEF Given, PatchInv, Patch!TypeOK
  <2>2. ASSUME NEW part2 \in SUBSET Patch!Processed, Patch!Generates, Patch!Writes(part2)
        PROVE  Given(part2)
    <3>1. content' \in [Patch!Files -> Contents \cup {None}] /\ \A f \in Sources : content'[f] = content[f]
      BY <2>2, PatchGenerates
    <3>2. Patch!Processed \in SUBSET Patch!Files /\ \A f \in Patch!Processed : content'[f] # None
      BY <1>2 DEF Patch!Processed, Patch!Files, PartsAssumption, Patch!PatchClassesAssumption
    <3> QED BY <2>2, <3>1, <3>2 DEF Given
  <2>3. \/ content' = content /\ \E part1 \in SUBSET compile : Patch!Writes(part1)
        \/ Patch!Generates /\ \E part2 \in SUBSET Patch!Processed : Patch!Writes(part2)
    BY DEF Patch!JavacFails
  <2> QED BY <2>1, <2>2, <2>3
<1>4. ASSUME NEW f \in Patch!Files
      PROVE  /\ f \in W => classes'[f] \in Patch!Class
             /\ f \notin W => classes'[f] = classes[f]
  BY <1>3, PatchWrites DEF Given
<1>5. Patch!TypeOK'
  <2>1. \A f \in Patch!Files : classes'[f] \in Patch!Class \cup {None}
    BY <1>4 DEF PatchInv, Patch!TypeOK
  <2> QED BY <1>1, <1>3, <2>1 DEF PatchInv, Patch!TypeOK, Given
<1>6. ASSUME NEW f \in Patch!Files
      PROVE  (Lowered(f) /\ IsCompiled(f) /\ SourceBuilt(f) /\ GeneratedBuilt(f) /\ IsTaken(f))'
  <2>1. IsCompiled(f)
    BY DEF PatchInv
  <2>2. Lowered(f)' /\ SourceBuilt(f)'
    <3>1. classesPhase' \in {"idle", "javac", "done", "retrolambda"}
      BY <1>1
    <3>2. UNCHANGED <<dirty, classesStat, classesDex, now>>
      BY <1>1
    <3> QED BY <1>1, <1>3, <3>1, <3>2, PatchWritesKeeps DEF Given
  <2>3. f \in dirty => content'[f] # None
    BY <1>3, <2>1 DEF IsCompiled, Given, PatchInv, Patch!TypeOK
  <2>4. (IsCompiled(f) /\ GeneratedBuilt(f) /\ IsTaken(f))'
    BY <1>1, <2>3 DEF IsCompiled, GeneratedBuilt, IsTaken
  <2> QED BY <2>2, <2>4
<1> QED BY <1>1, <1>5, <1>6 DEF PatchInv

LEMMA PatchRetrolambdaStep == ASSUME PatchInv, PartsAssumption, Patch!RunRetrolambda PROVE PatchInv'
<1>1. /\ classesPhase = "retrolambda" /\ classesPhase' = "dx"
      /\ classes' = [f \in Patch!Files |-> IF Patch!Includes(f)
                       THEN [classes[f] EXCEPT !.mtime = now, !.lowered = TRUE] ELSE classes[f]]
      /\ classesStat' = [f \in Patch!Files |-> IF Patch!Includes(f) THEN now ELSE classesStat[f]]
      /\ UNCHANGED <<content, dirty, classesLayouts, aptCache, compile, classesDex, now, classesFailed, classesEdits, classesBuilds>>
  BY DEF Patch!RunRetrolambda, Patch!input
<1>2. ASSUME NEW f \in Patch!Files
      PROVE  /\ Patch!Includes(f) => /\ classes[f] # None
                                     /\ classes'[f] \in Patch!Class /\ classes'[f] # None
                                     /\ classes'[f].content = classes[f].content
                                     /\ classes'[f].lowered /\ classesStat'[f] = now
             /\ ~Patch!Includes(f) => classes'[f] = classes[f] /\ classesStat'[f] = classesStat[f]
             /\ classes[f] = None => classes'[f] = None
  <2>1. CASE Patch!Includes(f)
    <3>1. classes[f] # None /\ classes[f] \in Patch!Class /\ now \in 0..MaxTime
      BY <2>1, PatchTypes DEF PatchInv, Patch!Includes
    <3>2. classes'[f] = [classes[f] EXCEPT !.mtime = now, !.lowered = TRUE] /\ classesStat'[f] = now
      BY <1>1, <2>1
    <3>3. classes'[f] \in Patch!Class /\ classes'[f].content = classes[f].content /\ classes'[f].lowered
      BY <3>1, <3>2 DEF Patch!Class
    <3>4. classes'[f] # None
      BY <3>3 DEF Patch!Class, PartsAssumption, Patch!PatchClassesAssumption
    <3> QED BY <2>1, <3>1, <3>2, <3>3, <3>4
  <2>2. CASE ~Patch!Includes(f)
    BY <1>1, <2>2
  <2> QED BY <2>1, <2>2
<1>3. Patch!TypeOK'
  BY <1>1, <1>2 DEF PatchInv, Patch!TypeOK
<1>4. ASSUME NEW f \in Patch!Files
      PROVE  (Lowered(f) /\ IsCompiled(f) /\ SourceBuilt(f) /\ GeneratedBuilt(f) /\ IsTaken(f))'
  <2>1. Lowered(f) /\ IsCompiled(f) /\ SourceBuilt(f) /\ GeneratedBuilt(f) /\ IsTaken(f)
    BY DEF PatchInv
  <2>2. /\ now \in Nat /\ (classesStat[f] # None => classesStat[f] \in Nat)
        /\ classes[f] # None => classes[f].mtime \in Nat
    BY PatchTypes DEF PatchInv
  <2>3. Lowered(f)'
    <3>0. now' = now /\ classesPhase' = "dx" /\ now <= now
      <4>1. now' = now /\ classesPhase' = "dx"
        BY DEF Patch!RunRetrolambda
      <4> QED BY <2>2, <4>1
    <3>1. CASE Patch!Includes(f)
      <4>1. classesStat'[f] = now /\ classes'[f].lowered
        BY <1>2, <3>1
      <4> QED BY <3>0, <4>1 DEF Lowered
    <3>2. CASE ~Patch!Includes(f)
      <4>1. classes[f] # None => classesStat[f] # None /\ ~(classes[f].mtime > classesStat[f])
        BY <3>2 DEF Patch!Includes
      <4>2. classes'[f] = classes[f] /\ classesStat'[f] = classesStat[f]
        BY <1>2, <3>2
      <4>3. classes[f] # None =>
              classes[f].lowered \/ (classesStat[f] # None /\ classes[f].mtime = classesStat[f])
        <5>1. SUFFICES ASSUME classes[f] # None, ~classes[f].lowered
                       PROVE  classesStat[f] # None /\ classes[f].mtime = classesStat[f]
          OBVIOUS
        <5>2. classesStat[f] # None /\ ~(classes[f].mtime > classesStat[f])
          BY <4>1, <5>1
        <5>3. classes[f].mtime >= classesStat[f]
          BY <2>1, <5>1, <5>2 DEF Lowered
        <5> QED BY <2>2, <5>1, <5>2, <5>3
      <4>4. classesStat[f] # None => classesStat[f] <= now
        BY <2>1 DEF Lowered
      <4>5. classes[f] # None /\ classesStat[f] # None => classes[f].lowered \/ classes[f].mtime >= classesStat[f]
        BY <2>1 DEF Lowered
      <4> QED BY <3>0, <4>2, <4>3, <4>4, <4>5 DEF Lowered
    <3> QED BY <3>1, <3>2
  <2>4. (IsCompiled(f) /\ SourceBuilt(f) /\ GeneratedBuilt(f) /\ IsTaken(f))'
    BY <1>1, <1>2, <2>1 DEF IsCompiled, SourceBuilt, GeneratedBuilt, IsTaken, Built, Holds
  <2> QED BY <2>3, <2>4
<1> QED BY <1>1, <1>3, <1>4 DEF PatchInv

LEMMA PatchDexStep == ASSUME PatchInv, PartsAssumption, Patch!RunDexTask PROVE PatchInv'
<1>1. /\ classesPhase = "dx" /\ classesPhase' = "done" /\ classesDex' = classes
      /\ UNCHANGED <<content, dirty, classesLayouts, aptCache, compile, classes, classesStat, now, classesFailed, classesEdits,
                     classesBuilds>>
  BY DEF Patch!RunDexTask, Patch!input
<1>2. Patch!TypeOK'
  BY <1>1 DEF PatchInv, Patch!TypeOK
<1>3. ASSUME NEW f \in Patch!Files
      PROVE  (Lowered(f) /\ IsCompiled(f) /\ SourceBuilt(f) /\ GeneratedBuilt(f) /\ IsTaken(f))'
  <2>1. Lowered(f) /\ IsCompiled(f) /\ SourceBuilt(f) /\ GeneratedBuilt(f) /\ IsTaken(f)
    BY DEF PatchInv
  <2> QED BY <1>1, <2>1 DEF Lowered, IsCompiled, SourceBuilt, GeneratedBuilt, IsTaken, Built, Holds
<1> QED BY <1>1, <1>2, <1>3 DEF PatchInv

LEMMA PatchFinishStep == ASSUME PatchInv, PartsAssumption, Patch!Finish PROVE PatchInv'
<1>1. /\ classesPhase = "done" /\ classesPhase' = "idle" /\ dirty' = {} /\ classesLayouts' = FALSE
      /\ classesFailed' = FALSE
      /\ UNCHANGED <<content, aptCache, compile, classes, classesStat, classesDex, now, classesEdits, classesBuilds>>
  BY DEF Patch!Finish, Patch!output
<1>2. Patch!TypeOK'
  BY <1>1 DEF PatchInv, Patch!TypeOK
<1>3. ASSUME NEW f \in Patch!Files
      PROVE  (Lowered(f) /\ IsCompiled(f) /\ SourceBuilt(f) /\ GeneratedBuilt(f) /\ IsTaken(f))'
  <2>1. Lowered(f) /\ IsCompiled(f) /\ SourceBuilt(f) /\ GeneratedBuilt(f) /\ IsTaken(f)
    BY DEF PatchInv
  <2>2. f \in compile => classes[f] # None /\ classes[f].content = content[f] /\ classesDex[f] = classes[f]
    BY <1>1, <2>1 DEF PatchInv, IsCompiled
  <2>3. SourceBuilt(f)'
    BY <1>1, <2>1, <2>2 DEF SourceBuilt, IsTaken, Built
  <2>4. GeneratedBuilt(f)'
    BY <1>1, <2>1 DEF GeneratedBuilt, Holds
  <2> QED BY <1>1, <2>1, <2>3, <2>4 DEF Lowered, IsCompiled, IsTaken
<1> QED BY <1>1, <1>2, <1>3 DEF PatchInv

LEMMA PatchStep == ASSUME PatchInv, PartsAssumption, [Patch!Next]_classesVars PROVE PatchInv'
<1>1. CASE UNCHANGED classesVars
  <2>1. UNCHANGED <<content, dirty, classesLayouts, aptCache, compile, classes, classesStat, classesDex, now,
                    classesPhase, classesFailed, classesEdits, classesBuilds>>
    BY <1>1 DEF classesVars
  <2>2. Patch!TypeOK'
    BY <2>1 DEF PatchInv, Patch!TypeOK
  <2> QED BY <2>1, <2>2 DEF PatchInv, Lowered, IsCompiled, SourceBuilt, GeneratedBuilt, IsTaken, Built, Holds
<1> QED BY <1>1, PatchTickStep, PatchEditStep, PatchStartStep, PatchFailsStep, PatchAptStep, PatchJavacStep,
           PatchJavacFailsStep,           PatchRetrolambdaStep, PatchDexStep, PatchFinishStep DEF Patch!Next, classesVars

LEMMA PatchInvSuffices ==
  ASSUME PatchInv, PartsAssumption
  PROVE  Patch!TypeOK /\ Patch!DexIsLowered /\ Patch!ClassesAreCurrent
<1>1. Patch!DexIsLowered
  BY DEF PatchInv, Lowered, Patch!DexIsLowered
<1>2. Patch!ClassesAreCurrent
  BY PatchFiles DEF PatchInv, SourceBuilt, GeneratedBuilt, Built, Holds, Patch!ClassesAreCurrent
<1> QED BY <1>1, <1>2 DEF PatchInv


-----------------------------------------------------------------------------
(***************************************************************************)
(* The R.java of the libraries.  As soon as the pack holds a new name the  *)
(* application has a copy, as new as the pack; a library that has been     *)
(* compiled in this build was given the copies there are now.              *)
(***************************************************************************)
LibRInv ==
  /\ LibR!TypeOK /\ DOMAIN compiled = Libraries
  /\ librPacked > 0 => backup[LibR!App] # None
  /\ backup[LibR!App] # None => backup[LibR!App].names = librPacked
  /\ librPhase = "aapt" => \A l \in Libraries : <<"src", l>> \in librChanged => l \in librTodo
  /\ \A l \in librHistory : backup[l] # None
  /\ \A l, m \in Libraries : compiled[l][m] # None => compiled[l][m] = backup[m]
  /\ \A l \in Libraries : LibR!CompiledNow(l) /\ backup[LibR!App] # None =>
       compiled[l][l] # None /\ compiled[l][LibR!App] = backup[LibR!App]

LEMMA LibRBegins == ASSUME LibR!Init, PartsAssumption PROVE LibRInv
<1>1. /\ names = 0 /\ edited = {} /\ librChanged = {} /\ librPacked = 0
      /\ backup = [m \in LibR!AllModules |-> None] /\ compiled = [l \in Libraries |-> backup]
      /\ librTodo = {} /\ librPhase = "idle" /\ librBuilds = 0 /\ librHistory = {}
  BY DEF LibR!Init
<1>2. 0 \in 0..MaxNames /\ 0 \in 0..MaxLibrBuilds
  BY DEF PartsAssumption, LibR!LibraryRAssumption
<1>3. backup[LibR!App] = None /\ \A l, m \in Libraries : compiled[l][m] = None
  BY <1>1 DEF LibR!AllModules
<1>4. LibR!TypeOK
  <2>1. backup \in [LibR!AllModules -> LibR!Copy \cup {None}]
    BY <1>1
  <2>2. \A l \in Libraries : compiled[l] = backup
    BY <1>1
  <2> QED BY <1>1, <1>2, <2>1, <2>2 DEF LibR!TypeOK
<1> QED BY <1>1, <1>3, <1>4 DEF LibRInv, LibR!CompiledNow

\* Copies are records.
LEMMA CopyIsRecord ==
  ASSUME PartsAssumption, NEW from \in {"application", "library"}, NEW n \in 0..MaxNames
  PROVE  LET c == [from |-> from, names |-> n] IN c \in LibR!Copy /\ c # None /\ c.names = n /\ c.from = from
BY DEF PartsAssumption, LibR!LibraryRAssumption, LibR!Copy

\* A copy that exists stays, and one that is made is one.
LEMMA CopyIsMade ==
  ASSUME LibRInv, PartsAssumption, NEW m \in LibR!AllModules, NEW from \in {"application", "library"}
  PROVE  /\ LibR!ModifyOtherModulesR(m, from) \in LibR!Copy
         /\ LibR!ModifyOtherModulesR(m, from) # None
         /\ backup[m] # None => LibR!ModifyOtherModulesR(m, from) = backup[m]
<1>1. backup[m] \in LibR!Copy \cup {None}
  BY DEF LibRInv, LibR!TypeOK
<1>2. 0 \in 0..MaxNames
  BY DEF PartsAssumption, LibR!LibraryRAssumption
<1> QED BY <1>1, <1>2, CopyIsRecord DEF LibR!ModifyOtherModulesR

LEMMA LibRAaptStep == ASSUME LibRInv, PartsAssumption, LibR!Aapt PROVE LibRInv'
<1>1. /\ librPhase = "aapt" /\ librPhase' = "compile" /\ librPacked' = names
      /\ librHistory' = librHistory \cup LibR!ChangedModules
      /\ UNCHANGED <<names, edited, librChanged, compiled, librTodo, librBuilds>>
      /\ backup' = [m \in LibR!AllModules |->
           IF m = LibR!App THEN [from |-> "application", names |-> names]
           ELSE IF m \in LibR!ChangedModules THEN LibR!ModifyOtherModulesR(m, "application") ELSE backup[m]]
  BY DEF LibR!Aapt
<1>2. names \in 0..MaxNames
  BY DEF LibRInv, LibR!TypeOK
<1>3. LibR!App \in LibR!AllModules
  BY DEF LibR!AllModules
<1>4. /\ backup'[LibR!App] = [from |-> "application", names |-> names]
      /\ backup'[LibR!App] # None /\ backup'[LibR!App].names = names
  BY <1>1, <1>2, <1>3, CopyIsRecord
<1>5. ASSUME NEW m \in LibR!AllModules
      PROVE  /\ backup'[m] \in LibR!Copy \cup {None}
             /\ m # LibR!App /\ backup[m] # None => backup'[m] = backup[m]
             /\ m \in LibR!ChangedModules \/ backup[m] # None => backup'[m] # None
  <2>1. backup[m] \in LibR!Copy \cup {None}
    BY DEF LibRInv, LibR!TypeOK
  <2>2. CASE m = LibR!App
    BY <1>2, <1>4, <2>2, CopyIsRecord
  <2>3. CASE m # LibR!App
    BY <1>1, <2>1, <2>3, CopyIsMade
  <2> QED BY <2>2, <2>3
<1>6. LibR!ChangedModules \subseteq LibR!AllModules
  BY DEF LibRInv, LibR!TypeOK, LibR!ChangedModules
<1>7. LibR!TypeOK'
  <2>1. backup' \in [LibR!AllModules -> LibR!Copy \cup {None}]
    BY <1>1, <1>5
  <2> QED BY <1>1, <1>2, <1>6, <2>1 DEF LibRInv, LibR!TypeOK
<1>8. \A l \in librHistory' : backup'[l] # None
  BY <1>1, <1>5, <1>6 DEF LibRInv, LibR!TypeOK
<1>9. ASSUME NEW l \in Libraries, NEW m \in Libraries, compiled'[l][m] # None
      PROVE  compiled'[l][m] = backup'[m]
  <2>1. m \in LibR!AllModules /\ m # LibR!App
    BY DEF LibR!AllModules, PartsAssumption, LibR!LibraryRAssumption
  <2>2. compiled[l][m] = backup[m] /\ compiled[l][m] # None
    BY <1>1, <1>9 DEF LibRInv
  <2> QED BY <1>1, <1>5, <2>1, <2>2
<1>10. \A l \in Libraries : ~LibR!CompiledNow(l)'
  BY <1>1 DEF LibRInv, LibR!CompiledNow
<1> QED BY <1>1, <1>4, <1>7, <1>8, <1>9, <1>10 DEF LibRInv

LEMMA LibRCompileStep ==
  ASSUME LibRInv, PartsAssumption, NEW l \in Libraries, LibR!Compile(l)
  PROVE  /\ LibRInv'
         /\ \A k \in Libraries : backup[k] = None /\ backup'[k] # None =>
              backup[LibR!App] # None /\ k \notin librHistory
<1>1. /\ librPhase = "compile" /\ librTodo' = librTodo \ {l}
      /\ UNCHANGED <<names, edited, librChanged, librPacked, librPhase, librBuilds, librHistory>>
      /\ backup' = IF backup[LibR!App] = None THEN backup
                   ELSE [backup EXCEPT ![l] = LibR!ModifyOtherModulesR(l, "library")]
      /\ compiled' = [compiled EXCEPT ![l] = [m \in LibR!AllModules |->
           IF backup[LibR!App] # None /\ m \in {LibR!App, l} \cup LibR!Below(l) THEN backup'[m] ELSE None]]
  BY DEF LibR!Compile, LibR!AppendRFile
<1>2. backup \in [LibR!AllModules -> LibR!Copy \cup {None}] /\ DOMAIN compiled = Libraries
  BY DEF LibRInv, LibR!TypeOK
<1>3. l # LibR!App /\ l \in LibR!AllModules /\ LibR!App \in LibR!AllModules /\ Libraries \subseteq LibR!AllModules
  BY DEF LibR!AllModules, PartsAssumption, LibR!LibraryRAssumption
<1>4. \A m \in LibR!AllModules : /\ backup'[m] \in LibR!Copy \cup {None}
                                 /\ backup[m] # None => backup'[m] = backup[m]
                                 /\ backup'[m] # backup[m] => m = l /\ backup[LibR!App] # None
  BY <1>1, <1>2, <1>3, CopyIsMade
<1>5. backup'[LibR!App] = backup[LibR!App] /\ (backup[LibR!App] # None => backup'[l] # None)
  BY <1>1, <1>2, <1>3, CopyIsMade
<1>6. backup' \in [LibR!AllModules -> LibR!Copy \cup {None}]
  BY <1>1, <1>2, <1>3, CopyIsMade
<1>7. /\ DOMAIN compiled' = Libraries
      /\ \A k \in Libraries : k # l => compiled'[k] = compiled[k]
      /\ compiled'[l] = [m \in LibR!AllModules |->
           IF backup[LibR!App] # None /\ m \in {LibR!App, l} \cup LibR!Below(l) THEN backup'[m] ELSE None]
  BY <1>1, <1>2
<1>8. LibR!TypeOK'
  <2>1. compiled'[l] \in [LibR!AllModules -> LibR!Copy \cup {None}]
    BY <1>4, <1>7
  <2>2. \A k \in Libraries : compiled'[k] \in [LibR!AllModules -> LibR!Copy \cup {None}]
    BY <1>7, <2>1 DEF LibRInv, LibR!TypeOK
  <2> QED BY <1>1, <1>6, <2>2 DEF LibRInv, LibR!TypeOK
<1>9. \A m \in librHistory' : backup'[m] # None
  BY <1>1, <1>4 DEF LibRInv, LibR!TypeOK
<1>10. ASSUME NEW k \in Libraries, NEW m \in Libraries, compiled'[k][m] # None
       PROVE  compiled'[k][m] = backup'[m]
  <2>1. CASE k = l
    BY <1>3, <1>7, <1>10, <2>1
  <2>2. CASE k # l
    <3>1. compiled[k][m] = backup[m] /\ backup[m] # None
      BY <1>7, <1>10, <2>2 DEF LibRInv
    <3> QED BY <1>3, <1>4, <1>7, <2>2, <3>1
  <2> QED BY <2>1, <2>2
<1>11. ASSUME NEW k \in Libraries, LibR!CompiledNow(k)', backup'[LibR!App] # None
       PROVE  compiled'[k][k] # None /\ compiled'[k][LibR!App] = backup'[LibR!App]
  <2>1. CASE k = l
    BY <1>3, <1>5, <1>7, <1>11, <2>1
  <2>2. CASE k # l
    <3>1. LibR!CompiledNow(k)
      BY <1>1, <1>11, <2>2 DEF LibR!CompiledNow
    <3> QED BY <1>5, <1>7, <1>11, <2>2, <3>1 DEF LibRInv
  <2> QED BY <2>1, <2>2
<1>12. LibRInv'
  BY <1>1, <1>5, <1>7, <1>8, <1>9, <1>10, <1>11 DEF LibRInv
<1>13. \A k \in Libraries : backup[k] = None /\ backup'[k] # None =>
         backup[LibR!App] # None /\ k \notin librHistory
  BY <1>3, <1>4 DEF LibRInv
<1> QED BY <1>12, <1>13

\* The other steps leave the copies alone.
LEMMA LibRRestStep ==
  ASSUME LibRInv, PartsAssumption, [LibR!Next]_libRVars,
         ~LibR!Aapt, \A l \in Libraries : ~LibR!Compile(l)
  PROVE  LibRInv' /\ UNCHANGED <<librPacked, backup, compiled, librHistory>>
<1>0. LibR!AllModules = Libraries \cup {LibR!App}
  BY DEF LibR!AllModules
<1>1. ASSUME NEW m \in LibR!AllModules, LibR!EditSource(m)
      PROVE  LibRInv' /\ UNCHANGED <<librPacked, backup, compiled, librHistory>>
  BY <1>1 DEF LibR!EditSource, LibR!copies, LibRInv, LibR!TypeOK, LibR!CompiledNow
<1>2. ASSUME NEW m \in LibR!AllModules, LibR!AddResource(m)
      PROVE  LibRInv' /\ UNCHANGED <<librPacked, backup, compiled, librHistory>>
  <2>1. names' \in 0..MaxNames
    BY <1>2 DEF LibR!AddResource, LibRInv, LibR!TypeOK, PartsAssumption, LibR!LibraryRAssumption
  <2> QED BY <1>2, <2>1 DEF LibR!AddResource, LibR!copies, LibRInv, LibR!TypeOK, LibR!CompiledNow
<1>3. CASE LibR!StartBuild
  <2>1. librBuilds' \in 0..MaxLibrBuilds
    BY <1>3 DEF LibR!StartBuild, LibRInv, LibR!TypeOK, PartsAssumption, LibR!LibraryRAssumption
  <2> QED BY <1>3, <2>1 DEF LibR!StartBuild, LibR!copies, LibRInv, LibR!TypeOK, LibR!CompiledNow
<1>4. CASE LibR!BuildFails
  BY <1>4 DEF LibR!BuildFails, LibR!copies, LibRInv, LibR!TypeOK, LibR!CompiledNow
<1>5. CASE LibR!SkipAapt
  BY <1>5 DEF LibR!SkipAapt, LibR!copies, LibRInv, LibR!TypeOK, LibR!CompiledNow
<1>6. CASE LibR!Finish
  BY <1>6 DEF LibR!Finish, LibR!copies, LibRInv, LibR!TypeOK, LibR!CompiledNow
<1>7. CASE UNCHANGED libRVars
  BY <1>7 DEF libRVars, LibRInv, LibR!TypeOK, LibR!CompiledNow
<1> QED BY <1>1, <1>2, <1>3, <1>4, <1>5, <1>6, <1>7 DEF LibR!Next, libRVars

LEMMA LibRStep ==
  ASSUME LibRInv, PartsAssumption, [LibR!Next]_libRVars
  PROVE  /\ LibRInv'
         /\ librPhase = "compile" => \A l \in Libraries : backup[l] = None /\ backup'[l] # None =>
              backup[LibR!App] # None /\ l \notin librHistory
<1>1. LibR!Aapt => librPhase # "compile"
  BY DEF LibR!Aapt
<1> QED BY <1>1, LibRAaptStep, LibRCompileStep, LibRRestStep

LEMMA LibRInvSuffices ==
  ASSUME LibRInv, PartsAssumption
  PROVE  LibR!TypeOK /\ LibR!NewResourcesAreSeen /\ LibR!OneCopyOfEach
<1>1. LibR!NewResourcesAreSeen
  BY DEF LibRInv, LibR!NewResourcesAreSeen
<1>2. LibR!OneCopyOfEach
  BY DEF LibRInv, LibR!OneCopyOfEach
<1> QED BY <1>1, <1>2 DEF LibRInv


-----------------------------------------------------------------------------
(***************************************************************************)
(* The annotation processor.  The cache is what its maker collected, and   *)
(* what the processor was given in this build is what exists of it.        *)
(***************************************************************************)
GivenInv(m) ==
  given[m] # None =>
    /\ given[m].related \cup given[m].classes \subseteq exists
    /\ aptHistory = m => given[m].related = Apt!Collect(m) \cap exists

AptInv ==
  /\ Apt!TypeOK /\ DOMAIN given = AptModules
  /\ aptHistory # None => cache = Apt!Collect(aptHistory)
  /\ \A m \in flagged : GivenInv(m)

LEMMA CollectsAnnotated == ASSUME NEW m PROVE Apt!Collect(m) \subseteq Apt!AnnotatedFiles
BY DEF Apt!Collect, Apt!AnnotatedFiles

LEMMA ExtractsClasses ==
  ASSUME PartsAssumption, NEW L \in SUBSET Layouts
  PROVE  Apt!Extract(L) \subseteq Classes /\ Apt!Extract(L) \subseteq exists
<1>1. \A l \in L : Apt!NamedIn(l) \subseteq Classes
  <2> SUFFICES ASSUME NEW l \in L PROVE Apt!NamedIn(l) \subseteq Classes
    OBVIOUS
  <2>1. \A i \in l.imports : i.type \in Classes
    BY DEF PartsAssumption, Apt!AptInputsAssumption
  <2>2. \A v \in l.variables : "class" \in DOMAIN v => v.class \in Classes
    BY DEF PartsAssumption, Apt!AptInputsAssumption
  <2> QED BY <2>1, <2>2 DEF Apt!NamedIn
<1>2. UNION {Apt!NamedIn(l) : l \in L} \subseteq Classes
  BY <1>1
<1> QED BY <1>2 DEF Apt!Extract

LEMMA AptBegins == ASSUME Apt!Init, PartsAssumption PROVE AptInv
BY DEF Apt!Init, AptInv, Apt!TypeOK, PartsAssumption, Apt!AptInputsAssumption

LEMMA RunAptStep ==
  ASSUME AptInv, PartsAssumption, NEW m \in AptModules, Apt!RunApt(m)
  PROVE  AptInv'
<1>1. /\ m \in flagged /\ cache' = Apt!RelatedFiles(m)
      /\ given' = [given EXCEPT ![m] = [related |-> Apt!Given(m), classes |-> Apt!Extract(aptLayouts)]]
      /\ aptHistory' = IF cache = None THEN m ELSE aptHistory
      /\ UNCHANGED <<exists, aptLayouts, flagged, aptBuilds>>
  BY DEF Apt!RunApt
<1>2. Apt!RelatedFiles(m) \subseteq Apt!AnnotatedFiles
  BY CollectsAnnotated DEF Apt!RelatedFiles, AptInv, Apt!TypeOK
<1>3. Apt!Extract(aptLayouts) \subseteq Classes /\ Apt!Extract(aptLayouts) \subseteq exists
  BY ExtractsClasses DEF AptInv, Apt!TypeOK
<1>4. /\ given'[m].related = Apt!Given(m) /\ given'[m].classes = Apt!Extract(aptLayouts)
      /\ DOMAIN given' = AptModules
      /\ \A k \in AptModules : k # m => given'[k] = given[k]
  BY <1>1 DEF AptInv
<1>5. \A k \in AptModules : given'[k] = None \/
        (given'[k].related \subseteq Apt!AnnotatedFiles /\ given'[k].classes \subseteq Classes)
  BY <1>2, <1>3, <1>4 DEF AptInv, Apt!TypeOK, Apt!Given
<1>6. Apt!TypeOK'
  BY <1>1, <1>2, <1>5 DEF AptInv, Apt!TypeOK
<1>7. aptHistory' # None => cache' = Apt!Collect(aptHistory')
  BY <1>1 DEF AptInv, Apt!RelatedFiles
<1>8. ASSUME NEW k \in flagged PROVE GivenInv(k)'
  <2>1. CASE k = m
    <3>1. aptHistory' = m => Apt!RelatedFiles(m) = Apt!Collect(m)
      BY <1>1 DEF AptInv, Apt!RelatedFiles, PartsAssumption, Apt!AptInputsAssumption
    <3>2. Apt!Collect(m)' = Apt!Collect(m)
      BY DEF Apt!Collect
    <3> QED BY <1>1, <1>3, <1>4, <2>1, <3>1, <3>2 DEF GivenInv, Apt!Given
  <2>2. CASE k # m
    <3>1. k \in AptModules /\ GivenInv(k)
      BY DEF AptInv, Apt!TypeOK
    <3> QED BY <1>1, <1>4, <2>2, <3>1 DEF GivenInv, Apt!Collect
  <2> QED BY <2>1, <2>2
<1> QED BY <1>1, <1>4, <1>6, <1>7, <1>8 DEF AptInv, Apt!Collect

LEMMA AptStep == ASSUME AptInv, PartsAssumption, [Apt!Next]_aptVars PROVE AptInv'
<1>1. ASSUME NEW f, Apt!DeleteFile(f) PROVE AptInv'
  BY <1>1 DEF Apt!DeleteFile, AptInv, Apt!TypeOK, GivenInv, Apt!Collect
<1>2. CASE Apt!StartBuild
  <2>1. /\ cache' = cache /\ aptHistory' = aptHistory /\ exists' = exists
        /\ given' = [m \in AptModules |-> None] /\ flagged' \subseteq AptModules
        /\ aptLayouts' \subseteq Layouts /\ aptBuilds' = aptBuilds + 1 /\ aptBuilds < MaxAptBuilds
    BY <1>2 DEF Apt!StartBuild
  <2>2. \A m \in flagged' : given'[m] = None
    BY <2>1
  <2>3. aptBuilds' \in 0..MaxAptBuilds
    BY <2>1 DEF AptInv, Apt!TypeOK, PartsAssumption, Apt!AptInputsAssumption
  <2>4. Apt!TypeOK'
    BY <2>1, <2>3 DEF AptInv, Apt!TypeOK
  <2> QED BY <2>1, <2>2, <2>4 DEF AptInv, GivenInv, Apt!Collect
<1>3. ASSUME NEW m \in AptModules, Apt!RunApt(m) PROVE AptInv'
  BY <1>3, RunAptStep
<1>4. CASE Apt!BuildEnds
  BY <1>4 DEF Apt!BuildEnds, AptInv, Apt!TypeOK, GivenInv, Apt!Collect
<1>5. CASE Apt!CleanBuild
  BY <1>5 DEF Apt!CleanBuild, AptInv, Apt!TypeOK, GivenInv, Apt!Collect
<1>6. CASE UNCHANGED aptVars
  BY <1>6 DEF aptVars, AptInv, Apt!TypeOK, GivenInv, Apt!Collect
<1> QED BY <1>1, <1>2, <1>3, <1>4, <1>5, <1>6 DEF Apt!Next, aptVars

LEMMA AptInvSuffices ==
  ASSUME AptInv, PartsAssumption
  PROVE  Apt!TypeOK /\ Apt!AnnotatedFilesAreGiven /\ Apt!NothingGoneIsGiven
<1>1. ASSUME NEW m \in flagged, given[m] # None, aptHistory = m
      PROVE  {a.file : a \in {b \in Annotated : b.anno \in Apt!Tags /\
                         b.module \in {m} \cup {d \in AptModules : <<m, d>> \in AptDeps}}}
               \cap exists \subseteq given[m].related
  <2>1. given[m].related = Apt!Collect(m) \cap exists
    BY <1>1 DEF AptInv, GivenInv
  <2>2. \A d : d \in {m} \cup {e \in AptModules : <<m, e>> \in AptDeps} => d = m \/ <<m, d>> \in AptDeps
    OBVIOUS
  <2> QED BY <2>1, <2>2 DEF Apt!Collect
<1> QED BY <1>1 DEF AptInv, GivenInv, Apt!AnnotatedFilesAreGiven, Apt!NothingGoneIsGiven

-----------------------------------------------------------------------------
(***************************************************************************)
(* The six components side by side.                                        *)
(***************************************************************************)
ResourcesInv ==
  /\ part = "ids" => IdsInv
  /\ part = "binding" => BindingInv
  /\ part = "overlay" => OverlayInv
  /\ part = "classes" => PatchInv
  /\ part = "libr" => LibRInv
  /\ part = "apt" => AptInv

LEMMA ResourcesBegin == ResourcesInit => ResourcesInv
<1> SUFFICES ASSUME ResourcesInit PROVE ResourcesInv
  OBVIOUS
<1> QED BY PartsAssumption, IdsBegin, BindingBegins, OverlayBegins, PatchBegins, LibRBegins, AptBegins
        DEF ResourcesInit, ResourcesInv

\* What a step of the whole does to a component.
LEMMA StepsOfParts ==
  ASSUME [ResourcesNext]_resourcesVars
  PROVE  /\ part' = part
         /\ IF part = "ids" THEN [ResIds!Next]_resIdsVars ELSE UNCHANGED resIdsVars
         /\ IF part = "binding" THEN [Binding!Next]_bindingVars ELSE UNCHANGED bindingVars
         /\ IF part = "overlay" THEN [Overlay!Next]_overlayVars ELSE UNCHANGED overlayVars
         /\ IF part = "classes" THEN [Patch!Next]_classesVars ELSE UNCHANGED classesVars
         /\ IF part = "libr" THEN [LibR!Next]_libRVars ELSE UNCHANGED libRVars
         /\ IF part = "apt" THEN [Apt!Next]_aptVars ELSE UNCHANGED aptVars
BY DEF ResourcesNext, resourcesVars

LEMMA ResourcesStep == ResourcesInv /\ [ResourcesNext]_resourcesVars => ResourcesInv'
<1> SUFFICES ASSUME ResourcesInv, [ResourcesNext]_resourcesVars PROVE ResourcesInv'
  OBVIOUS
<1> QED BY PartsAssumption, StepsOfParts, IdsStep, BindingStep, OverlayStep, PatchStep, LibRStep, AptStep
        DEF ResourcesInv

LEMMA ResourcesInvariant == ResourcesSpec => []ResourcesInv
BY ResourcesBegin, ResourcesStep, PTL DEF ResourcesSpec

-----------------------------------------------------------------------------
\* gradle_inc_build.py:410-415, gradle_tools.py:560-640 - an id that compiled code holds
\* is that of the same resource in every later pack, whatever the developer adds, takes
\* away or writes into a public.xml and whichever builds fail; and a name of type "id"
\* that disappears from the layouts makes no build fail, with the exceptions that
\* ResourceIds lists.
THEOREM ResourceIdsStayTrue == ResourcesSpec => []IdsStayTrue
<1>1. ResourcesInv => IdsStayTrue
  BY DEF ResourcesInv, IdsInv, IdsStayTrue, ResIds!CompiledIdsResolve
<1> QED BY <1>1, ResourcesInvariant, PTL

\* gradle_inc_build.py:312-382, 815-843 - a pack holds every file as the developer left
\* it and takes every resource from where the clean build's pack would; data binding's
\* copies neither hide an edit, nor fail, nor overwrite a source, with the exceptions
\* that DataBinding and ResourceOverlay list.  For any modules and directories.
THEOREM EveryPackIsCurrent == ResourcesSpec => []PacksAreCurrent
<1>1. ResourcesInv => PacksAreCurrent
  BY PartsAssumption, BindingInvSuffices, OverlayInvSuffices DEF ResourcesInv, PacksAreCurrent
<1> QED BY <1>1, ResourcesInvariant, PTL

\* gradle_inc_build.py:448-502, 583-610, 694-803 - the R.java a library is compiled with
\* is as new as the pack and one for all, the annotation processor gets the files that
\* exist and concern the module, and the dex holds the classes of the sources, rewritten
\* by retrolambda, with the exceptions that the three modules list.
THEOREM CompiledCodeIsCurrent == ResourcesSpec => []CodeIsCurrent
<1>1. ResourcesInv => CodeIsCurrent
  BY PartsAssumption, PatchInvSuffices, LibRInvSuffices, AptInvSuffices DEF ResourcesInv, CodeIsCurrent
<1> QED BY <1>1, ResourcesInvariant, PTL

\* gradle_inc_build.py:388-441, 467-502, gradle_tools.py:703-724 - from one build to the
\* next no resource gets another id, a build that succeeds records every changed file,
\* a resource of a module gives way to none of an archive, and a library's R.java keeps
\* the application's ids, with the exceptions that the four modules list.
THEOREM LaterBuildsKeepWhatWasBuilt == ResourcesSpec => LaterBuildsAgree
<1>1. ResourcesInv /\ [ResourcesNext]_resourcesVars => [idsPack \subseteq idsPack']_idsPack
  <2> SUFFICES ASSUME ResourcesInv, [ResourcesNext]_resourcesVars, idsPack' # idsPack
               PROVE  idsPack \subseteq idsPack'
    OBVIOUS
  <2>1. part = "ids" /\ [ResIds!Next]_resIdsVars
    BY StepsOfParts DEF resIdsVars
  <2> QED BY <2>1, PartsAssumption, IdsStep DEF ResourcesInv
<1>2. ResourcesInv /\ [ResourcesNext]_resourcesVars =>
        [bindingPhase = "recovered" /\ bindingPhase' = "idle" /\ failure' = "none" =>
           \A f \in Binding!Files :
             bindingStat'[f] = bindingVersion[f] \/ (Binding!IdFile(f) /\ Binding!Owner(f[1]) = MainModule)]_(Binding!vars)
  <2> SUFFICES ASSUME ResourcesInv, [ResourcesNext]_resourcesVars, bindingPhase = "recovered",
                      bindingPhase' = "idle", failure' = "none"
               PROVE  \A f \in Binding!Files :
                 bindingStat'[f] = bindingVersion[f] \/ (Binding!IdFile(f) /\ Binding!Owner(f[1]) = MainModule)
    OBVIOUS
  <2>1. part = "binding" /\ [Binding!Next]_bindingVars
    BY StepsOfParts DEF bindingVars
  <2> QED BY <2>1, PartsAssumption, BindingStep DEF ResourcesInv
<1>3. ResourcesInv /\ [ResourcesNext]_resourcesVars =>
        [(overlayPack \in Overlay!ToSet(MainDirs \o LocalDirs))
           /\ overlayPack' \notin Overlay!ToSet(MainDirs \o LocalDirs)
         => \A d \in Overlay!ToSet(MainDirs \o LocalDirs) : d \notin defines /\ d \notin copied]_(Overlay!vars)
  <2> SUFFICES ASSUME ResourcesInv, [ResourcesNext]_resourcesVars,
                      overlayPack \in Overlay!ToSet(ModuleDirs), overlayPack' \notin Overlay!ToSet(ModuleDirs)
               PROVE  \A d \in Overlay!ToSet(ModuleDirs) : d \notin defines /\ d \notin copied
    BY DEF ModuleDirs
  <2>1. part = "overlay" /\ [Overlay!Next]_overlayVars
    BY StepsOfParts DEF overlayVars
  <2> QED BY <2>1, PartsAssumption, OverlayStep DEF ResourcesInv
<1>4. ResourcesInv /\ [ResourcesNext]_resourcesVars =>
        [librPhase = "compile" => \A l \in Libraries :
           backup[l] = None /\ backup'[l] # None /\ backup'[l].from = "library"
           => backup[LibR!App] # None /\ l \notin librHistory]_(LibR!vars)
  <2> SUFFICES ASSUME ResourcesInv, [ResourcesNext]_resourcesVars, librPhase = "compile",
                      NEW l \in Libraries, backup[l] = None, backup'[l] # None
               PROVE  backup[LibR!App] # None /\ l \notin librHistory
    OBVIOUS
  <2>1. part = "libr" /\ [LibR!Next]_libRVars
    BY StepsOfParts DEF libRVars
  <2> QED BY <2>1, PartsAssumption, LibRStep DEF ResourcesInv
<1>5. ResourcesSpec => ResIds!IdsStayFixed
  BY <1>1, ResourcesInvariant, PTL DEF ResourcesSpec, ResIds!IdsStayFixed
<1>6. ResourcesSpec => Binding!SuccessRecordsAll
  BY <1>2, ResourcesInvariant, PTL DEF ResourcesSpec, Binding!SuccessRecordsAll
<1>7. ResourcesSpec => Overlay!ModulesComeFirst
  BY <1>3, ResourcesInvariant, PTL DEF ResourcesSpec, Overlay!ModulesComeFirst
<1>8. ResourcesSpec => LibR!OwnIdsOnlyIfLate
  BY <1>4, ResourcesInvariant, PTL DEF ResourcesSpec, LibR!OwnIdsOnlyIfLate
<1> QED BY <1>5, <1>6, <1>7, <1>8 DEF LaterBuildsAgree

=============================================================================
