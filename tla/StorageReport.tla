--------------------------- MODULE StorageReport ---------------------------
(***************************************************************************)
(* What the coordinator of a scan makes of the entries it visits: the      *)
(* totals, one aggregate per direct directory, the groups of extensions,   *)
(* the largest files, each with a limit beyond which entries go to a row   *)
(* "other"; and the rows of the report built from them.                    *)
(*                                                                         *)
(* A node is a number; its order stands for the order of lower-case names. *)
(***************************************************************************)
EXTENDS Naturals, FiniteSets, SequencesExt

CONSTANTS Nodes,      \* the entries of the tree, its root included
          Root,
          ParentOf,   \* the directory of every node but the root
          Kind,       \* "directory", "file", "link" or "special" (a device)
          Size,       \* the bytes of a node
          Extension,  \* the extension of a file, a number as well, Other for "(other)"
          Other,
          MaxInt64,
          MaxEntries,      \* storageScanMaxEntries
          MaxDirectories,  \* storageScanMaxDirectories
          MaxExtensions,   \* storageScanMaxExtensions
          MaxGroups,       \* 64, the groups a report shows
          MaxChildren,     \* storageScanMaxChildren
          MaxLargest       \* storageScanMaxLargestFiles

ASSUME SizesAssumption == Size \in [Nodes -> Nat] /\ MaxInt64 \in Nat
ASSUME LimitsAssumption == {MaxEntries, MaxDirectories, MaxExtensions} \subseteq Nat
                           /\ {MaxGroups, MaxChildren, MaxLargest} \subseteq Nat \ {0}
                           /\ MaxEntries <= MaxInt64
ASSUME NamesAssumption == Extension \in [Nodes -> Nat] /\ Other \in Nat

\* Every node has its parent nearer to the root.
ASSUME TreeAssumption ==
    /\ IsFiniteSet(Nodes) /\ Nodes = 0 .. Cardinality(Nodes) - 1
    /\ Kind \in [Nodes -> {"directory", "file", "link", "special"}]
    /\ Root \in Nodes /\ Kind[Root] = "directory"
    /\ ParentOf \in [Nodes \ {Root} -> {n \in Nodes : Kind[n] = "directory"}]
    /\ \A S \in SUBSET (Nodes \ {Root}) : S # {} => \E n \in S : ParentOf[n] \notin S

\* Nothing is subtracted: only the upper bound can be met.
SaturatingAdd(left, right) == IF left > MaxInt64 - right THEN MaxInt64 ELSE left + right

SaturatingSum(values) == FoldLeft(SaturatingAdd, 0, values)

\* firstStorageComponent: the direct child of the root that holds a node.
First[n \in Nodes \ {Root}] == IF ParentOf[n] = Root THEN n ELSE First[ParentOf[n]]

Direct(n) == ParentOf[n] = Root

-----------------------------------------------------------------------------
(* The visit of one entry.                                                 *)

NoAggregate == [size |-> 0, files |-> 0, directories |-> 0]

Empty == [entries |-> 0, skipped |-> 0, total |-> 0, files |-> 0, directories |-> 0,
          aggregates |-> << >>,      \* of direct directories, by node
          overflow |-> NoAggregate,  \* of those beyond MaxDirectories
          extensions |-> << >>,
          otherExtensions |-> [size |-> 0, files |-> 0],
          directFiles |-> {}, directBytes |-> 0, directCount |-> 0,
          largest |-> {}]

\* Which of several smallest files leaves the heap is of no consequence here.
Smallest(files) == CHOOSE f \in files : \A g \in files : Size[f] <= Size[g]

\* pushLargest.
PushLast(files, file, limit) ==
  IF Cardinality(files) < limit THEN files \cup {file}
  ELSE (files \ {Smallest(files)}) \cup {file}

PushLargest(files, file, limit) ==
  IF Cardinality(files) < limit THEN files \cup {file}
  ELSE IF Size[Smallest(files)] < Size[file] THEN (files \ {Smallest(files)}) \cup {file}
  ELSE files

\* A map with a value set under a key that it may not have yet.
Put(map, key, value) == [k \in DOMAIN map \cup {key} |-> IF k = key THEN value ELSE map[k]]

AddFile(group, size) == [group EXCEPT !.size = SaturatingAdd(@, size), !.files = @ + 1]

\* addExtension.
AddExtension(acc, file) ==
  LET ext == Extension[file]
      known == ext \in DOMAIN acc.extensions
      old == IF known THEN acc.extensions[ext] ELSE [size |-> 0, files |-> 0]
  IN IF known \/ Cardinality(DOMAIN acc.extensions) < MaxExtensions
     THEN [acc EXCEPT !.extensions = Put(@, ext, AddFile(old, Size[file]))]
     ELSE [acc EXCEPT !.otherExtensions = AddFile(@, Size[file])]

VisitDirectory(acc, dir) ==
  LET counted == [acc EXCEPT !.directories = @ + 1]
      first == First[dir]
  IN IF Direct(dir) /\ Cardinality(DOMAIN acc.aggregates) < MaxDirectories
     THEN [counted EXCEPT !.aggregates = Put(@, dir, [NoAggregate EXCEPT !.directories = 1])]
     ELSE IF first \in DOMAIN acc.aggregates
     THEN [counted EXCEPT !.aggregates[first].directories = @ + 1]
     ELSE [counted EXCEPT !.overflow.directories = @ + 1]

VisitFile(acc, file) ==
  LET size == Size[file]
      first == First[file]
      counted == [AddExtension(acc, file) EXCEPT
                    !.files = @ + 1, !.total = SaturatingAdd(@, size),
                    !.largest = PushLargest(@, file, MaxLargest)]
  IN IF Direct(file)
     THEN [counted EXCEPT !.directBytes = SaturatingAdd(@, size), !.directCount = @ + 1,
                          !.directFiles = PushLargest(@, file, MaxChildren)]
     ELSE IF first \in DOMAIN acc.aggregates
     THEN [counted EXCEPT !.aggregates[first] = AddFile(@, size)]
     ELSE [counted EXCEPT !.overflow = AddFile(@, size)]

Full(acc) == acc.entries >= MaxEntries

Skip(acc) == [acc EXCEPT !.entries = @ + 1, !.skipped = @ + 1]

\* The callback of walkStorageEntries for an entry that could be read.  A
\* link, a mount point or a device is skipped.
VisitLinks(acc, n) ==
  LET counted == [acc EXCEPT !.entries = @ + 1]
  IN CASE Kind[n] = "directory" -> VisitDirectory(counted, n)
       [] Kind[n] \in {"file", "link"} -> VisitFile(counted, n)
       [] OTHER -> Skip(acc)

Visit(acc, n) ==
  LET counted == [acc EXCEPT !.entries = @ + 1]
  IN CASE Kind[n] = "directory" -> VisitDirectory(counted, n)
       [] Kind[n] = "file" -> VisitFile(counted, n)
       [] OTHER -> Skip(acc)

-----------------------------------------------------------------------------
(* The rows of the report.                                                 *)

Row(kind, name, group) == [kind |-> kind, name |-> name, size |-> group.size,
                           files |-> group.files, directories |-> group.directories]

FileRow(file) == Row("file", file, [size |-> Size[file], files |-> 1, directories |-> 0])

Precedes(r, s) == r.size > s.size \/ (r.size = s.size /\ r.name < s.name)

Before(rows, row) == {r \in rows : Precedes(r, row)}

\* In a list in order, each row comes after those that precede it.
Descending(rows) ==
  [i \in 1 .. Cardinality(rows) |->
     CHOOSE row \in rows : Cardinality(Before(rows, row)) = i - 1]

Sizes(rows) == [i \in DOMAIN rows |-> rows[i].size]

\* The rows beyond a limit become one.
Omitted(rows) == [size |-> SaturatingSum(Sizes(rows)),
                  files |-> SaturatingSum([i \in DOMAIN rows |-> rows[i].files]),
                  directories |-> SaturatingSum([i \in DOMAIN rows |-> rows[i].directories])]

\* buildStorageChildren.  "Other folders" and "Other files" come after the
\* nodes of their size, under a name that no node has.
ChildRows(acc) ==
  LET top == {FileRow(f) : f \in acc.directFiles}
      shown == SaturatingSum(Sizes(SetToSeq(top)))
      otherFiles == [size |-> acc.directBytes - shown,
                     files |-> acc.directCount - Cardinality(top), directories |-> 0]
  IN {Row("directory", d, acc.aggregates[d]) : d \in DOMAIN acc.aggregates} \cup top
     \cup (IF acc.overflow.size > 0 \/ acc.overflow.directories > 0
           THEN {Row("other", Cardinality(Nodes) + 1, acc.overflow)} ELSE {})
     \cup (IF acc.directBytes > shown
           THEN {Row("other", Cardinality(Nodes) + 2, otherFiles)} ELSE {})

ChildrenOffByOne(acc) ==
  LET rows == Descending(ChildRows(acc))
  IN IF Len(rows) <= MaxChildren THEN rows
     ELSE Append(SubSeq(rows, 1, MaxChildren - 1),
                 Row("other", 0, Omitted(SubSeq(rows, MaxChildren + 1, Len(rows)))))

Children(acc) ==
  LET rows == Descending(ChildRows(acc))
  IN IF Len(rows) <= MaxChildren THEN rows
     ELSE Append(SubSeq(rows, 1, MaxChildren - 1),
                 Row("other", 0, Omitted(SubSeq(rows, MaxChildren, Len(rows)))))

\* descendingFiles.
Largest(acc) == Descending({FileRow(f) : f \in acc.largest})

\* buildStorageExtensions: files beyond the groups of the scan join a group
\* "(other)" of their own name, files beyond those of the report do not.
ExtensionRows(acc) ==
  LET other == acc.otherExtensions
      kept == acc.extensions
      merged == IF other.files = 0 THEN kept
                ELSE IF Other \in DOMAIN kept
                THEN [kept EXCEPT ![Other] = [size |-> SaturatingAdd(@.size, other.size),
                                              files |-> @.files + other.files]]
                ELSE Put(kept, Other, other)
  IN {Row("extension", e, [size |-> merged[e].size, files |-> merged[e].files,
                           directories |-> 0]) : e \in DOMAIN merged}

Extensions(acc) ==
  LET rows == Descending(ExtensionRows(acc))
  IN IF Len(rows) <= MaxGroups THEN rows
     ELSE Append(SubSeq(rows, 1, MaxGroups - 1),
                 Row("other", Other, Omitted(SubSeq(rows, MaxGroups, Len(rows)))))

=============================================================================
