------------------------------- MODULE Embedder -------------------------------
(* embedder.c, the tool of the build that makes a header of the files an         *)
(* application of libwdi carries: the fixed ones of embedder_files.h and those of *)
(* the directory of the user.  A file is [reuse, opens, readable, time, data];    *)
(* one with <<reuse>> stands for the data of the one before it, under its own     *)
(* name.  A header has an array for each file that is read, and an entry for each *)
(* file, which names its array.                                                   *)
EXTENDS Integers, SequencesExt, FiniteSetsExt

FileType == [reuse : BOOLEAN, opens : BOOLEAN, readable : BOOLEAN, time : Int, data : Nat]

CONSTANT ArrayNames  \* how many names there are for arrays (256)

ASSUME EmbedderAssumption == ArrayNames \in Nat \ {0}

\* The fixed files come first; scan_dir finds those of the user's directory and below.
AddUserFiles(fixed, found) == fixed \o found

\* A header is made again when a file is newer than it, or can not be looked at.
IsOutdated(header, files) ==
  \/ ~header.there
  \/ \E i \in DOMAIN files : /\ ~files[i].reuse
                             /\ ~files[i].opens \/ files[i].time > header.time

\* The number in the name of the array of a file; an entry has the one of the last file that
\* was read, and the size that was noted at that number.
ArrayName(i) == (i - 1) % ArrayNames
LastRead(files, i) == Max({1} \cup {j \in 1..i : ~files[j].reuse})
Array(files, i) == [name |-> ArrayName(i), data |-> files[i].data]
Entry(files, i) ==
  LET name == ArrayName(LastRead(files, i)) IN [array |-> name, size |-> files[name + 1].data]

\* A file that can not be read leaves no header, for the build to make it again.
NoHeader == [there |-> FALSE, time |-> 0, arrays |-> <<>>, entries |-> <<>>]
MakeHeader(files, now) ==
  LET Write(arrays, i) == IF files[i].reuse THEN arrays ELSE Append(arrays, Array(files, i)) IN
  IF \E i \in DOMAIN files : ~files[i].reuse /\ ~(files[i].opens /\ files[i].readable)
  THEN [code |-> 1, header |-> NoHeader]
  ELSE [code |-> 0,
        header |-> [there |-> TRUE, time |-> now,
                    arrays |-> FoldLeft(Write, <<>>, [i \in DOMAIN files |-> i]),
                    entries |-> [i \in DOMAIN files |-> Entry(files, i)]]]

Embed(header, writable, files, now) ==
  IF ~IsOutdated(header, files) THEN [code |-> 0, header |-> header]
  ELSE IF ~writable THEN [code |-> 1, header |-> header]
  ELSE MakeHeader(files, now)

--------------------------------------------------------------------------------
(* What is meant by a header of files: an entry for each, whose array is there once *)
(* and has the data and the size of the file, or of the one whose data it reuses.   *)
HoldsFiles(header, files) ==
  /\ header.there /\ Len(header.entries) = Len(files)
  /\ \A i \in DOMAIN files :
       LET named == {k \in DOMAIN header.arrays : header.arrays[k].name = header.entries[i].array}
           meant == files[Max({j \in 1..i : ~files[j].reuse})].data IN
       /\ Cardinality(named) = 1
       /\ \A k \in named : header.arrays[k].data = meant
       /\ header.entries[i].size = meant

(* A run that ends well leaves such a header, or the one from before if that is newer *)
(* than every file; any other leaves the one from before or none.                     *)
EmbedIsMeant(made, files) ==
  /\ made.after.code = 0 /\ Len(files) <= ArrayNames =>
       \/ HoldsFiles(made.after.header, files)
       \/ /\ made.after.header = made.before
          /\ \A i \in DOMAIN files : files[i].reuse \/ files[i].time <= made.before.time
  /\ made.after.code # 0 => made.after.header \in {made.before, NoHeader}
=============================================================================
