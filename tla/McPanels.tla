------------------------------- MODULE McPanels -------------------------------
(***************************************************************************)
(* les11_my_mc: the two panels of the file manager.  main keeps, for each  *)
(* panel, a path and the list that scandir returned; one cursor for the    *)
(* active panel; and the working directory of the process, in which every  *)
(* name of the active list is looked up.  Nothing checks the results of    *)
(* chdir, realpath and scandir.  After a scandir that fails the list is a  *)
(* freed pointer of size -1, and using it is undefined.  What F5 does      *)
(* between the threads is McCopy.                                          *)
(***************************************************************************)
EXTENDS Integers, Sequences, FiniteSets

CONSTANTS Dirs, Start,       \* directories, and the one the program starts in
          Tree,              \* names of subdirectories of each, with "." and ".."
          Names,             \* all names in the order of a listing
          Files,             \* names of files, with their places at the start
          Searchable, Listable, Writable   \* permissions of directories

DirNames(d) == DOMAIN Tree[d]

(* No name of a directory is sorted before "." where the program starts.    *)
ASSUME TreeConstants ==
    /\ {Searchable, Listable, Writable} \subseteq SUBSET Dirs
    /\ Start \in Dirs \cap Searchable \cap Listable
    /\ Names \in Seq(STRING) /\ Len(Names) > 0 /\ Names[1] = "."
    /\ Files \in [Dirs -> SUBSET STRING]
    /\ \A d \in Dirs : /\ "." \in DirNames(d) /\ Tree[d]["."] = d
                       /\ \A n \in DirNames(d) : Tree[d][n] \in Dirs
    /\ \A d \in Dirs : Files[d] \cap DirNames(d) = {}

Nowhere == "nowhere"         \* what realpath leaves for a name it cannot find
Freed == <<<<"", "freed">>>>

Sides == {"left", "right"}
Other(s) == IF s = "left" THEN "right" ELSE "left"

VARIABLES main,      \* waiting for a key, or in a state it does not leave
          content,   \* files in each directory
          cwd,       \* the working directory
          active,    \* currentWindowType
          path,      \* leftDirPath and rightDirPath
          list,      \* leftDir and rightDir
          selected,  \* selectedPosition
          clone,     \* the keyboard belongs to a child whose exec failed
          denied     \* history: a directory could not be entered or listed

vars == <<main, content, cwd, active, path, list, selected, clone, denied>>

(* The place in Names of the kth of those that are in ns.                   *)
Places(ns) == {p \in 1..Len(Names) : Names[p] \in ns}
Kth(k, ns) == CHOOSE p \in Places(ns) : Cardinality({q \in Places(ns) : q <= p}) = k

Entries(ns, kind) == [k \in 1..Cardinality(Places(ns)) |-> <<Names[Kth(k, ns)], kind>>]

(* goodSort: directories by name, then files in the order of the directory. *)
Listing(d, files) == Entries(DirNames(d), "dir") \o Entries(files[d], "file")

Scandir(d, files) == IF d \in Listable THEN Listing(d, files) ELSE Freed

(* The working directory after chdir(d) in directory from.                  *)
Chdir(from, d) == IF d \in Searchable THEN d ELSE from

Init == /\ main = "getch"
        /\ content = Files
        /\ cwd = Start
        /\ active = "left" /\ selected = 0
        /\ path = [s \in Sides |-> Start]
        /\ list = [s \in Sides |-> Scandir(Start, Files)]
        /\ clone = FALSE /\ denied = FALSE

-----------------------------------------------------------------------------
Key == main = "getch"

InList == list[active] # Freed /\ selected < Len(list[active])
Name == list[active][selected + 1][1]
Kind == list[active][selected + 1][2]

(* Enter or F5 on an entry that is not there reads freed or foreign memory; *)
(* Tab or F5 on a list that was freed frees it again.                       *)
Astray == /\ Key
          /\ ~InList \/ \E s \in Sides : list[s] = Freed
          /\ main' = "undefined"
          /\ UNCHANGED <<content, cwd, active, path, list, selected, clone, denied>>

(* The program runs and ends; a child that cannot exec it goes on in main.  *)
EnterFile == /\ Key /\ InList /\ Kind = "file"
             /\ clone' \in {clone, TRUE}
             /\ UNCHANGED <<main, content, cwd, active, path, list, selected, denied>>

Realpath(n) == IF n \in DirNames(cwd) THEN Tree[cwd][n] ELSE Nowhere

(* Lists the working directory, whether or not that is the new path.        *)
EnterDir == /\ Key /\ InList /\ Kind = "dir"
            /\ path' = [path EXCEPT ![active] = Realpath(Name)]
            /\ cwd' = Chdir(cwd, path'[active])
            /\ list' = [list EXCEPT ![active] = Scandir(cwd', content)]
            /\ selected' = 0
            /\ denied' = (denied \/ path'[active] \notin Searchable \cap Listable)
            /\ UNCHANGED <<main, content, active, clone>>

(* The panel that is left is listed again, the one that is entered is not.  *)
Tab == /\ Key /\ list[active] # Freed
       /\ active' = Other(active)
       /\ list' = [list EXCEPT ![active] = Scandir(path[active], content)]
       /\ cwd' = Chdir(cwd, path[Other(active)])
       /\ selected' = 0
       /\ UNCHANGED <<main, content, path, clone, denied>>

Size == IF list[active] = Freed THEN -1 ELSE Len(list[active])

(* Bound of the model, of use only where the list is freed: Len(Names).     *)
Down == /\ Key /\ selected # Size - 1
        /\ selected < Len(Names)
        /\ selected' = selected + 1
        /\ UNCHANGED <<main, content, cwd, active, path, list, clone, denied>>

(* Mutant: no stop at the first entry.                                      *)
UpFromFirst == /\ Key
               /\ selected' = selected - 1
               /\ UNCHANGED <<main, content, cwd, active, path, list, clone, denied>>

Up == /\ Key /\ selected # 0
      /\ selected' = selected - 1
      /\ UNCHANGED <<main, content, cwd, active, path, list, clone, denied>>

(* What copy leaves in the directory it could change to.                    *)
Copied(n, d) == IF d \in Writable /\ n \notin DirNames(d)
                THEN [content EXCEPT ![d] = @ \cup {n}] ELSE content

(* main comes back after a copy the updater saw to its end, or at once from *)
(* an empty file; the size of a file that is not there is undefined.        *)
Copyable == /\ Key /\ InList /\ Kind = "file"
            /\ list[Other(active)] # Freed

There == Chdir(cwd, path[Other(active)])

Rescan == list' = [list EXCEPT ![Other(active)] =
                                   Scandir(path[Other(active)], content')]

(* Mutant: the other panel is not listed again.                             *)
F5WithoutScan == /\ Copyable
                 /\ content' = Copied(Name, There)
                 /\ cwd' = Chdir(There, path[active])
                 /\ UNCHANGED <<main, active, path, list, selected, clone, denied>>

F5 == /\ Copyable
      /\ content' = Copied(Name, There)
      /\ cwd' = Chdir(There, path[active])
      /\ Rescan
      /\ UNCHANGED <<main, active, path, selected, clone, denied>>

(* read fails on a directory or without a file, and a child has no updater: *)
(* main spins in drawProgressWindow, with a new file in the other directory.*)
F5Hangs == /\ Key /\ InList
           /\ Kind = "dir" \/ clone \/ Name \notin content[cwd]
           /\ content' = Copied(Name, There)
           /\ cwd' = There
           /\ main' = "spin"
           /\ UNCHANGED <<active, path, list, selected, clone, denied>>

CtrlX == /\ Key
         /\ main' = IF clone THEN "join" ELSE "ended"
         /\ UNCHANGED <<content, cwd, active, path, list, selected, clone, denied>>

Next == \/ Astray \/ EnterFile \/ EnterDir \/ Tab \/ Down \/ Up
        \/ F5 \/ F5Hangs \/ CtrlX

Spec == Init /\ [][Next]_vars

-----------------------------------------------------------------------------
(* Properties *)

TypeOK == /\ main \in {"getch", "spin", "join", "ended", "undefined"}
          /\ content \in [Dirs -> SUBSET STRING]
          /\ cwd \in Dirs /\ active \in Sides
          /\ path \in [Sides -> Dirs \cup {Nowhere}]
          /\ DOMAIN list = Sides
          /\ selected \in Nat
          /\ clone \in BOOLEAN /\ denied \in BOOLEAN

(* While every directory could be entered and listed, names are looked up   *)
(* where the active panel says it is.                                       *)
ActiveIsCwd == (~denied /\ main = "getch") => cwd = path[active]

(* Both panels show what is in their directories: also after copies, though *)
(* Tab does not list the panel it enters, nor F5 the one it copies from.    *)
ListsFresh ==
    (~denied /\ main = "getch") => \A s \in Sides : list[s] = Listing(path[s], content)

(* The cursor is on an entry, though lists of other lengths come and go     *)
(* under it, so no key reaches beyond a list.                               *)
CursorInList == ~denied => InList /\ main # "undefined"

(* What a key is taken to mean is what the screen shows.                    *)
PanelsInStep == ActiveIsCwd /\ ListsFresh /\ CursorInList
=============================================================================
