---------------------------- MODULE MCProgramsProofs ----------------------------
(* What the programs for one machine keep, whichever of them is chosen: for *)
(* windows of any size, any number of users and lines of any length.        *)
EXTENDS MCPrograms, FiniteSetTheorems, SequenceTheorems, WellFoundedInduction,
        TLAPS

(* A step is one of the chosen program, and the others stand still.         *)
LEMMA OneProgram ==
    ASSUME [Step]_all
    PROVE  [ED!Next]_edVars /\ [DR!Next]_drVars /\ [AL!Next]_alVars /\ [KM!Next]_kmVars
           /\ [KP!Next]_kpVars /\ [Next]_vars /\ [PI!Next]_piVars /\ [CL!Next]_clVars
           /\ [TE!Next]_teVars
BY DEF Step, all, Choose, Les10, Les11, Les12, Les14, Les15, Line, Les29, Loading, Les31

(***************************************************************************)
(* Numbers and sets of numbers                                             *)
(***************************************************************************)
(* A set of natural numbers that is not empty has a lowest one.             *)
LEMMA Lowest ==
    ASSUME NEW T, T \subseteq Nat, T # {}
    PROVE  \E a \in T : \A b \in T : a <= b
<1> DEFINE less == OpToRel(<, Nat)
<1>1. IsWellFoundedOn(less, Nat)
  BY NatLessThanWellFounded
<1>2. \A a, b \in Nat : <<b, a>> \in less <=> b < a
  <2>1. less = {p \in Nat \X Nat : p[1] < p[2]}
    BY DEF OpToRel
  <2> HIDE DEF less
  <2> QED
    BY <2>1
<1> HIDE DEF less
<1>3. PICK a \in T : \A b \in T : ~ <<b, a>> \in less
  BY <1>1, WFMin
<1>4. ASSUME NEW b \in T PROVE a <= b
  <2>1. a \in Nat /\ b \in Nat /\ ~ (b < a)
    BY <1>2, <1>3, Zenon
  <2> QED
    BY <2>1
<1> QED
  BY <1>3, <1>4


LEMMA Element == ASSUME NEW S, NEW s \in Seq(S), NEW n \in 1..Len(s) PROVE s[n] \in S
OBVIOUS

LEMMA Replaced ==
    ASSUME NEW S, NEW s \in Seq(S), NEW n \in 1..Len(s), NEW e \in S
    PROVE  LET t == [s EXCEPT ![n] = e]
           IN  /\ t \in Seq(S) /\ Len(t) = Len(s) /\ t[n] = e
               /\ \A m \in 1..Len(s) : m # n => t[m] = s[m]
OBVIOUS

LEMMA Finite ==
    ASSUME NEW n \in Nat, NEW P, P \subseteq 1..n
    PROVE  IsFiniteSet(P) /\ Cardinality(P) \in Nat /\ \A p \in P : p \in Nat
<1>1. IsFiniteSet(1..n)
  BY FS_Interval
<1>2. IsFiniteSet(P)
  BY <1>1, FS_Subset
<1> QED
  BY <1>2, FS_CardinalityType

(* In a set of numbers there is a first, a second, and so on to the last.   *)
LEMMA Ranks ==
    ASSUME NEW n \in Nat, NEW P, P \subseteq 1..n, NEW k \in 1..Cardinality(P)
    PROVE  \E p \in P : Cardinality({q \in P : q <= p}) = k
<1> DEFINE UpTo(p) == {q \in P : q <= p}
           Missing == {m \in 1..Cardinality(P) : \A p \in P : Cardinality(UpTo(p)) # m}
<1>1. IsFiniteSet(P) /\ Cardinality(P) \in Nat /\ \A p \in P : p \in Nat
  BY Finite
<1>2. \A p : IsFiniteSet(UpTo(p)) /\ Cardinality(UpTo(p)) \in Nat
  BY <1>1, FS_Subset, FS_CardinalityType
<1>3. ASSUME Missing # {} PROVE FALSE
  <2>1. PICK m \in Missing : \A j \in Missing : m <= j
    <3>1. Missing \subseteq Nat
      BY <1>1
    <3> QED
      BY <1>3, <3>1, Lowest
  <2>2. m \in 1..Cardinality(P) /\ \A p \in P : Cardinality(UpTo(p)) # m
    OBVIOUS
  <2>3. CASE m = 1
    <3>1. P # {} /\ P \subseteq Nat
      BY <1>1, <2>2, FS_EmptySet
    <3>2. PICK a \in P : \A b \in P : a <= b
      BY <3>1, Lowest
    <3>3. UpTo(a) = {a}
      <4>1. a \in P /\ \A b \in P : b <= a <=> b = a
        BY <1>1, <3>2
      <4> QED
        BY <4>1
    <3>4. Cardinality(UpTo(a)) = 1
      BY <3>3, FS_Singleton
    <3> QED
      BY <2>2, <2>3, <3>4
  <2>4. CASE m # 1
    <3>1. m - 1 \in 1..Cardinality(P) /\ m - 1 \notin Missing
      BY <1>1, <2>1, <2>2, <2>4
    <3>2. PICK p \in P : Cardinality(UpTo(p)) = m - 1
      BY <3>1
    <3>3. P \ UpTo(p) # {} /\ P \ UpTo(p) \subseteq Nat
      <4>1. Cardinality(UpTo(p)) # Cardinality(P)
        BY <1>1, <2>2, <3>2
      <4>2. UpTo(p) # P /\ UpTo(p) \subseteq P
        BY <4>1
      <4> HIDE DEF UpTo
      <4> QED
        BY <1>1, <4>2
    <3>4. PICK a \in P \ UpTo(p) : \A b \in P \ UpTo(p) : a <= b
      BY <3>3, Lowest
    <3>5. UpTo(a) = UpTo(p) \cup {a} /\ a \notin UpTo(p)
      <4>1. a \in P /\ ~(a <= p) /\ p \in Nat /\ a \in Nat
        BY <1>1, <3>4
      <4>2. \A b \in P : b <= p \/ a <= b
        BY <3>4
      <4>3. \A b \in P : b <= a <=> b <= p \/ b = a
        BY <1>1, <4>1, <4>2
      <4> QED
        BY <4>1, <4>3
    <3> HIDE DEF UpTo, Missing
    <3>6. Cardinality(UpTo(a)) = Cardinality(UpTo(p)) + 1
      BY <1>2, <3>5, FS_AddElement
    <3>7. Cardinality(UpTo(a)) = m
      BY <1>1, <2>2, <3>2, <3>6
    <3> QED
      BY <2>2, <3>4, <3>7
  <2> QED
    BY <2>3, <2>4
<1> QED
  BY <1>3

-----------------------------------------------------------------------------
(* The panels of les11 *)

Entry == STRING \X {"dir", "file"}

LEMMA EntriesNamed ==
    ASSUME NEW ns, NEW which
    PROVE  /\ Cardinality(Places(ns)) \in Nat /\ Places(ns) \subseteq 1..Len(Names)
           /\ \A k \in 1..Cardinality(Places(ns)) :
                  Kth(k, ns) \in 1..Len(Names) /\ Names[Kth(k, ns)] \in ns
<1>1. Len(Names) \in Nat /\ Places(ns) \subseteq 1..Len(Names)
  BY TreeConstants DEF Places
<1>2. Cardinality(Places(ns)) \in Nat
  BY <1>1, Finite
<1>3. ASSUME NEW k \in 1..Cardinality(Places(ns)) PROVE Kth(k, ns) \in Places(ns)
  BY <1>1, Ranks DEF Kth
<1> QED
  BY <1>1, <1>2, <1>3 DEF Places

(* A listing has lines, and shows what is there.                            *)
LEMMA ListingTrue ==
    ASSUME NEW d \in Dirs, NEW files
    PROVE  /\ Listing(d, files) \in Seq(Entry) /\ Len(Listing(d, files)) > 0
           /\ \A k \in 1..Len(Listing(d, files)) :
                /\ Listing(d, files)[k][2] = "dir" => Listing(d, files)[k][1] \in DirNames(d)
                /\ Listing(d, files)[k][2] = "file" => Listing(d, files)[k][1] \in files[d]
<1> DEFINE dirs == Entries(DirNames(d), "dir")
           others == Entries(files[d], "file")
           m == Cardinality(Places(DirNames(d)))
           n == Cardinality(Places(files[d]))
<1>1. m \in Nat /\ n \in Nat
  BY EntriesNamed
<1>2. dirs = [k \in 1..m |-> <<Names[Kth(k, DirNames(d))], "dir">>]
      /\ others = [k \in 1..n |-> <<Names[Kth(k, files[d])], "file">>]
  BY DEF Entries
<1>3. \A k \in 1..m : dirs[k] \in Entry /\ dirs[k][2] = "dir" /\ dirs[k][1] \in DirNames(d)
  <2> SUFFICES ASSUME NEW k \in 1..m
               PROVE  dirs[k] \in Entry /\ dirs[k][2] = "dir" /\ dirs[k][1] \in DirNames(d)
    OBVIOUS
  <2>1. Kth(k, DirNames(d)) \in 1..Len(Names) /\ Names[Kth(k, DirNames(d))] \in DirNames(d)
    BY EntriesNamed
  <2>2. dirs[k] = <<Names[Kth(k, DirNames(d))], "dir">>
    BY <1>2
  <2> HIDE DEF dirs, m
  <2>3. Names[Kth(k, DirNames(d))] \in STRING
    BY <2>1, TreeConstants
  <2> QED
    BY <2>1, <2>2, <2>3 DEF Entry
<1>4. \A k \in 1..n : others[k] \in Entry /\ others[k][2] = "file" /\ others[k][1] \in files[d]
  <2> SUFFICES ASSUME NEW k \in 1..n
               PROVE  others[k] \in Entry /\ others[k][2] = "file" /\ others[k][1] \in files[d]
    OBVIOUS
  <2>1. Kth(k, files[d]) \in 1..Len(Names) /\ Names[Kth(k, files[d])] \in files[d]
    BY EntriesNamed
  <2>2. others[k] = <<Names[Kth(k, files[d])], "file">>
    BY <1>2
  <2> HIDE DEF others, n
  <2>3. Names[Kth(k, files[d])] \in STRING
    BY <2>1, TreeConstants
  <2> QED
    BY <2>1, <2>2, <2>3 DEF Entry
<1>5. m > 0
  <2>1. 1 \in Places(DirNames(d))
    BY TreeConstants DEF Places
  <2>2. IsFiniteSet(Places(DirNames(d)))
    <3>1. Len(Names) \in Nat /\ Places(DirNames(d)) \subseteq 1..Len(Names)
      BY EntriesNamed, TreeConstants
    <3> QED
      BY <3>1, Finite
  <2> QED
    BY <1>1, <2>1, <2>2, FS_EmptySet
<1>6. Listing(d, files) = dirs \o others
  BY DEF Listing
<1> HIDE DEF dirs, others, m, n
<1>7. dirs \in Seq(Entry) /\ Len(dirs) = m /\ others \in Seq(Entry) /\ Len(others) = n
  <2>1. dirs \in [1..m -> Entry] /\ others \in [1..n -> Entry]
    <3>1. dirs = [k \in 1..m |-> dirs[k]] /\ others = [k \in 1..n |-> others[k]]
      BY <1>2, Zenon
    <3> QED
      BY <1>3, <1>4, <3>1
  <2> QED
    BY <1>1, <2>1
<1>8. /\ dirs \o others \in Seq(Entry) /\ Len(dirs \o others) = m + n
      /\ \A k \in 1..(m + n) : \/ k \in 1..m /\ (dirs \o others)[k] = dirs[k]
                               \/ k - m \in 1..n /\ (dirs \o others)[k] = others[k - m]
  BY <1>1, <1>7
<1>9. "dir" # "file"
  OBVIOUS
<1>10. Listing(d, files) \in Seq(Entry) /\ Len(Listing(d, files)) = m + n /\ m + n > 0
  BY <1>1, <1>5, <1>6, <1>8
<1>11. ASSUME NEW k \in 1..(m + n)
       PROVE  /\ Listing(d, files)[k][2] = "dir" => Listing(d, files)[k][1] \in DirNames(d)
              /\ Listing(d, files)[k][2] = "file" => Listing(d, files)[k][1] \in files[d]
  <2>1. CASE k \in 1..m /\ (dirs \o others)[k] = dirs[k]
    BY <1>3, <1>6, <1>9, <2>1
  <2>2. CASE k - m \in 1..n /\ (dirs \o others)[k] = others[k - m]
    BY <1>4, <1>6, <1>9, <2>2
  <2> QED
    BY <1>8, <2>1, <2>2
<1> QED
  BY <1>10, <1>11

(* It is not the freed pointer, and looks at the files of its directory.    *)
LEMMA ListingHeld ==
    ASSUME NEW d \in Dirs, NEW files
    PROVE  /\ Listing(d, files) # Freed
           /\ \A more : more[d] = files[d] => Listing(d, more) = Listing(d, files)
<1>1. Listing(d, files)[1] \in Entry
  BY ListingTrue
<1>2. Freed[1] = <<"", "freed">> /\ Freed[1] \notin Entry
  BY DEF Freed, Entry
<1> QED
  BY <1>1, <1>2 DEF Listing

PanelTypes == /\ TypeOK
              /\ \A s \in Sides : list[s] \in Seq(Entry) \cup {Freed}

Panels == ~denied =>
    /\ \A s \in Sides : path[s] \in Searchable \cap Listable
    /\ main = "getch" => /\ cwd = path[active]
                         /\ \A s \in Sides : list[s] = Listing(path[s], content)
    /\ InList /\ main # "undefined"

PanelIInv == PanelTypes /\ Panels

LEMMA PanelsStart == Init => PanelIInv
<1> SUFFICES ASSUME Init PROVE PanelIInv
  OBVIOUS
<1>1. Start \in Dirs /\ Start \in Searchable \cap Listable /\ content \in [Dirs -> SUBSET STRING]
  BY TreeConstants DEF Init
<1>2. \A s \in Sides : list[s] = Listing(Start, content) /\ path[s] = Start
  BY <1>1 DEF Init, Scandir
<1>3. Listing(Start, content) \in Seq(Entry) /\ Len(Listing(Start, content)) > 0
      /\ Listing(Start, content) # Freed
  BY <1>1, ListingTrue, ListingHeld
<1>4. PanelTypes
  BY <1>1, <1>2, <1>3 DEF Init, PanelTypes, TypeOK, Sides
<1>5. Panels
  BY <1>1, <1>2, <1>3 DEF Init, Panels, InList, Sides
<1> QED
  BY <1>4, <1>5 DEF PanelIInv

LEMMA ScandirType ==
    ASSUME NEW d \in Dirs, NEW files
    PROVE  Scandir(d, files) \in Seq(Entry) \cup {Freed}
BY ListingTrue DEF Scandir

(* What a key does to the types.                                            *)
LEMMA PanelTypesStep == PanelIInv /\ Next => PanelTypes'
<1> SUFFICES ASSUME PanelTypes, Next PROVE PanelTypes'
  BY DEF PanelIInv
<1>1. /\ active \in Sides /\ Other(active) \in Sides /\ cwd \in Dirs
      /\ \A s \in Sides : path[s] \in Dirs \cup {Nowhere}
  BY DEF PanelTypes, TypeOK, Sides, Other
<1>2. \A from \in Dirs : \A d : Chdir(from, d) \in Dirs
  BY TreeConstants DEF Chdir
<1>3. Searchable \subseteq Dirs /\ Listable \subseteq Dirs /\ Writable \subseteq Dirs
  BY TreeConstants
<1>4. InList => Name \in STRING
  <2> SUFFICES ASSUME InList PROVE Name \in STRING
    OBVIOUS
  <2>1. list[active] \in Seq(Entry) /\ selected + 1 \in 1..Len(list[active])
    BY <1>1 DEF InList, PanelTypes, TypeOK
  <2> QED
    BY <2>1, Element DEF Name, Entry
<1>5. \A d \in Dirs \cup {Nowhere} : Scandir(d, content) \in Seq(Entry) \cup {Freed}
                                     /\ Scandir(d, content') \in Seq(Entry) \cup {Freed}
  BY <1>3, ScandirType DEF Scandir
<1>6. \A n \in STRING : \A d \in Dirs : Copied(n, d) \in [Dirs -> SUBSET STRING]
  BY <1>3 DEF Copied, PanelTypes, TypeOK
<1>7. CASE Astray \/ CtrlX
  BY <1>7 DEF Astray, CtrlX, PanelTypes, TypeOK
<1>12. CASE EnterFile
  <2>1. clone' \in BOOLEAN
    BY <1>12 DEF EnterFile, PanelTypes, TypeOK
  <2> QED
    BY <1>12, <2>1 DEF EnterFile, PanelTypes, TypeOK
<1>13. CASE Down \/ Up
  <2>1. selected' \in Nat
    BY <1>13 DEF Down, Up, PanelTypes, TypeOK
  <2> QED
    BY <1>13, <2>1 DEF Down, Up, PanelTypes, TypeOK
<1>8. CASE EnterDir
  <2>1. path'[active] \in Dirs \cup {Nowhere} /\ path' \in [Sides -> Dirs \cup {Nowhere}]
    <3>1. Realpath(Name) \in Dirs \cup {Nowhere}
      BY <1>1, TreeConstants DEF Realpath
    <3> QED
      BY <1>1, <1>8, <3>1 DEF EnterDir, PanelTypes, TypeOK
  <2>2. cwd' \in Dirs
    BY <1>1, <1>2, <1>8 DEF EnterDir
  <2>3. DOMAIN list' = Sides /\ \A s \in Sides : list'[s] \in Seq(Entry) \cup {Freed}
    BY <1>1, <1>5, <1>8, <2>2 DEF EnterDir, PanelTypes, TypeOK
  <2>4. denied' \in BOOLEAN
    BY <1>8 DEF EnterDir
  <2> QED
    BY <1>8, <2>1, <2>2, <2>3, <2>4 DEF EnterDir, PanelTypes, TypeOK
<1>9. CASE Tab
  <2>1. cwd' \in Dirs
    BY <1>1, <1>2, <1>9 DEF Tab
  <2>2. DOMAIN list' = Sides /\ \A s \in Sides : list'[s] \in Seq(Entry) \cup {Freed}
    BY <1>1, <1>5, <1>9 DEF Tab, PanelTypes, TypeOK
  <2> QED
    BY <1>1, <1>9, <2>1, <2>2 DEF Tab, PanelTypes, TypeOK
<1>10. CASE F5
  <2>1. There \in Dirs /\ cwd' \in Dirs /\ content' \in [Dirs -> SUBSET STRING]
    BY <1>1, <1>2, <1>4, <1>6, <1>10 DEF F5, Copyable, There
  <2>2. DOMAIN list' = Sides /\ \A s \in Sides : list'[s] \in Seq(Entry) \cup {Freed}
    BY <1>1, <1>5, <1>10 DEF F5, Rescan, PanelTypes, TypeOK
  <2> QED
    BY <1>10, <2>1, <2>2 DEF F5, PanelTypes, TypeOK
<1>11. CASE F5Hangs
  <2>1. There \in Dirs /\ cwd' \in Dirs /\ content' \in [Dirs -> SUBSET STRING]
    BY <1>1, <1>2, <1>4, <1>6, <1>11 DEF F5Hangs, There
  <2> QED
    BY <1>11, <2>1 DEF F5Hangs, PanelTypes, TypeOK
<1> QED
  BY <1>7, <1>8, <1>9, <1>10, <1>11, <1>12, <1>13 DEF Next

(* What it does to the panels while every directory could be entered.       *)
LEMMA PanelsStep == PanelIInv /\ Next => Panels'
<1> SUFFICES ASSUME PanelIInv, Next, ~denied' PROVE Panels'
  BY DEF Panels
<1>1. ~denied
  BY DEF Next, Astray, EnterFile, EnterDir, Tab, Down, Up, F5, F5Hangs, CtrlX, PanelIInv, PanelTypes, TypeOK
<1>2. /\ main = "getch" /\ cwd = path[active] /\ InList
      /\ \A s \in Sides : /\ path[s] \in Searchable \cap Listable /\ path[s] \in Dirs
                          /\ list[s] = Listing(path[s], content) /\ list[s] # Freed
                          /\ Len(list[s]) > 0
  <2>1. main = "getch"
    BY DEF Next, Key, Astray, EnterFile, EnterDir, Tab, Down, Up, F5, Copyable, F5Hangs, CtrlX
  <2>2. /\ cwd = path[active] /\ InList
        /\ \A s \in Sides : /\ path[s] \in Searchable \cap Listable
                            /\ list[s] = Listing(path[s], content)
    BY <1>1, <2>1 DEF PanelIInv, Panels
  <2>3. \A s \in Sides : path[s] \in Dirs
    BY <2>2, TreeConstants
  <2> QED
    BY <2>1, <2>2, <2>3, ListingTrue, ListingHeld
<1>3. /\ active \in Sides /\ Other(active) \in Sides /\ Other(active) # active
      /\ Sides = {active, Other(active)}
      /\ DOMAIN path = Sides /\ DOMAIN list = Sides /\ selected \in Nat
  BY DEF PanelIInv, PanelTypes, TypeOK, Sides, Other
<1>4. CASE Astray
  BY <1>2, <1>4 DEF Astray
<1>5. CASE EnterFile \/ CtrlX
  BY <1>2, <1>5 DEF EnterFile, CtrlX, Panels, InList
<1>6. CASE EnterDir
  <2>1. /\ path' = [path EXCEPT ![active] = Realpath(Name)] /\ cwd' = Chdir(cwd, path'[active])
        /\ list' = [list EXCEPT ![active] = Scandir(cwd', content)]
        /\ selected' = 0 /\ path'[active] \in Searchable \cap Listable
        /\ UNCHANGED <<main, content, active>>
    BY <1>6 DEF EnterDir
  <2>2. /\ cwd' = path'[active] /\ cwd' \in Dirs
        /\ list'[active] = Listing(path'[active], content)
    BY <1>3, <2>1, TreeConstants DEF Chdir, Scandir
  <2>3. /\ path'[Other(active)] = path[Other(active)] /\ list'[Other(active)] = list[Other(active)]
    BY <1>3, <2>1
  <2>4. list'[active] # Freed /\ Len(list'[active]) > 0
    BY <2>2, ListingTrue, ListingHeld
  <2>5. \A s \in Sides : path'[s] \in Searchable \cap Listable
                         /\ list'[s] = Listing(path'[s], content')
    BY <1>2, <1>3, <2>1, <2>2, <2>3
  <2> QED
    BY <1>2, <2>1, <2>2, <2>4, <2>5 DEF Panels, InList
<1>7. CASE Tab
  <2>1. /\ active' = Other(active) /\ list' = [list EXCEPT ![active] = Scandir(path[active], content)]
        /\ cwd' = Chdir(cwd, path[Other(active)]) /\ selected' = 0
        /\ UNCHANGED <<main, content, path>>
    BY <1>7 DEF Tab
  <2>2. cwd' = path[Other(active)] /\ \A s \in Sides : list'[s] = list[s]
    BY <1>2, <1>3, <2>1 DEF Chdir, Scandir
  <2> QED
    BY <1>2, <1>3, <2>1, <2>2 DEF Panels, InList
<1>8. CASE Down
  <2>1. /\ selected' = selected + 1 /\ selected # Len(list[active]) - 1
        /\ UNCHANGED <<main, content, cwd, active, path, list>>
    BY <1>2, <1>3, <1>8 DEF Down, Size
  <2>2. selected < Len(list[active]) /\ Len(list[active]) \in Nat
    <3>1. list[active] \in Seq(Entry)
      BY <1>2, <1>3 DEF PanelIInv, PanelTypes
    <3> QED
      BY <1>2, <3>1 DEF InList
  <2>3. selected' < Len(list[active])
    BY <1>3, <2>1, <2>2
  <2> QED
    BY <1>2, <1>3, <2>1, <2>3 DEF Panels, InList
<1>9. CASE Up
  <2>1. /\ selected' = selected - 1
        /\ UNCHANGED <<main, content, cwd, active, path, list>>
    BY <1>9 DEF Up
  <2>2. selected < Len(list[active]) /\ Len(list[active]) \in Nat
    <3>1. list[active] \in Seq(Entry)
      BY <1>2, <1>3 DEF PanelIInv, PanelTypes
    <3> QED
      BY <1>2, <3>1 DEF InList
  <2>3. selected' < Len(list[active])
    BY <1>3, <2>1, <2>2
  <2> QED
    BY <1>2, <1>3, <2>1, <2>3 DEF Panels, InList
<1>10. CASE F5
  <2> DEFINE here == path[active]
             other == path[Other(active)]
  <2>1. /\ content' = Copied(Name, There) /\ cwd' = Chdir(There, here)
        /\ list' = [list EXCEPT ![Other(active)] = Scandir(other, content')]
        /\ UNCHANGED <<main, active, path, selected>> /\ Kind = "file"
    BY <1>10 DEF F5, Rescan, Copyable
  <2>2. There = other /\ cwd' = here
    BY <1>2, <1>3, <2>1 DEF There, Chdir
  <2>3. Name \in content[here]
    <3>1. list[active] \in Seq(Entry) /\ list[active] = Listing(here, content) /\ here \in Dirs
      BY <1>2, <1>3 DEF PanelIInv, PanelTypes
    <3>2. selected + 1 \in 1..Len(list[active])
      BY <1>2, <1>3, <3>1 DEF InList
    <3> QED
      BY <2>1, <3>1, <3>2, ListingTrue DEF Name, Kind
  <2>4. content'[here] = content[here]
    <3>1. content \in [Dirs -> SUBSET STRING]
      BY DEF PanelIInv, PanelTypes, TypeOK
    <3> QED
      BY <1>2, <1>3, <2>1, <2>2, <2>3, <3>1 DEF Copied
  <2>5. list'[active] = Listing(here, content')
    BY <1>2, <1>3, <2>1, <2>4, ListingHeld
  <2>6. list'[Other(active)] = Listing(other, content')
    BY <1>2, <1>3, <2>1 DEF Scandir
  <2>7. InList'
    BY <1>2, <1>3, <2>1 DEF InList
  <2> QED
    BY <1>2, <1>3, <2>1, <2>2, <2>5, <2>6, <2>7 DEF Panels
<1>11. CASE F5Hangs
  BY <1>2, <1>11 DEF F5Hangs, Panels, InList
<1> QED
  BY <1>4, <1>5, <1>6, <1>7, <1>8, <1>9, <1>10, <1>11 DEF Next

LEMMA PanelIInvSteps == PanelIInv /\ [Next]_vars => PanelIInv'
<1>1. PanelIInv /\ UNCHANGED vars => PanelIInv'
  BY DEF vars, PanelIInv, PanelTypes, TypeOK, Panels, InList
<1> QED
  BY <1>1, PanelTypesStep, PanelsStep DEF PanelIInv

(* The panels, the working directory and the cursor go together, for every  *)
(* tree of directories and every sequence of keys, until a directory could  *)
(* not be entered or listed.                                                *)
THEOREM PanelsTogether == Lessons => []PanelsInStep
<1>1. PanelIInv => PanelsInStep
  BY DEF PanelIInv, Panels, PanelsInStep, ActiveIsCwd, ListsFresh, CursorInList
<1>2. AtStart => PanelIInv
  BY PanelsStart DEF AtStart
<1>3. PanelIInv /\ [Step]_all => PanelIInv'
  BY OneProgram, PanelIInvSteps
<1> QED
  BY <1>1, <1>2, <1>3, PTL DEF Lessons

-----------------------------------------------------------------------------
(* The editor of les10 *)

(* The rows written so far, and where the cursor is while they are written. *)
RowsUpTo(n) == [k \in 1..n |-> ED!Least(k, Rows) - 1]

SavingProgress == /\ key = "saving" => astray /\ saved = RowsUpTo(row)
                                       /\ (row > 0 => y = ED!Least(row, Rows) - 1)
                  /\ key # "saving" => saved = <<>> \/ saved = RowsUpTo(Rows + ED!HintLines)

EditorTypes == /\ tickX \in Int /\ tickY \in Int /\ ED!Inside(y, x)
               /\ astray \in BOOLEAN /\ row \in 0..(Rows + ED!HintLines)
               /\ key \in {"main", "getch", "saving", "exited"}

EditorIInv == EditorTypes /\ ED!CursorAtTicks /\ SavingProgress

-----------------------------------------------------------------------------
LEMMA EditorStarts == ED!Init => EditorIInv
<1> SUFFICES ASSUME ED!Init PROVE EditorIInv
  OBVIOUS
<1>1. ED!CursorAtTicks /\ astray \in BOOLEAN /\ key = "main"
  BY DEF ED!Init, ED!CursorAtTicks
<1>2. tickX \in Int /\ tickY \in Int /\ ED!Inside(y, x) /\ row \in 0..(Rows + ED!HintLines)
  BY ProgramConstants DEF ED!Init, ED!Inside, ED!HintLines
<1>3. SavingProgress
  BY DEF ED!Init, SavingProgress
<1> QED
  BY <1>1, <1>2, <1>3 DEF EditorIInv, EditorTypes

(* A move inside the window puts the cursor where the counters are.         *)
LEMMA TicksTogether ==
    ASSUME EditorIInv, NEW down \in Int, NEW across \in Int, ED!Ticks(down, across),
           ~astray => ED!Inside(down, across)
    PROVE  EditorTypes /\ tickX' \in Int /\ tickY' \in Int /\ ED!Inside(y, x)' /\ astray' \in BOOLEAN
           /\ ED!CursorAtTicks'
BY ProgramConstants DEF EditorIInv, EditorTypes, ED!Ticks, ED!Wmove, ED!Inside, ED!CursorAtTicks

(* What is not saving leaves the saved rows alone.                          *)
LEMMA ProgressStays ==
    ASSUME SavingProgress, UNCHANGED saved, key # "saving", key' # "saving"
    PROVE  SavingProgress'
BY DEF SavingProgress, RowsUpTo, ED!Least

LEMMA Arrows ==
    ASSUME EditorIInv, ED!KeyDown \/ ED!KeyUp \/ ED!KeyLeft \/ ED!KeyRight
    PROVE  EditorIInv'
<1> USE ProgramConstants
<1>1. /\ key = "getch" /\ UNCHANGED <<key, row, saved>>
  BY DEF ED!KeyDown, ED!KeyUp, ED!KeyLeft, ED!KeyRight, ED!Getch, ED!Ticks
<1>2. SavingProgress'
  BY <1>1, ProgressStays DEF EditorIInv
<1>3. CASE ED!KeyDown
  <2>1. ED!Least(tickX + 1, Rows - 1) \in Int
    BY DEF ED!Least, EditorIInv, EditorTypes
  <2>2. ~astray => ED!Inside(ED!Least(tickX + 1, Rows - 1), tickY)
    BY DEF ED!Least, EditorIInv, EditorTypes, ED!CursorAtTicks, ED!Inside
  <2> QED
    BY <1>1, <1>2, <1>3, <2>1, <2>2, TicksTogether DEF EditorIInv, EditorTypes, ED!KeyDown
<1>4. CASE ED!KeyUp
  <2>1. tickX - 1 \in Int /\ (~astray => ED!Inside(tickX - 1, tickY))
    BY <1>4 DEF ED!KeyUp, EditorIInv, EditorTypes, ED!CursorAtTicks, ED!Inside
  <2> QED
    BY <1>1, <1>2, <1>4, <2>1, TicksTogether DEF EditorIInv, EditorTypes, ED!KeyUp
<1>5. CASE ED!KeyLeft
  <2>1. tickY - 1 \in Int /\ (~astray => ED!Inside(tickX, tickY - 1))
    BY <1>5 DEF ED!KeyLeft, EditorIInv, EditorTypes, ED!CursorAtTicks, ED!Inside
  <2> QED
    BY <1>1, <1>2, <1>5, <2>1, TicksTogether DEF EditorIInv, EditorTypes, ED!KeyLeft
<1>6. CASE ED!KeyRight
  <2>1. tickY + 1 \in Int /\ (~astray => ED!Inside(tickX, tickY + 1))
    BY <1>6 DEF ED!KeyRight, EditorIInv, EditorTypes, ED!CursorAtTicks, ED!Inside
  <2> QED
    BY <1>1, <1>2, <1>6, <2>1, TicksTogether DEF EditorIInv, EditorTypes, ED!KeyRight
<1> QED
  BY <1>3, <1>4, <1>5, <1>6

(* A character leaves the cursor in the window.                             *)
LEMMA AfterInside ==
    ASSUME ED!Inside(y, x)
    PROVE  ED!Inside(ED!After[1], ED!After[2])
BY ProgramConstants DEF ED!Inside, ED!After

LEMMA Characters ==
    ASSUME EditorIInv, ED!Backspace \/ ED!Default \/ ED!Newline
    PROVE  EditorIInv'
<1>1. /\ key = "getch" /\ UNCHANGED <<key, row, saved>>
  BY DEF ED!Backspace, ED!Default, ED!Newline, ED!Getch
<1>2. SavingProgress'
  BY <1>1, ProgressStays DEF EditorIInv
<1>3. ED!Inside(ED!After[1], ED!After[2])
  BY AfterInside DEF EditorIInv, EditorTypes
<1>4. ASSUME tickX' \in Int, tickY' \in Int,
             IF ED!Inside(tickX', tickY') THEN y' = tickX' /\ x' = tickY' /\ astray' = FALSE
                                       ELSE y' = ED!After[1] /\ x' = ED!After[2] /\ astray' = TRUE
      PROVE  EditorIInv'
  <2>1. ED!Inside(y', x') /\ astray' \in BOOLEAN /\ ED!CursorAtTicks'
    BY <1>3, <1>4 DEF ED!CursorAtTicks
  <2>2. EditorTypes'
    BY <1>1, <1>4, <2>1 DEF EditorIInv, EditorTypes, ED!Inside, ED!HintLines
  <2> QED
    BY <1>2, <2>1, <2>2 DEF EditorIInv
<1>5. CASE ED!Backspace \/ ED!Default
  <2>1. tickX' = tickX /\ tickX' \in Int /\ tickY' \in Int
    BY <1>5 DEF ED!Backspace, ED!Default, EditorIInv, EditorTypes
  <2> QED
    BY <1>4, <1>5, <2>1 DEF ED!Backspace, ED!Default
<1>6. CASE ED!Newline
  <2>1. y \in 0..(Rows - 1) /\ y' \in 0..(Rows - 1) /\ x' \in 0..(Cols - 1)
    BY <1>6, ProgramConstants DEF EditorIInv, EditorTypes, ED!Newline, ED!Inside
  <2>2. astray' \in BOOLEAN /\ (~astray' => ~astray /\ y # Rows - 1)
    BY <1>6 DEF ED!Newline
  <2>3. y < Rows - 1 \/ y = Rows - 1
    BY <2>1, ProgramConstants
  <2>4. ~astray' => y = tickX /\ y' = y + 1 /\ x' = 0
    BY <1>6, <2>2, <2>3 DEF EditorIInv, ED!CursorAtTicks, ED!Newline
  <2>5. ED!CursorAtTicks'
    BY <1>6, <2>4 DEF ED!CursorAtTicks, ED!Newline
  <2> QED
    BY <1>1, <1>2, <1>6, <2>1, <2>2, <2>5 DEF EditorIInv, EditorTypes, ED!Newline, ED!Inside
<1> QED
  BY <1>5, <1>6

LEMMA Reading ==
    ASSUME EditorIInv, ED!Main \/ ED!Open \/ ED!Exit
    PROVE  EditorIInv'
<1>1. key # "saving" /\ key' # "saving" /\ UNCHANGED <<row, saved>>
  BY DEF ED!Main, ED!Open, ED!Exit, ED!Getch
<1>2. SavingProgress'
  BY <1>1, ProgressStays DEF EditorIInv
<1> QED
  BY <1>1, <1>2, ProgramConstants DEF EditorIInv, EditorTypes, ED!CursorAtTicks, ED!Main, ED!Open, ED!Exit, ED!Getch, ED!Anywhere, 
      ED!Wmove, ED!Inside

(* Each turn of the loop in funcWrite writes the row after the last one, or *)
(* the last row again.                                                      *)
LEMMA Saving ==
    ASSUME EditorIInv, ED!Save \/ ED!SaveRow \/ ED!Saved
    PROVE  EditorIInv'
<1>1. CASE ED!Save
  BY <1>1, ProgramConstants DEF ED!HintLines, ED!Save, EditorIInv, EditorTypes, ED!CursorAtTicks, SavingProgress, RowsUpTo, ED!Inside
<1>2. CASE ED!SaveRow
  <2>1. key = "saving" /\ astray /\ saved = RowsUpTo(row) /\ row \in Nat
    BY <1>2, ProgramConstants DEF ED!HintLines, ED!SaveRow, EditorIInv, SavingProgress, EditorTypes
  <2>2. y' = ED!Least(row + 1, Rows) - 1 /\ ED!Inside(y, x)'
    BY <1>2, <2>1, ProgramConstants DEF ED!HintLines, ED!SaveRow, ED!Wmove, ED!Inside, EditorIInv, EditorTypes, SavingProgress, ED!Least
  <2>3. saved' = RowsUpTo(row + 1)
    BY <1>2, <2>1, <2>2, ProgramConstants DEF ED!HintLines, ED!SaveRow, RowsUpTo, ED!Least
  <2> QED
    BY <1>2, <2>1, <2>2, <2>3, ProgramConstants DEF ED!HintLines, ED!SaveRow, EditorIInv, EditorTypes, ED!CursorAtTicks, SavingProgress
<1>3. CASE ED!Saved
  BY <1>3, ProgramConstants DEF ED!HintLines, ED!Saved, EditorIInv, EditorTypes, ED!CursorAtTicks, SavingProgress, RowsUpTo, ED!Inside, ED!Least
<1> QED
  BY <1>1, <1>2, <1>3

LEMMA EditorSteps == EditorIInv /\ [ED!Next]_edVars => EditorIInv'
<1> SUFFICES ASSUME EditorIInv, [ED!Next]_edVars PROVE EditorIInv'
  OBVIOUS
<1>1. CASE UNCHANGED edVars
  BY <1>1 DEF edVars, EditorIInv, EditorTypes, ED!CursorAtTicks, SavingProgress, RowsUpTo, ED!Inside, ED!Least
<1> QED
  BY <1>1, Arrows, Characters, Reading, Saving DEF ED!Next

(* The cursor follows the counters and a save writes every row, in a window *)
(* of any size.                                                             *)
THEOREM KeepsPlace == Lessons => []EditorKeepsPlace
<1>1. EditorIInv => EditorKeepsPlace
  BY DEF EditorIInv, SavingProgress, RowsUpTo, EditorKeepsPlace, ED!EditorKeepsPlace, ED!RowsSaved
<1>2. AtStart => EditorIInv
  BY EditorStarts DEF AtStart
<1>3. EditorIInv /\ [Step]_all => EditorIInv'
  BY OneProgram, EditorSteps
<1> QED
  BY <1>1, <1>2, <1>3, PTL DEF Lessons

-----------------------------------------------------------------------------
(* The drivers of les29 *)

DriversTypes == /\ transaction_complete \in {0, 1} /\ i \in Nat
                /\ cat \in [Readers -> {"none", "read", "set"}] /\ sees \in [Readers -> {0, 1}]
                /\ echo \in [Printers -> {"none", "copy", "printed", "past the end"}]
                /\ copied \in [Printers -> SUBSET Nat]
                /\ overlapped \subseteq Printers

(* Printers that copy at one time know of each other.                       *)
Alone == \A p \in Printers \ overlapped : \A q \in Printers :
             echo[p] = "copy" /\ echo[q] = "copy" => p = q

(* The index of a printer that ran alone is its own.                        *)
OwnIndex == \A p \in Printers \ overlapped :
    /\ echo[p] = "none" => copied[p] = {}
    /\ echo[p] = "copy" => i <= LineLength[p] /\ copied[p] = 0..(i - 1)

DriversIInv == DriversTypes /\ DR!RestsAtZero /\ Alone /\ OwnIndex /\ DR!LoneWritePrinted

-----------------------------------------------------------------------------
LEMMA DriversStart == DR!Init => DriversIInv
BY DEF DR!Init, DriversIInv, DriversTypes, DR!RestsAtZero, Alone, OwnIndex, DR!LoneWritePrinted

(* Reading: only the end of a cat leaves all readers at rest, and it leaves *)
(* the flag as the next cat wants it.                                       *)
LEMMA ReaderIInv ==
    ASSUME DriversIInv, NEW r \in Readers, DR!OpenCat(r) \/ DR!TestFlag(r) \/ DR!SetFlag(r) \/ DR!Interrupt(r)
    PROVE  DriversIInv'
<1> USE DEF DR!UNCHANGED_Printers
<1>1. UNCHANGED <<driver, i, echo, copied, overlapped>>
  BY DEF DR!OpenCat, DR!TestFlag, DR!SetFlag, DR!SetFlagTo, DR!Interrupt
<1>2. DriversTypes'
  <2>4. sees[r] \in {0, 1} /\ transaction_complete \in {0, 1}
    BY DEF DriversIInv, DriversTypes
  <2>5. sees[r] = 0 \/ sees[r] = 1
    BY <2>4
  <2>6. 1 - sees[r] \in {0, 1}
    <3>1. CASE sees[r] = 0
      BY <3>1
    <3>2. CASE sees[r] = 1
      BY <3>2
    <3> QED
      BY <2>5, <3>1, <3>2
  <2>1. transaction_complete' \in {0, 1}
    <3>1. \/ transaction_complete' = transaction_complete
          \/ transaction_complete' = 1 - sees[r]
      BY DEF DR!OpenCat, DR!TestFlag, DR!SetFlag, DR!SetFlagTo, DR!Interrupt
    <3> QED
      BY <2>4, <2>6, <3>1
  <2>2. cat' \in [Readers -> {"none", "read", "set"}]
    BY DEF DriversIInv, DriversTypes, DR!OpenCat, DR!TestFlag, DR!SetFlag, DR!SetFlagTo, DR!Interrupt
  <2>3. sees' \in [Readers -> {0, 1}]
    BY DEF DriversIInv, DriversTypes, DR!OpenCat, DR!TestFlag, DR!SetFlag, DR!SetFlagTo, DR!Interrupt
  <2> QED
    BY <1>1, <2>1, <2>2, <2>3 DEF DriversIInv, DriversTypes
<1>3. Alone' /\ OwnIndex' /\ DR!LoneWritePrinted'
  BY <1>1 DEF DriversIInv, Alone, OwnIndex, DR!LoneWritePrinted
<1>4. CASE DR!OpenCat(r) \/ DR!TestFlag(r)
  <2>1. cat'[r] # "none"
    BY <1>4 DEF DR!OpenCat, DR!TestFlag, DriversIInv, DriversTypes
  <2> QED
    BY <1>2, <1>3, <2>1 DEF DriversIInv, DR!RestsAtZero, DR!Resting
<1>5. CASE DR!SetFlag(r)
  <2>1. ASSUME DR!Resting', driver # "sysfs" PROVE transaction_complete' = 0
    <3>1. cat'[r] = "none"
      BY <2>1 DEF DR!Resting
    <3>2. sees[r] = 1
      BY <1>5, <2>1, <3>1 DEF DR!SetFlag, DR!SetFlagTo, DriversIInv, DriversTypes
    <3> QED
      BY <1>5, <3>2 DEF DR!SetFlag, DR!SetFlagTo
  <2> QED
    BY <1>1, <1>2, <1>3, <2>1 DEF DriversIInv, DR!RestsAtZero
<1>6. CASE DR!Interrupt(r)
  BY <1>2, <1>3, <1>6 DEF DriversIInv, DR!RestsAtZero, DR!Interrupt
<1> QED
  BY <1>4, <1>5, <1>6

(* Writing: who begins beside another is overlapped with it from then on.   *)
LEMMA StartIInv ==
    ASSUME DriversIInv, NEW p \in Printers, DR!StartCopy(p)
    PROVE  DriversIInv'
<1> USE DEF DR!StartCopy, DR!UNCHANGED_Readers, DriversIInv
<1>1. DriversTypes' /\ DR!RestsAtZero'
  BY DEF DriversTypes, DR!RestsAtZero, DR!Resting, DR!Copying
<1>2. echo[p] = "none" /\ echo'[p] = "copy" /\ i' = 0 /\ copied' = copied
  BY DEF DriversTypes
<1>3. \A q \in Printers \ {p} : echo'[q] = echo[q]
  BY DEF DriversTypes
<1>4. \A q \in Printers : q \notin overlapped' => q \notin overlapped
  OBVIOUS
<1>5. ASSUME NEW q \in Printers, q # p, q \notin overlapped' PROVE echo'[q] # "copy"
  BY <1>3, <1>5 DEF DR!Copying
<1>6. ASSUME NEW q \in Printers, p \notin overlapped', q # p PROVE echo'[q] # "copy"
  BY <1>3, <1>6 DEF DR!Copying
<1>7. Alone'
  BY <1>5, <1>6 DEF Alone
<1>8. OwnIndex' /\ DR!LoneWritePrinted'
  <2>1. p \notin overlapped' => copied'[p] = 0..(i' - 1) /\ i' <= LineLength[p]
    BY <1>2, <1>4, ProgramConstants DEF OwnIndex
  <2> QED
    BY <1>2, <1>3, <1>4, <1>5, <2>1 DEF OwnIndex, DR!LoneWritePrinted
<1> QED
  BY <1>1, <1>7, <1>8

LEMMA OneMore == ASSUME NEW n \in Nat PROVE (0..(n - 1)) \cup {n} = 0..n
OBVIOUS

(* One more character is copied, the line ends, or the printer is lost.     *)
LEMMA CopyIInv ==
    ASSUME DriversIInv, NEW p \in Printers, DR!CopyCharacter(p)
    PROVE  DriversIInv'
<1>1. /\ i \in Nat /\ LineLength[p] \in Nat /\ echo[p] = "copy"
      /\ overlapped' = overlapped /\ p \in DOMAIN echo /\ p \in DOMAIN copied
  BY ProgramConstants DEF DriversIInv, DriversTypes, DR!CopyCharacter
<1>2. i = LineLength[p] \/ i > LineLength[p] \/ i < LineLength[p]
  BY <1>1
<1>11. ASSUME i = LineLength[p]
       PROVE  /\ i' = i + 1 /\ copied' = copied
              /\ echo' = [echo EXCEPT ![p] = "printed"]
  BY <1>11 DEF DR!CopyCharacter
<1>12. ASSUME i > LineLength[p]
       PROVE  /\ i' = i /\ copied' = copied
              /\ echo' = [echo EXCEPT ![p] = "past the end"]
  <2>1. i # LineLength[p]
    BY <1>1, <1>12
  <2> QED
    BY <1>12, <2>1 DEF DR!CopyCharacter
<1>13. ASSUME i < LineLength[p]
       PROVE  /\ i' = i + 1 /\ echo' = echo
              /\ copied' = [copied EXCEPT ![p] = @ \cup {i}]
  <2>1. i # LineLength[p] /\ ~(i > LineLength[p])
    BY <1>1, <1>13
  <2> QED
    BY <2>1 DEF DR!CopyCharacter
<1>3. UNCHANGED <<driver, transaction_complete, cat, sees, interrupted>>
  BY DEF DR!CopyCharacter, DR!UNCHANGED_Readers
<1>4. DriversTypes' /\ DR!RestsAtZero'
  <2>1. i' \in Nat
    <3>1. i' = i + 1 \/ i' = i
      BY <1>2, <1>11, <1>12, <1>13
    <3> QED
      BY <1>1, <3>1
  <2>2. copied' \in [Printers -> SUBSET Nat]
    <3>1. copied \in [Printers -> SUBSET Nat] /\ copied[p] \cup {i} \in SUBSET Nat
      BY <1>1 DEF DriversIInv, DriversTypes
    <3> QED
      BY <1>2, <1>11, <1>12, <1>13, <3>1
  <2>3. echo' \in [Printers -> {"none", "copy", "printed", "past the end"}]
    BY <1>2, <1>11, <1>12, <1>13 DEF DriversIInv, DriversTypes
  <2> QED
    BY <1>1, <1>3, <2>1, <2>2, <2>3 DEF DriversIInv, DriversTypes, DR!RestsAtZero, DR!Resting
<1>5. \A q \in Printers \ {p} : echo'[q] = echo[q] /\ copied'[q] = copied[q]
  BY <1>2, <1>11, <1>12, <1>13 DEF DriversIInv, DriversTypes
<1>6. Alone'
  <2>1. \A q \in Printers : echo'[q] = "copy" => echo[q] = "copy"
    BY <1>1, <1>5
  <2> QED
    BY <1>1, <2>1 DEF DriversIInv, Alone
<1>7. \A q \in (Printers \ {p}) \ overlapped : echo[q] # "copy"
  BY <1>1 DEF DriversIInv, Alone
<1>8. ASSUME p \notin overlapped
      PROVE  \/ i = LineLength[p] /\ echo'[p] = "printed" /\ copied'[p] = 0..(i - 1)
             \/ i < LineLength[p] /\ echo'[p] = "copy" /\ i' = i + 1 /\ copied'[p] = 0..i
  <2>1. i <= LineLength[p] /\ copied[p] = 0..(i - 1)
    BY <1>1, <1>8 DEF DriversIInv, OwnIndex
  <2>2. CASE i = LineLength[p]
    <3>1. copied' = copied /\ echo' = [echo EXCEPT ![p] = "printed"]
      BY <1>11, <2>2
    <3>2. echo'[p] = "printed"
      BY <1>1, <3>1
    <3> QED
      BY <2>1, <2>2, <3>1, <3>2
  <2>3. CASE i < LineLength[p]
    <3>1. /\ copied' = [copied EXCEPT ![p] = @ \cup {i}]
          /\ echo' = echo /\ i' = i + 1
      BY <1>13, <2>3
    <3>2. copied'[p] = copied[p] \cup {i}
      BY <1>1, <3>1
    <3>3. (0..(i - 1)) \cup {i} = 0..i
      BY <1>1, OneMore
    <3>4. copied'[p] = 0..i
      BY <2>1, <3>2, <3>3
    <3> QED
      BY <1>1, <2>3, <3>1, <3>4
  <2> QED
    BY <1>1, <2>1, <2>2, <2>3
<1>9. ASSUME NEW q \in Printers \ overlapped
      PROVE  /\ echo'[q] = "none" => copied'[q] = {}
             /\ echo'[q] = "copy" => i' <= LineLength[q] /\ copied'[q] = 0..(i' - 1)
             /\ echo'[q] # "past the end"
             /\ echo'[q] = "printed" => copied'[q] = 0..(LineLength[q] - 1)
  <2>1. CASE q = p /\ i = LineLength[p]
    <3>1. ~(i < LineLength[p])
      BY <1>1, <2>1
    <3>2. echo'[p] = "printed" /\ copied'[p] = 0..(i - 1)
      BY <1>8, <2>1, <3>1
    <3> QED
      BY <2>1, <3>2
  <2>2. CASE q = p /\ i # LineLength[p]
    <3>1. i < LineLength[p] /\ echo'[p] = "copy" /\ i' = i + 1 /\ copied'[p] = 0..i
      BY <1>8, <2>2
    <3>2. i' <= LineLength[p] /\ i' - 1 = i
      BY <1>1, <3>1
    <3> QED
      BY <2>2, <3>1, <3>2
  <2>3. CASE q # p
    BY <1>5, <1>7, <2>3 DEF DriversIInv, OwnIndex, DR!LoneWritePrinted
  <2> QED
    BY <2>1, <2>2, <2>3
<1>10. OwnIndex' /\ DR!LoneWritePrinted'
  BY <1>1, <1>9 DEF OwnIndex, DR!LoneWritePrinted
<1> QED
  BY <1>4, <1>6, <1>10 DEF DriversIInv

LEMMA DriversStep == DriversIInv /\ [DR!Next]_drVars => DriversIInv'
<1> SUFFICES ASSUME DriversIInv, [DR!Next]_drVars PROVE DriversIInv'
  OBVIOUS
<1>1. CASE UNCHANGED drVars
  BY <1>1 DEF drVars, DriversIInv, DriversTypes, DR!RestsAtZero, DR!Resting, Alone, OwnIndex, DR!LoneWritePrinted
<1>2. CASE DR!Load
  BY <1>2 DEF DR!Load, DriversIInv, DriversTypes, DR!RestsAtZero, DR!Resting, Alone, OwnIndex, DR!LoneWritePrinted
<1> QED
  BY <1>1, <1>2, ReaderIInv, StartIInv, CopyIInv DEF DR!Next

(* When the last cat has ended the next one finds the flag at rest, and a   *)
(* writer that ran alone has its line printed: for any number of users.     *)
THEOREM LoneUsers == Lessons => []LoneUserServed
<1>1. DriversIInv => LoneUserServed
  BY DEF DriversIInv, LoneUserServed, DR!LoneUserServed
<1>2. AtStart => DriversIInv
  BY DriversStart DEF AtStart
<1>3. DriversIInv /\ [Step]_all => DriversIInv'
  BY OneProgram, DriversStep
<1> QED
  BY <1>1, <1>2, <1>3, PTL DEF Lessons

-----------------------------------------------------------------------------
(* The kernel modules of les29, les30 and les31: loading and unloading *)

Loaded == /\ module \in {"out", "register", "create", "unregister", "wait"} => ~attribute
          /\ module \in {"out", "wait"} => ~hooked
          /\ module \in {"return", "live"} => attribute
          /\ module # "freed" => ~failed /\ ~oops
          /\ kind \in {"none", "sys_module"} => ~hooked
          /\ kind = "sys_module" => module \notin {"register", "unregister"}
          /\ module = "live" => (kind = "firewall" => hooked)
          /\ module = "out" => inside = {}
          /\ kind = "none" <=> module = "out"

ModuleIInv == KM!TypeOK /\ Loaded /\ KM!FreedCodeOnlyAfterFailure

LEMMA ModuleStarts == KM!Init => ModuleIInv
BY DEF KM!Init, ModuleIInv, KM!TypeOK, Loaded, KM!FreedCodeOnlyAfterFailure

LEMMA ModuleSteps == ModuleIInv /\ [KM!Next]_kmVars => ModuleIInv'
<1> SUFFICES ASSUME ModuleIInv, [KM!Next]_kmVars PROVE ModuleIInv'
  OBVIOUS
<1> USE DEF ModuleIInv, KM!TypeOK, Loaded, KM!FreedCodeOnlyAfterFailure, KM!Handlers
<1>1. CASE UNCHANGED kmVars
  BY <1>1 DEF kmVars
<1>2. CASE KM!Insmod
  BY <1>2 DEF KM!Insmod
<1>3. CASE KM!Register
  BY <1>3 DEF KM!Register
<1>4. CASE KM!Create
  BY <1>4 DEF KM!Create
<1>5. CASE KM!Return
  BY <1>5 DEF KM!Return
<1>6. CASE KM!Put
  BY <1>6 DEF KM!Put
<1>7. CASE KM!Unregister
  BY <1>7 DEF KM!Unregister
<1>8. CASE KM!Free
  BY <1>8 DEF KM!Free
<1>9. ASSUME NEW h \in KM!Handlers, KM!Enter(h) PROVE ModuleIInv'
  BY <1>9 DEF KM!Enter
<1>10. ASSUME NEW h \in KM!Handlers, KM!Leave(h) PROVE ModuleIInv'
  BY <1>10 DEF KM!Leave
<1> QED
  BY <1>1, <1>2, <1>3, <1>4, <1>5, <1>6, <1>7, <1>8, <1>9, <1>10 DEF KM!Next

-----------------------------------------------------------------------------
(* The address of the ping module of les31 *)

Values == Addresses \cup {KP!Loopback, KP!Garbage}

AddressTypes ==
    /\ ip \in [1..Bytes -> Values]
    /\ oper \in [Users -> {"none", "update", "ping", "show"}]
    /\ arg \in [Users -> Values] /\ read \in [Users -> Seq(Values)]
    /\ byte \in [Users -> 0..Bytes]
    /\ disturbed \subseteq Users /\ torn \in BOOLEAN

(* An update that nothing disturbed has written all its bytes so far; one   *)
(* that was disturbed leaves a torn address.                                *)
Update(u) ==
    oper[u] = "update" =>
        /\ byte[u] < Bytes
        /\ u \in disturbed => torn
        /\ u \notin disturbed => /\ \A v \in Users \ {u} : oper[v] # "update"
                                 /\ \A b \in 1..byte[u] : ip[b] = arg[u]

(* A ping or show that nothing disturbs reads one address from its start.   *)
Reader(u) ==
    /\ u \notin disturbed => KP!Whole(read[u])
    /\ oper[u] \in {"ping", "show"} /\ u \notin disturbed =>
           /\ \A v \in Users : oper[v] # "update"
           /\ ~torn /\ Len(read[u]) = byte[u]
           /\ \A b \in 1..byte[u] : read[u][b] = ip[b]

AddressIInv ==
    AddressTypes /\ KP!UpdateRepairs /\ \A u \in Users : Update(u) /\ Reader(u)

LEMMA AddressStarts == KP!Init => AddressIInv
<1> SUFFICES ASSUME KP!Init PROVE AddressIInv
  OBVIOUS
<1>1. AddressTypes
  <2>1. KP!Loopback \in Values /\ <<>> \in Seq(Values) /\ 0 \in 0..Bytes
    BY ProgramConstants DEF Values
  <2> QED
    BY <2>1 DEF KP!Init, AddressTypes
<1>2. KP!UpdateRepairs
  BY DEF KP!Init, KP!UpdateRepairs, KP!Whole
<1>3. \A u \in Users : Update(u) /\ Reader(u)
  BY DEF KP!Init, Update, Reader, KP!Whole
<1> QED
  BY <1>1, <1>2, <1>3 DEF AddressIInv

LEMMA BeginSteps ==
    ASSUME AddressIInv, NEW u \in Users, NEW what \in {"update", "ping", "show"},
           NEW a \in Values, KP!Begin(u, what, a)
    PROVE  AddressIInv'
<1> USE DEF AddressIInv
<1>1. /\ oper[u] = "none" /\ oper'[u] = what /\ arg'[u] = a /\ read'[u] = <<>> /\ byte'[u] = 0
      /\ ip' = ip
      /\ \A v \in Users \ {u} : /\ oper'[v] = oper[v] /\ arg'[v] = arg[v]
                                /\ read'[v] = read[v] /\ byte'[v] = byte[v]
  BY DEF KP!Begin, AddressTypes
<1>2. /\ disturbed' = (disturbed \ {u})
                      \cup (IF what = "update" THEN KP!Running ELSE {})
                      \cup (IF KP!Updating # {} \/ (what # "update" /\ torn) THEN {u} ELSE {})
      /\ torn' = (torn \/ (what = "update" /\ KP!Updating # {}))
  BY DEF KP!Begin
<1>3. AddressTypes'
  <2>1. read' \in [Users -> Seq(Values)]
    BY DEF KP!Begin, AddressTypes
  <2>2. byte' \in [Users -> 0..Bytes]
    BY ProgramConstants DEF KP!Begin, AddressTypes
  <2>3. disturbed' \subseteq Users
    BY <1>2 DEF AddressTypes, KP!Running
  <2> QED
    BY <1>1, <1>2, <2>1, <2>2, <2>3 DEF KP!Begin, AddressTypes
<1>4. KP!Updating = {} <=> \A v \in Users : oper[v] # "update"
  BY DEF KP!Updating
<1>5. \A v \in Users : v \in KP!Running <=> oper[v] # "none"
  BY DEF KP!Running
<1>6. what # "update" => torn' = torn
  BY <1>2, <1>3 DEF AddressTypes
<1>7. KP!UpdateRepairs'
  <2> SUFFICES ASSUME KP!Updating' = {}, ~torn' PROVE KP!Whole(ip)
    BY <1>1 DEF KP!UpdateRepairs
  <2>1. what # "update"
    BY <1>1 DEF KP!Updating
  <2>2. KP!Updating = {} /\ ~torn
    BY <1>1, <1>6, <2>1 DEF KP!Updating
  <2> QED
    BY <2>2 DEF KP!UpdateRepairs
<1>8. Update(u)'
  <2> SUFFICES ASSUME what = "update" PROVE Update(u)'
    BY <1>1 DEF Update
  <2>1. byte'[u] < Bytes
    BY <1>1, ProgramConstants
  <2>2. u \in disturbed' => torn'
    BY <1>1, <1>2, <1>5
  <2>3. u \notin disturbed' => \A v \in Users \ {u} : oper'[v] # "update"
    BY <1>1, <1>2, <1>4
  <2>4. \A b \in 1..byte'[u] : FALSE
    BY <1>1
  <2> QED
    BY <2>1, <2>2, <2>3, <2>4 DEF Update
<1>9. Reader(u)'
  <2>1. KP!Whole(read'[u])
    BY <1>1 DEF KP!Whole
  <2>2. ASSUME what # "update", u \notin disturbed'
        PROVE  /\ \A v \in Users : oper'[v] # "update"
               /\ ~torn'
    BY <1>1, <1>2, <1>4, <1>6, <2>2
  <2>3. Len(read'[u]) = byte'[u] /\ \A b \in 1..byte'[u] : FALSE
    BY <1>1
  <2> QED
    BY <1>1, <2>1, <2>2, <2>3 DEF Reader
<1>10. ASSUME NEW v \in Users \ {u} PROVE Update(v)' /\ Reader(v)'
  <2>1. Update(v) /\ Reader(v)
    OBVIOUS
  <2>2. CASE what = "update"
    <3>1. v \in disturbed' <=> v \in disturbed \/ oper[v] # "none"
      BY <1>2, <1>5, <2>2
    <3>2. torn \/ oper[v] = "update" => torn'
      BY <1>2, <1>4, <2>2
    <3>3. Update(v)'
      BY <1>1, <2>1, <3>1, <3>2 DEF Update
    <3>4. Reader(v)'
      BY <1>1, <2>1, <3>1 DEF Reader
    <3> QED
      BY <3>3, <3>4
  <2>3. CASE what # "update"
    <3>1. v \in disturbed' <=> v \in disturbed
      BY <1>2, <2>3
    <3>2. \A w \in Users : oper'[w] = "update" <=> oper[w] = "update"
      BY <1>1, <2>3
    <3> QED
      BY <1>1, <1>6, <2>1, <2>3, <3>1, <3>2 DEF Update, Reader
  <2> QED
    BY <2>2, <2>3
<1> QED
  BY <1>3, <1>7, <1>8, <1>9, <1>10

LEMMA StoreSteps ==
    ASSUME AddressIInv, NEW u \in Users, KP!StoreByte(u)
    PROVE  AddressIInv'
<1> USE DEF AddressIInv
<1> DEFINE n == byte[u]
<1>1. /\ oper[u] = "update" /\ n \in Nat /\ n < Bytes /\ Bytes \in Nat /\ n + 1 \in 1..Bytes
      /\ arg[u] \in Values
  BY ProgramConstants DEF KP!StoreByte, Update, AddressTypes
<1>2. /\ ip' = [ip EXCEPT ![n + 1] = arg[u]] /\ byte' = [byte EXCEPT ![u] = n + 1]
      /\ UNCHANGED <<arg, read, opers, disturbed>>
  BY DEF KP!StoreByte
<1>3. byte'[u] = n + 1
  BY <1>2 DEF AddressTypes
<1>4. /\ n + 1 = Bytes => /\ oper' = [oper EXCEPT ![u] = "none"]
                          /\ torn' = (torn /\ u \in disturbed)
      /\ n + 1 # Bytes => UNCHANGED <<oper, torn>>
  BY <1>3 DEF KP!StoreByte, KP!End
<1>5. AddressTypes'
  <2>1. ip' \in [1..Bytes -> Values]
    BY <1>1, <1>2 DEF AddressTypes
  <2>2. byte' \in [Users -> 0..Bytes]
    BY <1>1, <1>2 DEF AddressTypes
  <2>3. oper' \in [Users -> {"none", "update", "ping", "show"}]
    BY <1>4 DEF AddressTypes
  <2>4. torn' \in BOOLEAN
    BY <1>4 DEF AddressTypes
  <2> QED
    BY <1>2, <2>1, <2>2, <2>3, <2>4 DEF AddressTypes
<1>6. \A v \in Users \ {u} : oper'[v] = oper[v] /\ byte'[v] = byte[v]
  BY <1>2, <1>4 DEF AddressTypes
<1>7. \A b \in 1..Bytes : b # n + 1 => ip'[b] = ip[b]
  BY <1>2 DEF AddressTypes
<1>8. ip'[n + 1] = arg[u]
  BY <1>1, <1>2 DEF AddressTypes
<1> HIDE DEF n
<1>9. u \notin disturbed => \A b \in 1..(n + 1) : ip'[b] = arg[u]
  <2> SUFFICES ASSUME u \notin disturbed, NEW b \in 1..(n + 1) PROVE ip'[b] = arg[u]
    OBVIOUS
  <2>1. CASE b = n + 1
    BY <1>8, <2>1
  <2>2. CASE b # n + 1
    <3>1. b \in 1..n /\ b \in 1..Bytes
      BY <1>1, <2>2
    <3> QED
      BY <1>1, <1>7, <2>2, <3>1 DEF Update, n
  <2> QED
    BY <2>1, <2>2
<1>10. ASSUME u \notin disturbed PROVE \A v \in Users \ {u} : oper[v] # "update"
  BY <1>1, <1>10 DEF Update
<1>11. u \in disturbed => torn /\ torn'
  BY <1>1, <1>4 DEF Update, AddressTypes
<1>12. KP!UpdateRepairs'
  <2> SUFFICES ASSUME KP!Updating' = {}, ~torn' PROVE KP!Whole(ip)'
    BY DEF KP!UpdateRepairs
  <2>1. u \notin disturbed
    BY <1>11
  <2>2. oper'[u] # "update"
    BY DEF KP!Updating
  <2>3. n + 1 = Bytes
    BY <1>1, <1>4, <2>2
  <2>4. \A b \in DOMAIN ip' : ip'[b] = arg[u]
    BY <1>5, <1>9, <2>1, <2>3 DEF AddressTypes
  <2> QED
    BY <1>1, <2>4 DEF KP!Whole, Values
<1>13. ASSUME NEW v \in Users \ {u} PROVE Update(v)' /\ Reader(v)'
  <2>1. Update(v) /\ Reader(v)
    OBVIOUS
  <2>2. ASSUME oper[v] = "update" PROVE v \in disturbed /\ u \in disturbed
    BY <1>1, <1>10, <2>1, <2>2 DEF Update
  <2>3. Update(v)'
    BY <1>2, <1>6, <1>11, <2>1, <2>2 DEF Update
  <2>4. oper[v] \in {"ping", "show"} => v \in disturbed
    BY <1>1, <2>1 DEF Reader
  <2>5. KP!Whole(read[v])' <=> KP!Whole(read[v])
    BY <1>2
  <2>6. Reader(v)'
    BY <1>2, <1>6, <2>1, <2>4, <2>5 DEF Reader
  <2> QED
    BY <2>3, <2>6
<1>14. Update(u)'
  BY <1>1, <1>2, <1>3, <1>4, <1>6, <1>9, <1>10, <1>11 DEF Update, AddressTypes
<1>15. Reader(u)'
  <2>1. oper'[u] \notin {"ping", "show"}
    BY <1>1, <1>4 DEF AddressTypes
  <2>2. KP!Whole(read[u])' <=> KP!Whole(read[u])
    BY <1>2
  <2> QED
    BY <1>2, <2>1, <2>2 DEF Reader
<1> QED
  BY <1>5, <1>12, <1>13, <1>14, <1>15

LEMMA ReadSteps ==
    ASSUME AddressIInv, NEW u \in Users, KP!ReadByte(u) \/ KP!Finish(u)
    PROVE  AddressIInv'
<1> USE DEF AddressIInv
<1>1. oper[u] \in {"ping", "show"} /\ UNCHANGED <<ip, arg, disturbed, torn>>
  BY DEF KP!ReadByte, KP!Finish
<1>2. \A v \in Users \ {u} : oper'[v] = oper[v] /\ byte'[v] = byte[v] /\ read'[v] = read[v]
  BY DEF KP!ReadByte, KP!Finish, KP!End, AddressTypes
<1>3. oper'[u] # "update" /\ \A v \in Users : oper'[v] = "update" <=> oper[v] = "update"
  BY <1>1, <1>2 DEF KP!ReadByte, KP!Finish, KP!End, AddressTypes
<1>4. KP!UpdateRepairs'
  <2>1. KP!Updating' = KP!Updating
    BY <1>3 DEF KP!Updating
  <2> QED
    BY <1>1, <2>1 DEF KP!UpdateRepairs, KP!Whole
<1>5. ASSUME NEW v \in Users \ {u} PROVE Update(v)' /\ Reader(v)'
  <2>1. Update(v) /\ Reader(v)
    OBVIOUS
  <2>2. KP!Whole(read[v])' <=> KP!Whole(read[v])
    BY <1>2 DEF KP!Whole
  <2> QED
    BY <1>1, <1>2, <1>3, <2>1, <2>2 DEF Update, Reader
<1>6. Update(u)'
  BY <1>3 DEF Update
<1>7. CASE KP!Finish(u)
  <2>1. oper' = [oper EXCEPT ![u] = "none"] /\ UNCHANGED <<read, byte>>
    BY <1>7 DEF KP!Finish, KP!End
  <2>2. AddressTypes'
    BY <1>1, <2>1 DEF AddressTypes
  <2>3. oper'[u] = "none"
    BY <2>1 DEF AddressTypes
  <2>4. KP!Whole(read[u])' <=> KP!Whole(read[u])
    BY <2>1
  <2>5. Reader(u)'
    BY <1>1, <2>1, <2>3, <2>4 DEF Reader
  <2> QED
    BY <1>4, <1>5, <1>6, <2>2, <2>5
<1>8. CASE KP!ReadByte(u)
  <2> DEFINE n == byte[u]
  <2>1. n \in Nat /\ n < Bytes /\ Bytes \in Nat /\ n + 1 \in 1..Bytes /\ ip[n + 1] \in Values
    BY <1>8, ProgramConstants DEF KP!ReadByte, AddressTypes
  <2>2. /\ read' = [read EXCEPT ![u] = Append(@, ip[n + 1])] /\ byte' = [byte EXCEPT ![u] = @ + 1]
        /\ UNCHANGED oper
    BY <1>8 DEF KP!ReadByte
  <2>3. read[u] \in Seq(Values) /\ Append(read[u], ip[n + 1]) \in Seq(Values)
    BY <2>1 DEF AddressTypes
  <2>4. AddressTypes'
    BY <1>1, <2>1, <2>2, <2>3 DEF AddressTypes
  <2>5. read'[u] = Append(read[u], ip[n + 1]) /\ byte'[u] = n + 1
    BY <2>2 DEF AddressTypes
  <2> HIDE DEF n
  <2>6. ASSUME u \notin disturbed
        PROVE  /\ Len(read'[u]) = n + 1 /\ KP!Whole(read'[u])
               /\ \A b \in 1..(n + 1) : read'[u][b] = ip[b]
    <3>1. /\ Len(read[u]) = n /\ ~torn /\ KP!Updating = {}
          /\ \A b \in 1..n : read[u][b] = ip[b]
      BY <1>1, <2>6 DEF Reader, n, KP!Updating
    <3>2. Len(read'[u]) = n + 1 /\ DOMAIN read'[u] = 1..(n + 1)
      BY <2>3, <2>5, <3>1
    <3>3. \A b \in 1..(n + 1) : read'[u][b] = ip[b]
      <4> SUFFICES ASSUME NEW b \in 1..(n + 1) PROVE read'[u][b] = ip[b]
        OBVIOUS
      <4>1. CASE b = n + 1
        BY <2>3, <2>5, <3>1, <4>1
      <4>2. CASE b # n + 1
        <5>1. b \in 1..n
          BY <2>1, <4>2
        <5>2. read'[u][b] = read[u][b]
          BY <2>3, <2>5, <3>1, <5>1
        <5> QED
          BY <3>1, <5>1, <5>2
      <4> QED
        BY <4>1, <4>2
    <3>4. PICK a \in Values : \A b \in 1..Bytes : ip[b] = a
      BY <3>1 DEF KP!UpdateRepairs, KP!Whole, Values, AddressTypes
    <3>5. \A b \in 1..(n + 1) : b \in 1..Bytes
      BY <2>1
    <3>6. \A b \in DOMAIN read'[u] : read'[u][b] = a
      BY <3>2, <3>3, <3>4, <3>5
    <3> QED
      BY <3>2, <3>3, <3>6 DEF KP!Whole, Values
  <2>7. Reader(u)'
    <3>1. KP!Whole(read[u])' <=> KP!Whole(read'[u])
      BY DEF KP!Whole
    <3> QED
      BY <1>1, <1>3, <2>2, <2>5, <2>6, <3>1 DEF Reader
  <2> QED
    BY <1>4, <1>5, <1>6, <2>4, <2>7
<1> QED
  BY <1>7, <1>8

LEMMA AddressSteps == AddressIInv /\ [KP!Next]_kpVars => AddressIInv'
<1> SUFFICES ASSUME AddressIInv, [KP!Next]_kpVars PROVE AddressIInv'
  OBVIOUS
<1>1. CASE UNCHANGED kpVars
  <2>1. UNCHANGED <<ip, oper, arg, read, byte, disturbed, torn>>
    BY <1>1 DEF kpVars
  <2>2. AddressTypes' /\ KP!UpdateRepairs'
    BY <2>1 DEF AddressIInv, AddressTypes, KP!UpdateRepairs, KP!Updating, KP!Whole
  <2>3. \A u \in Users : KP!Whole(read'[u]) <=> KP!Whole(read[u])
    BY <2>1
  <2>4. \A u \in Users : Update(u)' /\ Reader(u)'
    BY <2>1, <2>3 DEF AddressIInv, Update, Reader
  <2> QED
    BY <2>2, <2>4 DEF AddressIInv
<1>2. ASSUME NEW u \in Users, KP!AddrOper(u) \/ KP!AddrGet(u) PROVE AddressIInv'
  <2>1. arg[u] \in Values /\ \A a \in Addresses \cup {KP!Garbage} : a \in Values
    BY DEF AddressIInv, AddressTypes, Values
  <2> QED
    BY <1>2, <2>1, BeginSteps DEF KP!AddrOper, KP!AddrGet
<1> QED
  BY <1>1, <1>2, StoreSteps, ReadSteps DEF KP!Next

(* A module works while it is loaded and is not called when it is gone, and *)
(* its users see addresses that somebody wrote unless they overlap: for any *)
(* number of users and addresses of any length.                             *)
THEOREM Modules == Lessons => []ModulesServe
<1> DEFINE IInv == ModuleIInv /\ AddressIInv
<1>1. ModuleIInv => KM!LoadedOrGone
  BY DEF ModuleIInv, Loaded, KM!LoadedOrGone, KM!LoadedWorks
<1>2. AddressIInv => KP!AddressesWhole
  BY DEF AddressIInv, Reader, KP!AddressesWhole, KP!PingedWhole
<1>3. IInv => ModulesServe
  BY <1>1, <1>2 DEF ModulesServe
<1>4. AtStart => IInv
  BY ModuleStarts, AddressStarts DEF AtStart
<1>5. IInv /\ [Step]_all => IInv'
  BY OneProgram, ModuleSteps, AddressSteps
<1> HIDE DEF IInv
<1> QED
  BY <1>3, <1>4, <1>5, PTL DEF Lessons
-----------------------------------------------------------------------------
(* The allocator of les12 *)

Chunk == [ptr : Nat, size : Sizes, isFree : BOOLEAN]
Held == [ptr : Nat, size : Sizes]

HeapTypes == /\ chunk \in Seq(Chunk) /\ live \in Seq(Held) /\ brk \in Nat /\ tidy \in BOOLEAN
             /\ calls \in 0..MaxCalls
             /\ Len(live) > 0 => Len(chunk) > 0

Ends(b) == b.ptr + b.size

(* With tidy callers only the last chunk can be free, and what they hold    *)
(* lies in the order they got it, below that chunk when it is free.         *)
TidyHeap ==
    /\ \A m, n \in 1..Len(chunk) : chunk[m].size = chunk[n].size
    /\ \A n \in 1..Len(chunk) : (chunk[n].isFree => n = Len(chunk)) /\ Ends(chunk[n]) <= brk
    /\ \A k \in 1..Len(live) : Ends(live[k]) <= brk
    /\ \A j, k \in 1..Len(live) : j < k => Ends(live[j]) <= live[k].ptr
    /\ \A k \in 1..Len(live) : k < Len(live) \/ chunk[Len(chunk)].isFree =>
           Ends(live[k]) <= chunk[Len(chunk)].ptr

HeapIInv == HeapTypes /\ (tidy => TidyHeap)

(* The first chunk that fits.                                               *)
LEMMA LowestOf ==
    ASSUME NEW T, T \subseteq Nat, T # {}
    PROVE  (CHOOSE a \in T : \A b \in T : a <= b) \in T
BY Lowest

LEMMA HeapStarts == AL!Init => HeapIInv
BY ProgramConstants DEF AL!Init, HeapIInv, HeapTypes, TidyHeap

LEMMA MallocSteps ==
    ASSUME HeapIInv, NEW size \in Sizes, AL!GoodMalloc(size)
    PROVE  HeapIInv'
<1> USE DEF HeapIInv
<1>1. /\ Len(chunk) \in Nat /\ Len(live) \in Nat /\ size \in Nat /\ brk \in Nat
      /\ chunk \in Seq(Chunk) /\ live \in Seq(Held)
  BY ProgramConstants DEF HeapTypes
<1>2. /\ calls' \in 0..MaxCalls /\ tidy' \in BOOLEAN
      /\ tidy' => tidy /\ \A n \in 1..Len(chunk) : chunk[n].size = size
  <2>1. calls < MaxCalls /\ calls' = calls + 1 /\ calls \in 0..MaxCalls
    BY DEF AL!GoodMalloc, HeapTypes
  <2>2. tidy' = (tidy /\ \A n \in DOMAIN chunk : chunk[n].size = size) /\ tidy \in BOOLEAN
    BY DEF AL!GoodMalloc, HeapTypes
  <2>3. DOMAIN chunk = 1..Len(chunk)
    BY <1>1
  <2>4. calls' \in 0..MaxCalls
    BY <2>1, ProgramConstants
  <2> QED
    BY <2>2, <2>3, <2>4, Zenon
<1>3. \A n \in 1..Len(chunk) : chunk[n] \in Chunk /\ chunk[n].ptr \in Nat /\ chunk[n].size \in Nat
  <2>1. \A c \in Chunk : c.ptr \in Nat /\ c.size \in Nat
    BY ProgramConstants DEF Chunk
  <2> QED
    BY <1>1, <2>1, Element
<1>4. \A k \in 1..Len(live) : live[k] \in Held /\ live[k].ptr \in Nat /\ live[k].size \in Nat
  <2>1. \A b \in Held : b.ptr \in Nat /\ b.size \in Nat
    BY ProgramConstants DEF Held
  <2> QED
    BY <1>1, <2>1, Element
<1>5. CASE AL!Fitting(size) # {}
  <2> DEFINE lowest == CHOOSE n \in AL!Fitting(size) : \A m \in AL!Fitting(size) : n <= m
  <2>1. /\ chunk' = [chunk EXCEPT ![lowest].isFree = FALSE, ![lowest].size = size]
        /\ live' = Append(live, AL!Block(chunk[lowest].ptr, size))
        /\ UNCHANGED brk
    BY <1>5 DEF AL!GoodMalloc
  <2>2. lowest \in AL!Fitting(size)
    <3>1. AL!Fitting(size) \subseteq 1..Len(chunk)
      BY <1>1 DEF AL!Fitting
    <3> QED
      BY <1>1, <1>5, <3>1, LowestOf
  <2> HIDE DEF lowest
  <2>3. lowest \in 1..Len(chunk) /\ chunk[lowest].isFree
    BY <1>1, <2>2 DEF AL!Fitting
  <2>4. /\ chunk' \in Seq(Chunk) /\ Len(chunk') = Len(chunk)
        /\ chunk'[lowest].ptr = chunk[lowest].ptr /\ chunk'[lowest].size = size
        /\ chunk'[lowest].isFree = FALSE
        /\ \A n \in 1..Len(chunk) : n # lowest => chunk'[n] = chunk[n]
    <3> DEFINE new == [chunk[lowest] EXCEPT !.isFree = FALSE, !.size = size]
    <3>1. chunk' = [chunk EXCEPT ![lowest] = new]
      BY <1>1, <2>1, <2>3
    <3>2. new \in Chunk /\ new.ptr = chunk[lowest].ptr /\ new.size = size /\ new.isFree = FALSE
      BY <1>3, <2>3 DEF Chunk
    <3> HIDE DEF new
    <3>3. /\ chunk' \in Seq(Chunk) /\ Len(chunk') = Len(chunk) /\ chunk'[lowest] = new
          /\ \A n \in 1..Len(chunk) : n # lowest => chunk'[n] = chunk[n]
      BY <1>1, <2>3, <3>1, <3>2, Replaced
    <3> QED
      BY <3>2, <3>3
  <2> DEFINE block == AL!Block(chunk[lowest].ptr, size)
  <2>5. block \in Held /\ block.ptr = chunk[lowest].ptr /\ block.size = size
    BY <1>3, <2>3 DEF Held, AL!Block
  <2> HIDE DEF block
  <2>6. /\ live' \in Seq(Held) /\ Len(live') = Len(live) + 1 /\ live'[Len(live) + 1] = block
        /\ \A k \in 1..Len(live) : live'[k] = live[k]
    BY <1>1, <2>1, <2>5 DEF block
  <2>7. HeapTypes'
    BY <1>1, <1>2, <2>1, <2>3, <2>4, <2>6 DEF HeapTypes
  <2>8. ASSUME tidy' PROVE TidyHeap'
    <3> DEFINE last == Len(chunk)
    <3>1. TidyHeap /\ \A n \in 1..Len(chunk) : chunk[n].size = size
      BY <1>2, <2>8
    <3>2. lowest = last /\ last \in 1..Len(chunk)
      BY <2>3, <3>1 DEF TidyHeap
    <3>3. chunk'[last].ptr = chunk[last].ptr /\ chunk'[last].size = size /\ ~chunk'[last].isFree
      BY <2>4, <3>2
    <3>4. \A n \in 1..Len(chunk) : /\ chunk'[n].size = size /\ chunk'[n].ptr = chunk[n].ptr
                                   /\ ~chunk'[n].isFree
      <4> SUFFICES ASSUME NEW n \in 1..Len(chunk)
                   PROVE  /\ chunk'[n].size = size /\ chunk'[n].ptr = chunk[n].ptr
                          /\ ~chunk'[n].isFree
        OBVIOUS
      <4>1. CASE n = last
        BY <3>3, <4>1
      <4>2. CASE n # last
        BY <2>4, <3>1, <3>2, <4>2 DEF TidyHeap
      <4> QED
        BY <4>1, <4>2
    <3>5. \A k \in 1..Len(live) : Ends(live[k]) <= chunk[last].ptr
      BY <2>3, <3>1, <3>2 DEF TidyHeap
    <3>6. \A k \in 1..Len(live') : k \in 1..Len(live) \/ k = Len(live) + 1
      BY <1>1, <2>6
    <3>7. Ends(live'[Len(live) + 1]) <= brk /\ live'[Len(live) + 1].ptr = chunk[last].ptr
      BY <2>5, <2>6, <3>1, <3>2 DEF TidyHeap, Ends
    <3> HIDE DEF last
    <3>8. \A n \in 1..Len(chunk') : (chunk'[n].isFree => n = Len(chunk')) /\ Ends(chunk'[n]) <= brk'
      BY <2>1, <2>4, <3>1, <3>4 DEF TidyHeap, Ends
    <3>9. \A k \in 1..Len(live') : Ends(live'[k]) <= brk'
      BY <2>1, <2>6, <3>1, <3>6, <3>7 DEF TidyHeap
    <3>10. \A j, k \in 1..Len(live') : j < k => Ends(live'[j]) <= live'[k].ptr
      <4> SUFFICES ASSUME NEW j \in 1..Len(live'), NEW k \in 1..Len(live'), j < k
                   PROVE  Ends(live'[j]) <= live'[k].ptr
        OBVIOUS
      <4>1. j \in 1..Len(live) /\ live'[j] = live[j]
        BY <1>1, <2>6
      <4>2. CASE k \in 1..Len(live)
        BY <2>6, <3>1, <4>1, <4>2 DEF TidyHeap
      <4>3. CASE k = Len(live) + 1
        BY <3>5, <3>7, <4>1, <4>3
      <4> QED
        BY <3>6, <4>2, <4>3
    <3>11. \A k \in 1..Len(live') : k < Len(live') \/ chunk'[Len(chunk')].isFree =>
               Ends(live'[k]) <= chunk'[Len(chunk')].ptr
      <4> SUFFICES ASSUME NEW k \in 1..Len(live'), k < Len(live') \/ chunk'[Len(chunk')].isFree
                   PROVE  Ends(live'[k]) <= chunk'[Len(chunk')].ptr
        OBVIOUS
      <4>1. k \in 1..Len(live)
        BY <1>1, <2>4, <2>6, <3>2, <3>3 DEF last
      <4> QED
        BY <2>4, <2>6, <3>3, <3>5, <4>1 DEF last
    <3>12. \A m, n \in 1..Len(chunk') : chunk'[m].size = chunk'[n].size
      BY <2>4, <3>4
    <3> QED
      BY <3>8, <3>9, <3>10, <3>11, <3>12 DEF TidyHeap
  <2> QED
    BY <2>7, <2>8
<1>6. CASE AL!Fitting(size) = {}
  <2> DEFINE new == [ptr |-> brk, size |-> size, isFree |-> FALSE]
             block == AL!Block(brk, size)
  <2>1. chunk' = Append(chunk, new) /\ live' = Append(live, block) /\ brk' = brk + size
    BY <1>6 DEF AL!GoodMalloc
  <2>2. /\ new \in Chunk /\ new.ptr = brk /\ new.size = size /\ new.isFree = FALSE
        /\ block \in Held /\ block.ptr = brk /\ block.size = size
    BY <1>1 DEF Chunk, Held, AL!Block
  <2> HIDE DEF new, block
  <2>3. /\ chunk' \in Seq(Chunk) /\ Len(chunk') = Len(chunk) + 1 /\ chunk'[Len(chunk) + 1] = new
        /\ \A n \in 1..Len(chunk) : chunk'[n] = chunk[n]
    BY <1>1, <2>1, <2>2
  <2>4. /\ live' \in Seq(Held) /\ Len(live') = Len(live) + 1 /\ live'[Len(live) + 1] = block
        /\ \A k \in 1..Len(live) : live'[k] = live[k]
    BY <1>1, <2>1, <2>2
  <2>5. brk' \in Nat
    BY <1>1, <2>1
  <2>6. HeapTypes'
    BY <1>1, <1>2, <2>3, <2>4, <2>5 DEF HeapTypes
  <2>7. ASSUME tidy' PROVE TidyHeap'
    <3>1. TidyHeap /\ \A n \in 1..Len(chunk) : chunk[n].size = size
      BY <1>2, <2>7
    <3>2. \A n \in 1..Len(chunk) : ~chunk[n].isFree
      BY <1>1, <1>6, <3>1 DEF AL!Fitting
    <3>3. \A n \in 1..Len(chunk') : n \in 1..Len(chunk) \/ n = Len(chunk) + 1
      BY <1>1, <2>3
    <3>4. \A n \in 1..Len(chunk') : /\ chunk'[n].size = size /\ ~chunk'[n].isFree
                                    /\ Ends(chunk'[n]) <= brk'
      <4> SUFFICES ASSUME NEW n \in 1..Len(chunk')
                   PROVE  /\ chunk'[n].size = size /\ ~chunk'[n].isFree
                          /\ Ends(chunk'[n]) <= brk'
        OBVIOUS
      <4>1. CASE n \in 1..Len(chunk)
        <5>1. chunk'[n] = chunk[n] /\ chunk[n].size = size /\ Ends(chunk[n]) <= brk
              /\ chunk[n].ptr \in Nat
          BY <1>3, <2>3, <3>1, <4>1 DEF TidyHeap
        <5> QED
          BY <1>1, <2>1, <3>2, <4>1, <5>1 DEF Ends
      <4>2. CASE n = Len(chunk) + 1
        BY <1>1, <2>1, <2>2, <2>3, <4>2 DEF Ends
      <4> QED
        BY <3>3, <4>1, <4>2
    <3>5. \A k \in 1..Len(live) : live'[k] = live[k] /\ Ends(live[k]) <= brk
      BY <2>4, <3>1 DEF TidyHeap
    <3>6. \A k \in 1..Len(live') : k \in 1..Len(live) \/ k = Len(live) + 1
      BY <1>1, <2>4
    <3>7. Ends(live'[Len(live) + 1]) = brk' /\ live'[Len(live) + 1].ptr = brk
      BY <2>1, <2>2, <2>4 DEF Ends
    <3>8. \A k \in 1..Len(live') : Ends(live'[k]) <= brk'
      <4> SUFFICES ASSUME NEW k \in 1..Len(live') PROVE Ends(live'[k]) <= brk'
        OBVIOUS
      <4>1. CASE k \in 1..Len(live)
        <5>1. Ends(live[k]) \in Nat
          BY <1>4, <4>1 DEF Ends
        <5> QED
          BY <1>1, <2>1, <3>5, <4>1, <5>1
      <4>2. CASE k = Len(live) + 1
        BY <2>5, <3>7, <4>2
      <4> QED
        BY <3>6, <4>1, <4>2
    <3>9. \A j, k \in 1..Len(live') : j < k => Ends(live'[j]) <= live'[k].ptr
      <4> SUFFICES ASSUME NEW j \in 1..Len(live'), NEW k \in 1..Len(live'), j < k
                   PROVE  Ends(live'[j]) <= live'[k].ptr
        OBVIOUS
      <4>1. j \in 1..Len(live) /\ live'[j] = live[j]
        BY <1>1, <2>4
      <4>2. CASE k \in 1..Len(live)
        BY <2>4, <3>1, <4>1, <4>2 DEF TidyHeap
      <4>3. CASE k = Len(live) + 1
        BY <3>5, <3>7, <4>1, <4>3
      <4> QED
        BY <3>6, <4>2, <4>3
    <3>10. chunk'[Len(chunk')].ptr = brk /\ Len(chunk') \in 1..Len(chunk')
      BY <1>1, <2>2, <2>3
    <3>11. \A k \in 1..Len(live') : k < Len(live') \/ chunk'[Len(chunk')].isFree =>
               Ends(live'[k]) <= chunk'[Len(chunk')].ptr
      <4> SUFFICES ASSUME NEW k \in 1..Len(live'), k < Len(live') \/ chunk'[Len(chunk')].isFree
                   PROVE  Ends(live'[k]) <= chunk'[Len(chunk')].ptr
        OBVIOUS
      <4>1. k \in 1..Len(live)
        BY <1>1, <2>4, <3>4, <3>10
      <4> QED
        BY <3>5, <3>10, <4>1
    <3> QED
      BY <3>4, <3>8, <3>9, <3>11 DEF TidyHeap
  <2> QED
    BY <2>6, <2>7
<1> QED
  BY <1>5, <1>6

LEMMA FreeSteps ==
    ASSUME HeapIInv, NEW k \in 1..Len(live), AL!GoodFree(k)
    PROVE  HeapIInv'
<1> USE DEF HeapIInv
<1> DEFINE last == Len(chunk)
<1>1. /\ last \in Nat /\ Len(live) \in Nat /\ brk \in Nat /\ last \in 1..Len(chunk)
      /\ chunk \in Seq(Chunk) /\ live \in Seq(Held)
  BY DEF HeapTypes
<1>2. /\ calls' \in 0..MaxCalls /\ tidy' \in BOOLEAN /\ brk' = brk
      /\ tidy' => tidy /\ k = Len(live)
  <2>1. calls < MaxCalls /\ calls' = calls + 1 /\ calls \in 0..MaxCalls
    BY DEF AL!GoodFree, HeapTypes
  <2>2. tidy' = (tidy /\ k = Len(live)) /\ tidy \in BOOLEAN /\ brk' = brk
    BY DEF AL!GoodFree, HeapTypes
  <2>3. calls' \in 0..MaxCalls
    BY <2>1, ProgramConstants
  <2> QED
    BY <2>2, <2>3, Zenon
<1>3. /\ chunk' \in Seq(Chunk) /\ Len(chunk') = Len(chunk)
      /\ chunk'[last].ptr = chunk[last].ptr /\ chunk'[last].size = chunk[last].size
      /\ chunk'[last].isFree = TRUE
      /\ \A n \in 1..Len(chunk) : n # last => chunk'[n] = chunk[n]
  <2> DEFINE new == [chunk[last] EXCEPT !.isFree = TRUE]
  <2>1. chunk[last] \in Chunk
    BY <1>1, Element
  <2>2. chunk' = [chunk EXCEPT ![last] = new]
    BY <1>1 DEF AL!GoodFree
  <2>3. /\ new \in Chunk /\ new.ptr = chunk[last].ptr /\ new.size = chunk[last].size
        /\ new.isFree = TRUE
    BY <2>1 DEF Chunk
  <2> HIDE DEF new
  <2>4. /\ chunk' \in Seq(Chunk) /\ Len(chunk') = Len(chunk) /\ chunk'[last] = new
        /\ \A n \in 1..Len(chunk) : n # last => chunk'[n] = chunk[n]
    BY <1>1, <2>2, <2>3, Replaced
  <2> QED
    BY <2>3, <2>4
<1>4. /\ live' \in Seq(Held) /\ Len(live') = Len(live) - 1
      /\ k = Len(live) => \A j \in 1..Len(live') : live'[j] = live[j]
  <2>1. live' = [j \in 1..(Len(live) - 1) |-> IF j < k THEN live[j] ELSE live[j + 1]]
    BY DEF AL!GoodFree, AL!Without
  <2>2. \A j \in 1..(Len(live) - 1) : j \in 1..Len(live) /\ j + 1 \in 1..Len(live)
    BY <1>1
  <2>3. \A j \in 1..(Len(live) - 1) : live'[j] \in Held
    BY <1>1, <2>1, <2>2
  <2>4. Len(live) - 1 \in Nat
    BY <1>1
  <2>5. live' \in Seq(Held) /\ Len(live') = Len(live) - 1
    BY <2>1, <2>3, <2>4
  <2>6. k = Len(live) => \A j \in 1..Len(live') : live'[j] = live[j]
    BY <1>1, <2>1, <2>5
  <2> QED
    BY <2>5, <2>6
<1> HIDE DEF last
<1>5. HeapTypes'
  BY <1>1, <1>2, <1>3, <1>4 DEF HeapTypes, last
<1>6. ASSUME tidy' PROVE TidyHeap'
  <2>1. TidyHeap /\ k = Len(live)
    BY <1>2, <1>6
  <2>2. /\ \A n \in 1..Len(chunk) : /\ chunk'[n].size = chunk[n].size
                                    /\ chunk'[n].ptr = chunk[n].ptr
                                    /\ n # last => chunk'[n].isFree = chunk[n].isFree
    BY <1>3
  <2>3. \A j \in 1..Len(live') : j \in 1..Len(live) /\ j < Len(live) /\ live'[j] = live[j]
    BY <1>1, <1>4, <2>1
  <2>4. \A m, n \in 1..Len(chunk') : chunk'[m].size = chunk'[n].size
    BY <1>3, <2>1, <2>2 DEF TidyHeap
  <2>5. \A n \in 1..Len(chunk') : (chunk'[n].isFree => n = Len(chunk')) /\ Ends(chunk'[n]) <= brk'
    BY <1>2, <1>3, <2>1, <2>2 DEF TidyHeap, Ends, last
  <2>6. /\ \A j \in 1..Len(live') : Ends(live'[j]) <= brk'
        /\ \A j, n \in 1..Len(live') : j < n => Ends(live'[j]) <= live'[n].ptr
    BY <1>2, <2>1, <2>3 DEF TidyHeap
  <2>7. \A j \in 1..Len(live') : Ends(live'[j]) <= chunk'[Len(chunk')].ptr
    BY <1>1, <1>3, <2>1, <2>3 DEF TidyHeap, last
  <2> QED
    BY <2>4, <2>5, <2>6, <2>7 DEF TidyHeap
<1> QED
  BY <1>5, <1>6

LEMMA HeapSteps == HeapIInv /\ [AL!Next]_alVars => HeapIInv'
<1> SUFFICES ASSUME HeapIInv, [AL!Next]_alVars PROVE HeapIInv'
  OBVIOUS
<1>1. CASE UNCHANGED alVars
  BY <1>1 DEF alVars, HeapIInv, HeapTypes, TidyHeap, Ends
<1>2. DOMAIN live = 1..Len(live)
  BY DEF HeapIInv, HeapTypes
<1> QED
  BY <1>1, <1>2, MallocSteps, FreeSteps DEF AL!Next

(* Callers that ask for one size and free the latest first never share      *)
(* memory, for any sizes and any number of calls.                           *)
THEOREM TidyCallers == Lessons => []TidyCallersApart
<1>1. HeapIInv => TidyCallersApart
  <2> SUFFICES ASSUME HeapIInv, tidy, NEW j \in DOMAIN live, NEW k \in DOMAIN live, j # k
               PROVE  \/ live[j].ptr + live[j].size <= live[k].ptr
                      \/ live[k].ptr + live[k].size <= live[j].ptr
    BY DEF TidyCallersApart, AL!TidyCallersApart
  <2>1. j \in 1..Len(live) /\ k \in 1..Len(live) /\ (j < k \/ k < j)
    BY DEF HeapIInv, HeapTypes
  <2> QED
    BY <2>1 DEF HeapIInv, TidyHeap, Ends
<1>2. AtStart => HeapIInv
  BY HeapStarts DEF AtStart
<1>3. HeapIInv /\ [Step]_all => HeapIInv'
  BY OneProgram, HeapSteps
<1> QED
  BY <1>1, <1>2, <1>3, PTL DEF Lessons

-----------------------------------------------------------------------------
(* The pipelines of les15 *)

Top == <<number, forked>>
Drained(p) == p \in PI!Programs /\ program[p] = "exited" /\ pipe[p] = 0

(* Where the first program of line n reads.                                 *)
FirstReads(in, n) == IF n = 1 THEN in = PI!Terminal ELSE Drained(in) /\ in[1] < n

PipeTypes ==
    /\ shell \in {"prompt", "fork", "close", "copy"} /\ number \in 0..Lines /\ shown \in Nat
    /\ number = 0 => shell = "prompt" /\ forked = 0
    /\ number > 0 => /\ Len(line) \in 1..MaxPrograms /\ forked \in 0..Len(line)
                     /\ \A k \in 1..Len(line) : line[k] \in {"echo", "head", "cat", "missing"}
    /\ shell = "fork" => forked < Len(line)
    /\ shell = "close" => forked > 0
    /\ shell = "copy" \/ (shell = "prompt" /\ number > 0) => forked = Len(line)
    /\ ends \in [PI!Programs \cup {PI!Shell} -> SUBSET PI!Programs]
    /\ stdin \in [PI!Programs \cup {PI!Shell} -> PI!Programs \cup {PI!Terminal}]
    /\ pipe \in [PI!Programs -> Nat] /\ written \in [PI!Programs -> Nat]
    /\ hand \in [PI!Programs -> {0, 1}]
    /\ program \in [PI!Programs -> {"none", "echo", "head", "cat", "missing", "exited"}]

(* A program holds the write end of its pipe while it runs, and no other:   *)
(* the shell closes its own before it forks the next one.                   *)
Program(p) ==
    /\ p[1] > number \/ (p[1] = number /\ p[2] > forked) => program[p] = "none"
    /\ p[1] = number /\ p[2] <= forked => program[p] # "none"
    /\ program[p] = "none" => pipe[p] = 0 /\ written[p] = 0 /\ hand[p] = 0
    /\ ends[p] = IF program[p] \in {"none", "exited"} THEN {} ELSE {p}
    /\ hand[p] > 0 => program[p] \in {"head", "cat"}
    /\ program[p] = "head" /\ written[p] > 0 => hand[p] = 0
    /\ program[p] # "none" => IF p[2] > 1 THEN stdin[p] = <<p[1], p[2] - 1>>
                              ELSE FirstReads(stdin[p], p[1])
    /\ p[1] > 1 /\ p[2] = 1 /\ program[p] \in {"head", "cat"} => written[p] = 0 /\ hand[p] = 0

ShellAt ==
    /\ ends[PI!Shell] = IF shell = "close" THEN {Top} ELSE {}
    /\ shell = "prompt" => /\ FirstReads(stdin[PI!Shell], number + 1)
                           /\ number > 0 => Drained(Top) /\ shown = written[Top]
    /\ shell = "fork" => /\ shown = 0
                         /\ IF forked = 0 THEN FirstReads(stdin[PI!Shell], number)
                            ELSE stdin[PI!Shell] = Top
    /\ shell = "close" => shown = 0 /\ pipe[Top] = written[Top]
    /\ shell = "copy" => stdin[PI!Shell] = Top /\ shown + pipe[Top] = written[Top]

PipeIInv == PipeTypes /\ (\A p \in PI!Programs : Program(p)) /\ ShellAt

LEMMA PipesStart == PI!Init => PipeIInv
<1> SUFFICES ASSUME PI!Init PROVE PipeIInv
  OBVIOUS
<1>1. PipeTypes
  BY ProgramConstants DEF PI!Init, PipeTypes
<1>2. ASSUME NEW p \in PI!Programs PROVE Program(p)
  BY ProgramConstants DEF PI!Init, Program, PI!Programs
<1>3. ShellAt
  BY DEF PI!Init, ShellAt, FirstReads
<1> QED
  BY <1>1, <1>2, <1>3 DEF PipeIInv

LEMMA Places3 ==
    /\ \A p \in PI!Programs : p = <<p[1], p[2]>> /\ p[1] \in Nat \ {0} /\ p[2] \in Nat \ {0}
    /\ PI!Shell \notin PI!Programs /\ PI!Terminal \notin PI!Programs
BY ProgramConstants DEF PI!Programs, PI!Shell, PI!Terminal

(* What the programs do *)

(* Nobody but the shell reads the pipe of the last program forked.          *)
LEMMA OnlyShellReads ==
    ASSUME PipeIInv, NEW p \in PI!Programs, program[p] # "none", stdin[p] # PI!Terminal,
           pipe[stdin[p]] > 0
    PROVE  stdin[p] \in PI!Programs /\ stdin[p] # Top /\ ~(p[1] > 1 /\ p[2] = 1)
<1>1. /\ p = <<p[1], p[2]>> /\ p[1] \in Nat \ {0} /\ p[2] \in Nat \ {0}
      /\ number \in Nat /\ forked \in Nat
  <2>1. number \in Nat /\ forked \in Nat
    BY DEF PipeIInv, PipeTypes
  <2> QED
    BY <2>1, Places3
<1>2. Program(p)
  BY DEF PipeIInv
<1>3. stdin[p] \in PI!Programs
  BY DEF PipeIInv, PipeTypes
<1>4. p[2] > 1 /\ stdin[p] = <<p[1], p[2] - 1>>
  BY <1>1, <1>2 DEF Program, FirstReads, Drained
<1>5. stdin[p] # Top
  BY <1>1, <1>2, <1>4 DEF Top, Program
<1> QED
  BY <1>1, <1>3, <1>4, <1>5

LEMMA TopForked == PipeTypes /\ forked > 0 => Top \in PI!Programs
BY ProgramConstants DEF PipeTypes, Top, PI!Programs

(* A step of program p leaves the shell and the other programs alone, but   *)
(* for what it takes from its pipe.                                         *)
LEMMA OneRuns ==
    ASSUME PipeIInv, NEW p \in PI!Programs, program[p] \notin {"none", "exited"},
           PipeTypes', Program(p)',
           UNCHANGED <<shell, line, number, forked, stdin, shown>>,
           ends'[PI!Shell] = ends[PI!Shell],
           \A q \in PI!Programs : q # p =>
               /\ program'[q] = program[q] /\ written'[q] = written[q] /\ hand'[q] = hand[q]
               /\ ends'[q] = ends[q] /\ (pipe[q] = 0 => pipe'[q] = 0),
           forked > 0 => pipe'[Top] + written[Top] = pipe[Top] + written'[Top]
    PROVE  PipeIInv'
<1>1. ASSUME NEW q, Drained(q) PROVE Drained(q)' /\ q # p
  BY <1>1 DEF Drained
<1>2. ASSUME NEW in, NEW n, FirstReads(in, n) PROVE FirstReads(in, n)'
  BY <1>1, <1>2 DEF FirstReads
<1>3. ASSUME NEW q \in PI!Programs PROVE Program(q)'
  <2>1. CASE q # p
    <3>1. Program(q)
      BY DEF PipeIInv
    <3>2. q[1] > number \/ (q[1] = number /\ q[2] > forked) => program'[q] = "none"
      BY <2>1, <3>1 DEF Program
    <3>3. q[1] = number /\ q[2] <= forked => program'[q] # "none"
      BY <2>1, <3>1 DEF Program
    <3>4. program'[q] # "none" => IF q[2] > 1 THEN stdin'[q] = <<q[1], q[2] - 1>>
                                  ELSE FirstReads(stdin[q], q[1])'
      BY <1>2, <2>1, <3>1 DEF Program
    <3> QED
      BY <2>1, <3>1, <3>2, <3>3, <3>4 DEF Program
  <2> QED
    BY <2>1
<1>4. ShellAt'
  <2>1. ShellAt /\ PipeTypes
    BY DEF PipeIInv
  <2>2. ends'[PI!Shell] = IF shell' = "close" THEN {Top'} ELSE {}
    BY <2>1 DEF ShellAt, Top
  <2>3. Top' = Top /\ stdin'[PI!Shell] = stdin[PI!Shell]
    BY DEF Top
  <2>4. ASSUME shell' = "prompt"
        PROVE  /\ FirstReads(stdin[PI!Shell], number + 1)'
               /\ number' > 0 => Drained(Top)' /\ shown' = written'[Top]
    <3>1. FirstReads(stdin[PI!Shell], number + 1)
      BY <2>1, <2>4 DEF ShellAt
    <3>2. FirstReads(stdin[PI!Shell], number + 1)'
      BY <1>2, <3>1
    <3>3. ASSUME number > 0 PROVE Drained(Top)' /\ shown' = written'[Top]
      <4>1. Drained(Top) /\ shown = written[Top]
        BY <2>1, <2>4, <3>3 DEF ShellAt
      <4>2. Drained(Top)' /\ Top # p
        BY <1>1, <4>1, <2>3
      <4> QED
        BY <4>1, <4>2 DEF Drained
    <3> QED
      BY <3>2, <3>3
  <2>5. ASSUME shell' = "fork"
        PROVE  /\ shown' = 0
               /\ IF forked' = 0 THEN FirstReads(stdin[PI!Shell], number)'
                  ELSE stdin'[PI!Shell] = Top'
    BY <1>2, <2>1, <2>3, <2>5 DEF ShellAt
  <2>6. forked > 0 => /\ pipe[Top] \in Nat /\ written[Top] \in Nat
                      /\ pipe'[Top] \in Nat /\ written'[Top] \in Nat /\ shown \in Nat
    BY <2>1, TopForked DEF PipeTypes
  <2>7. ASSUME shell' = "close" PROVE shown' = 0 /\ pipe'[Top] = written'[Top]
    <3>1. shown = 0 /\ pipe[Top] = written[Top] /\ forked > 0
      BY <2>1, <2>7 DEF ShellAt, PipeTypes
    <3> QED
      BY <2>6, <3>1
  <2>8. ASSUME shell' = "copy" PROVE stdin'[PI!Shell] = Top' /\ shown' + pipe'[Top] = written'[Top]
    <3>1. stdin[PI!Shell] = Top /\ shown + pipe[Top] = written[Top] /\ forked > 0
      <4>1. number > 0
        BY <2>1, <2>8 DEF PipeTypes
      <4>2. Len(line) \in 1..MaxPrograms /\ forked = Len(line)
        BY <2>1, <2>8, <4>1 DEF PipeTypes
      <4> QED
        BY <2>1, <2>8, <4>2, ProgramConstants DEF ShellAt
    <3> QED
      BY <2>3, <2>6, <3>1
  <2> QED
    BY <2>2, <2>3, <2>4, <2>5, <2>7, <2>8 DEF ShellAt
<1> QED
  BY <1>3, <1>4 DEF PipeIInv

LEMMA RunSteps ==
    ASSUME PipeIInv, NEW p \in PI!Programs, PI!Run(p)
    PROVE  PipeIInv'
<1>1. /\ UNCHANGED <<shell, line, number, forked, stdin, shown>>
      /\ p = <<p[1], p[2]>> /\ p[1] \in Nat \ {0} /\ p[2] \in Nat \ {0} /\ p # PI!Shell
  BY Places3 DEF PI!Run, PI!Read, PI!ReadEnd, PI!Write, PI!Done, PI!UNCHANGED_Shell
<1>2. PipeTypes /\ Program(p)
  BY DEF PipeIInv
<1>3. program[p] \notin {"none", "exited"}
  <2>1. hand[p] > 0 => program[p] \in {"head", "cat"}
    BY <1>2 DEF Program
  <2> QED
    BY <2>1 DEF PI!Run, PI!Read, PI!ReadEnd, PI!Write, PI!Done, PI!Reads
<1>4. forked > 0 => Top \in PI!Programs
  BY <1>2, TopForked
<1>5. CASE PI!Read(p)
  <2>1. /\ UNCHANGED <<ends, program, written>> /\ hand' = [hand EXCEPT ![p] = 1]
        /\ program[p] \in {"head", "cat"} /\ (program[p] = "head" => written[p] = 0)
    BY <1>5 DEF PI!Read, PI!Reads
  <2>2. CASE stdin[p] = PI!Terminal
    <3>1. UNCHANGED pipe
      BY <1>5, <2>2 DEF PI!Read
    <3>2. PipeTypes'
      BY <1>1, <1>2, <2>1, <3>1 DEF PipeTypes
    <3>3. ~(p[1] > 1 /\ p[2] = 1)
      BY <1>1, <1>2, <1>3, <2>2, Places3 DEF Program, FirstReads, Drained
    <3>4. FirstReads(stdin[p], p[1])' <=> FirstReads(stdin[p], p[1])
      BY <1>1, <2>1, <3>1 DEF FirstReads, Drained
    <3>5. Program(p)'
      BY <1>1, <1>2, <2>1, <3>1, <3>3, <3>4 DEF Program
    <3> QED
      BY <1>1, <1>2, <1>3, <2>1, <3>1, <3>2, <3>5, OneRuns
  <2>3. CASE stdin[p] # PI!Terminal
    <3>1. /\ pipe[stdin[p]] > 0 /\ pipe' = [pipe EXCEPT ![stdin[p]] = @ - 1]
      BY <1>5, <2>3 DEF PI!Read
    <3>2. stdin[p] \in PI!Programs /\ stdin[p] # Top /\ ~(p[1] > 1 /\ p[2] = 1)
      BY <1>3, <2>3, <3>1, OnlyShellReads
    <3>3. pipe' \in [PI!Programs -> Nat]
      BY <1>2, <3>1, <3>2 DEF PipeTypes
    <3>4. \A q \in PI!Programs : pipe[q] = 0 => pipe'[q] = 0
      BY <1>2, <3>1, <3>2 DEF PipeTypes
    <3>5. PipeTypes'
      BY <1>1, <1>2, <2>1, <3>3 DEF PipeTypes
    <3>6. FirstReads(stdin[p], p[1]) => FirstReads(stdin[p], p[1])'
      BY <1>1, <2>1, <3>4 DEF FirstReads, Drained
    <3>7. Program(p)'
      BY <1>1, <1>2, <1>3, <2>1, <3>2, <3>6 DEF Program, PipeTypes
    <3>8. forked > 0 => pipe'[Top] = pipe[Top]
      BY <1>2, <1>4, <3>1, <3>2 DEF PipeTypes
    <3> QED
      BY <1>1, <1>2, <1>3, <2>1, <3>4, <3>5, <3>7, <3>8, OneRuns DEF PipeTypes
  <2> QED
    BY <2>2, <2>3
<1>6. CASE PI!ReadEnd(p) \/ PI!Done(p)
  <2>1. /\ UNCHANGED <<pipe, hand, written>> /\ hand[p] = 0
        /\ program' = [program EXCEPT ![p] = "exited"] /\ ends' = [ends EXCEPT ![p] = {}]
    <3>1. program[p] = "head" /\ written[p] = 1 => hand[p] = 0
      BY <1>2 DEF Program
    <3>2. program[p] \in {"echo", "missing"} => hand[p] = 0
      BY <1>2 DEF Program, PipeTypes
    <3> QED
      BY <1>6, <3>1, <3>2 DEF PI!ReadEnd, PI!Done, PI!Exit
  <2>2. PipeTypes'
    BY <1>1, <1>2, <2>1 DEF PipeTypes
  <2>3. FirstReads(stdin[p], p[1]) => FirstReads(stdin[p], p[1])'
    BY <1>1, <1>3, <2>1 DEF FirstReads, Drained
  <2>4. program'[p] = "exited" /\ ends'[p] = {} /\ ends'[PI!Shell] = ends[PI!Shell]
        /\ \A q \in PI!Programs : q # p => program'[q] = program[q] /\ ends'[q] = ends[q]
    BY <1>1, <1>2, <2>1 DEF PipeTypes
  <2>5. Program(p)'
    BY <1>1, <1>2, <1>3, <2>1, <2>3, <2>4 DEF Program
  <2> QED
    BY <1>1, <1>2, <1>3, <2>1, <2>2, <2>4, <2>5, OneRuns
<1>7. CASE PI!Write(p)
  <2>1. /\ UNCHANGED <<ends, program>> /\ pipe' = [pipe EXCEPT ![p] = @ + 1]
        /\ written' = [written EXCEPT ![p] = @ + 1] /\ hand' = [hand EXCEPT ![p] = 0]
        /\ program[p] = "echo" \/ hand[p] > 0
    BY <1>7 DEF PI!Write
  <2>2. /\ pipe[p] \in Nat /\ written[p] \in Nat
        /\ pipe'[p] = pipe[p] + 1 /\ written'[p] = written[p] + 1 /\ hand'[p] = 0
        /\ \A q \in PI!Programs : q # p => /\ pipe'[q] = pipe[q] /\ written'[q] = written[q]
                                           /\ hand'[q] = hand[q]
    BY <1>2, <2>1 DEF PipeTypes
  <2>3. PipeTypes'
    <3>1. pipe' \in [PI!Programs -> Nat] /\ written' \in [PI!Programs -> Nat]
          /\ hand' \in [PI!Programs -> {0, 1}]
      BY <1>2, <2>1 DEF PipeTypes
    <3> QED
      BY <1>1, <1>2, <2>1, <3>1 DEF PipeTypes
  <2>4. FirstReads(stdin[p], p[1]) => FirstReads(stdin[p], p[1])'
    <3>1. \A q : Drained(q) => Drained(q)'
      BY <1>3, <2>1, <2>2 DEF Drained
    <3> QED
      BY <1>1, <3>1 DEF FirstReads
  <2>5. ~(p[1] > 1 /\ p[2] = 1 /\ program[p] \in {"head", "cat"})
    BY <1>2, <2>1 DEF Program
  <2>6. Program(p)'
    BY <1>1, <1>2, <1>3, <2>1, <2>2, <2>4, <2>5 DEF Program
  <2>7. forked > 0 => pipe'[Top] + written[Top] = pipe[Top] + written'[Top]
    <3>1. forked > 0 => pipe[Top] \in Nat /\ written[Top] \in Nat
      BY <1>2, <1>4 DEF PipeTypes
    <3> QED
      BY <1>4, <2>2, <3>1
  <2>8. \A q \in PI!Programs : q # p => (pipe[q] = 0 => pipe'[q] = 0)
    BY <2>2
  <2> QED
    BY <1>1, <1>2, <1>3, <2>1, <2>2, <2>3, <2>6, <2>7, <2>8, OneRuns
<1> QED
  BY <1>5, <1>6, <1>7 DEF PI!Run

(* What the shell does *)

LEMMA GetlineSteps == PipeIInv /\ PI!Getline => PipeIInv'
<1> SUFFICES ASSUME PipeIInv, PI!Getline PROVE PipeIInv'
  OBVIOUS
<1>1. PipeTypes /\ ShellAt /\ \A p \in PI!Programs : Program(p)
  BY DEF PipeIInv
<1>2. /\ shell = "prompt" /\ number < Lines /\ number' = number + 1 /\ forked' = 0 /\ shown' = 0
      /\ shell' = "fork" /\ UNCHANGED <<ends, stdin, pipe, program, hand, written>>
  BY DEF PI!Getline, PI!UNCHANGED_Programs
<1>3. Len(line') \in 1..MaxPrograms
      /\ \A k \in 1..Len(line') : line'[k] \in {"echo", "head", "cat", "missing"}
  <2>1. PICK n \in 1..MaxPrograms : line' \in [1..n -> {"echo", "head", "cat", "missing"}]
    BY DEF PI!Getline
  <2>2. Len(line') = n
    BY <2>1, ProgramConstants
  <2> QED
    BY <2>1, <2>2
<1>4. number \in Nat /\ number' \in 1..Lines
  BY <1>1, <1>2, ProgramConstants DEF PipeTypes
<1>5. PipeTypes'
  BY <1>1, <1>2, <1>3, <1>4, ProgramConstants DEF PipeTypes
<1>6. \A in, n : FirstReads(in, n) => FirstReads(in, n)'
  BY <1>2 DEF FirstReads, Drained
<1>7. ASSUME NEW p \in PI!Programs PROVE Program(p)'
  <2>1. Program(p) /\ p[1] \in Nat /\ p[2] \in Nat \ {0}
    BY <1>1, Places3
  <2>2. p[1] > number' \/ (p[1] = number' /\ p[2] > forked') => program[p] = "none"
    <3>1. p[1] > number' \/ (p[1] = number' /\ p[2] > forked') => p[1] > number
      BY <1>2, <1>4, <2>1
    <3> QED
      BY <2>1, <3>1 DEF Program
  <2>3. ~(p[1] = number' /\ p[2] <= forked')
    BY <1>2, <2>1
  <2> QED
    BY <1>2, <1>6, <2>1, <2>2, <2>3 DEF Program
<1>8. ShellAt'
  <2>1. FirstReads(stdin[PI!Shell], number + 1)
    BY <1>1, <1>2 DEF ShellAt
  <2>2. FirstReads(stdin[PI!Shell], number)'
    BY <1>2, <2>1 DEF FirstReads, Drained
  <2> QED
    BY <1>1, <1>2, <2>2 DEF ShellAt
<1> QED
  BY <1>5, <1>7, <1>8 DEF PipeIInv

LEMMA ForkSteps == PipeIInv /\ PI!Fork => PipeIInv'
<1> SUFFICES ASSUME PipeIInv, PI!Fork PROVE PipeIInv'
  OBVIOUS
<1> DEFINE new == <<number, forked + 1>>
<1>1. PipeTypes /\ ShellAt /\ \A p \in PI!Programs : Program(p)
  BY DEF PipeIInv
<1>2. /\ shell = "fork" /\ forked' = forked + 1 /\ shell' = "close"
      /\ program' = [program EXCEPT ![new] = line[forked + 1]]
      /\ ends' = [ends EXCEPT ![new] = ends[PI!Shell] \cup {new}, ![PI!Shell] = @ \cup {new}]
      /\ stdin' = [stdin EXCEPT ![new] = stdin[PI!Shell]]
      /\ UNCHANGED <<line, number, pipe, shown, hand, written>>
  BY DEF PI!Fork, PI!UNCHANGED_Programs
<1>3. /\ number \in 1..Lines /\ forked \in Nat /\ Len(line) \in 1..MaxPrograms
      /\ forked + 1 \in 1..Len(line) /\ forked + 1 \in 1..MaxPrograms
  BY <1>1, <1>2, ProgramConstants DEF PipeTypes
<1>4. new \in PI!Programs /\ new # PI!Shell /\ Top' = new /\ new[1] = number /\ new[2] = forked + 1
  BY <1>2, <1>3, Places3 DEF PI!Programs, Top
<1> HIDE DEF new
<1>5. ends[PI!Shell] = {}
  BY <1>1, <1>2 DEF ShellAt
<1>6. /\ program[new] = "none" /\ pipe[new] = 0 /\ written[new] = 0 /\ hand[new] = 0
  <2>1. Program(new) /\ new[1] = number /\ new[2] > forked
    BY <1>1, <1>3, <1>4
  <2> QED
    BY <2>1 DEF Program
<1>7. /\ program'[new] = line[forked + 1] /\ program'[new] \in {"echo", "head", "cat", "missing"}
      /\ ends'[new] = {new} /\ ends'[PI!Shell] = {new} /\ stdin'[new] = stdin[PI!Shell]
      /\ stdin'[PI!Shell] = stdin[PI!Shell]
      /\ \A q \in PI!Programs : q # new => /\ program'[q] = program[q] /\ ends'[q] = ends[q]
                                           /\ stdin'[q] = stdin[q]
  <2>1. program'[new] = line[forked + 1] /\ \A q \in PI!Programs : q # new => program'[q] = program[q]
    BY <1>1, <1>2, <1>4 DEF PipeTypes
  <2>2. program'[new] \in {"echo", "head", "cat", "missing"}
    BY <1>1, <1>3, <2>1 DEF PipeTypes
  <2>3. ends'[new] = {new} /\ ends'[PI!Shell] = {new}
        /\ \A q \in PI!Programs : q # new => ends'[q] = ends[q]
    BY <1>1, <1>2, <1>4, <1>5, Places3 DEF PipeTypes
  <2>4. stdin'[new] = stdin[PI!Shell] /\ stdin'[PI!Shell] = stdin[PI!Shell]
        /\ \A q \in PI!Programs : q # new => stdin'[q] = stdin[q]
    BY <1>1, <1>2, <1>4 DEF PipeTypes
  <2> QED
    BY <2>1, <2>2, <2>3, <2>4
<1>8. PipeTypes'
  <2>1. program' \in [PI!Programs -> {"none", "echo", "head", "cat", "missing", "exited"}]
    BY <1>1, <1>2, <1>4, <1>7 DEF PipeTypes
  <2>2. ends' \in [PI!Programs \cup {PI!Shell} -> SUBSET PI!Programs]
    BY <1>1, <1>2, <1>4, <1>5 DEF PipeTypes
  <2>3. stdin' \in [PI!Programs \cup {PI!Shell} -> PI!Programs \cup {PI!Terminal}]
    BY <1>1, <1>2 DEF PipeTypes
  <2>4. forked' \in 0..Len(line) /\ forked' > 0
    BY <1>2, <1>3
  <2> QED
    BY <1>1, <1>2, <1>3, <2>1, <2>2, <2>3, <2>4 DEF PipeTypes
<1>9. \A in, n : FirstReads(in, n) => FirstReads(in, n)'
  <2>1. \A q : Drained(q) => Drained(q)'
    BY <1>2, <1>6, <1>7 DEF Drained
  <2> QED
    BY <2>1 DEF FirstReads
<1>10. ASSUME NEW p \in PI!Programs PROVE Program(p)'
  <2>1. CASE p # new
    <3>1. Program(p) /\ p = <<p[1], p[2]>> /\ p[1] \in Nat /\ p[2] \in Nat
      BY <1>1, Places3
    <3>2. ~(p[1] = number /\ p[2] = forked + 1)
      BY <2>1, <3>1 DEF new
    <3>3. /\ p[1] > number' \/ (p[1] = number' /\ p[2] > forked') => program'[p] = "none"
          /\ p[1] = number' /\ p[2] <= forked' => program'[p] # "none"
      <4>1. /\ p[1] > number' \/ (p[1] = number' /\ p[2] > forked') =>
                   p[1] > number \/ (p[1] = number /\ p[2] > forked)
            /\ p[1] = number' /\ p[2] <= forked' => p[1] = number /\ p[2] <= forked
        BY <1>2, <1>3, <3>1, <3>2
      <4> QED
        BY <1>7, <2>1, <3>1, <4>1 DEF Program
    <3>4. program'[p] # "none" => IF p[2] > 1 THEN stdin'[p] = <<p[1], p[2] - 1>>
                                  ELSE FirstReads(stdin[p], p[1])'
      BY <1>7, <1>9, <2>1, <3>1 DEF Program, FirstReads, Drained
    <3> QED
      BY <1>2, <1>7, <2>1, <3>1, <3>3, <3>4 DEF Program
  <2>2. CASE p = new
    <3>1. IF p[2] > 1 THEN stdin'[p] = <<p[1], p[2] - 1>> ELSE FirstReads(stdin[p], p[1])'
      <4>1. p[1] = number /\ p[2] = forked + 1 /\ stdin'[p] = stdin[PI!Shell]
        BY <1>4, <1>7, <2>2
      <4>2. CASE forked = 0
        <5>1. FirstReads(stdin[PI!Shell], number)
          BY <1>1, <1>2, <4>2 DEF ShellAt
        <5>2. FirstReads(stdin[p], p[1])'
          <6>1. \A q : Drained(q) => Drained(q)'
            BY <1>2, <1>6, <1>7 DEF Drained
          <6> QED
            BY <4>1, <5>1, <6>1 DEF FirstReads
        <5> QED
          BY <4>1, <4>2, <5>2
      <4>3. CASE forked # 0
        <5>1. stdin[PI!Shell] = Top
          BY <1>1, <1>2, <4>3 DEF ShellAt
        <5> QED
          BY <1>3, <4>1, <4>3, <5>1 DEF Top
      <4> QED
        BY <4>2, <4>3
    <3>2. ~(p[1] > number' \/ (p[1] = number' /\ p[2] > forked'))
      BY <1>2, <1>3, <1>4, <2>2
    <3>3. /\ program'[p] \notin {"none", "exited"} /\ hand'[p] = 0 /\ written'[p] = 0
          /\ ends'[p] = {p}
      BY <1>2, <1>6, <1>7, <2>2
    <3> QED
      BY <3>1, <3>2, <3>3 DEF Program
  <2> QED
    BY <2>1, <2>2
<1>11. ShellAt'
  <2>1. shown' = 0 /\ pipe'[Top'] = written'[Top'] /\ ends'[PI!Shell] = {Top'}
    BY <1>1, <1>2, <1>4, <1>6, <1>7 DEF ShellAt
  <2> QED
    BY <1>2, <2>1 DEF ShellAt
<1> QED
  BY <1>8, <1>10, <1>11 DEF PipeIInv

LEMMA CloseSteps == PipeIInv /\ PI!Close => PipeIInv'
<1> SUFFICES ASSUME PipeIInv, PI!Close PROVE PipeIInv'
  OBVIOUS
<1>1. PipeTypes /\ ShellAt /\ \A p \in PI!Programs : Program(p)
  BY DEF PipeIInv
<1>2. /\ shell = "close" /\ shell' = IF forked = Len(line) THEN "copy" ELSE "fork"
      /\ ends' = [ends EXCEPT ![PI!Shell] = @ \cap (PI!Programs \ {Top})]
      /\ stdin' = [stdin EXCEPT ![PI!Shell] = Top]
      /\ UNCHANGED <<line, number, forked, pipe, program, shown, hand, written>>
  BY DEF PI!Close, PI!CloseAnd, PI!UNCHANGED_Programs, Top
<1>3. /\ Top \in PI!Programs /\ Top' = Top /\ forked > 0 /\ forked \in 0..Len(line) /\ number > 0
      /\ Len(line) \in Nat
  <2>1. number > 0 /\ forked > 0
    BY <1>1, <1>2, ProgramConstants DEF PipeTypes
  <2> QED
    BY <1>1, <1>2, <2>1, TopForked DEF PipeTypes, Top
<1>4. ends[PI!Shell] = {Top} /\ shown = 0 /\ pipe[Top] = written[Top] /\ pipe[Top] \in Nat
  BY <1>1, <1>2, <1>3 DEF ShellAt, PipeTypes
<1>5. ends'[PI!Shell] = {} /\ stdin'[PI!Shell] = Top
      /\ \A q \in PI!Programs : ends'[q] = ends[q] /\ stdin'[q] = stdin[q]
  BY <1>1, <1>2, <1>4, Places3 DEF PipeTypes
<1>6. PipeTypes'
  <2>1. ends' \in [PI!Programs \cup {PI!Shell} -> SUBSET PI!Programs]
    BY <1>1, <1>2 DEF PipeTypes
  <2>2. stdin' \in [PI!Programs \cup {PI!Shell} -> PI!Programs \cup {PI!Terminal}]
    BY <1>1, <1>2, <1>3 DEF PipeTypes
  <2>3. shell' \in {"copy", "fork"} /\ (shell' = "copy" => forked = Len(line))
        /\ (shell' = "fork" => forked < Len(line))
    BY <1>2, <1>3
  <2> QED
    BY <1>1, <1>2, <1>3, <2>1, <2>2, <2>3 DEF PipeTypes
<1>7. ASSUME NEW p \in PI!Programs PROVE Program(p)'
  <2>1. FirstReads(stdin[p], p[1]) => FirstReads(stdin[p], p[1])'
    BY <1>2, <1>5 DEF FirstReads, Drained
  <2> QED
    BY <1>1, <1>2, <1>5, <2>1 DEF Program
<1>8. ShellAt'
  BY <1>2, <1>3, <1>4, <1>5 DEF ShellAt
<1> QED
  BY <1>6, <1>7, <1>8 DEF PipeIInv

LEMMA CopySteps == PipeIInv /\ PI!Copy => PipeIInv'
<1> SUFFICES ASSUME PipeIInv, PI!Copy PROVE PipeIInv'
  OBVIOUS
<1>1. PipeTypes /\ ShellAt /\ \A p \in PI!Programs : Program(p)
  BY DEF PipeIInv
<1>2. /\ shell = "copy" /\ UNCHANGED <<line, number, forked, ends, stdin, program, hand, written>>
  BY DEF PI!Copy, PI!UNCHANGED_Programs
<1>3. /\ number > 0 /\ number \in Nat /\ forked = Len(line) /\ forked > 0
      /\ PI!Last = Top /\ Top' = Top /\ Top \in PI!Programs
  <2>1. number > 0 /\ number \in Nat
    BY <1>1, <1>2, ProgramConstants DEF PipeTypes
  <2>2. forked = Len(line) /\ Len(line) \in 1..MaxPrograms
    BY <1>1, <1>2, <2>1 DEF PipeTypes
  <2>3. forked > 0
    BY <2>2, ProgramConstants
  <2> QED
    BY <1>1, <1>2, <2>1, <2>2, <2>3, TopForked DEF PI!Last, Top
<1>4. /\ stdin[PI!Shell] = Top /\ shown + pipe[Top] = written[Top] /\ ends[PI!Shell] = {}
      /\ pipe[Top] \in Nat /\ written[Top] \in Nat /\ shown \in Nat
  BY <1>1, <1>2, <1>3 DEF ShellAt, PipeTypes
<1>5. CASE pipe[Top] > 0 /\ pipe' = [pipe EXCEPT ![Top] = @ - 1] /\ shown' = shown + 1 /\ shell' = shell
  <2>1. pipe' \in [PI!Programs -> Nat] /\ pipe'[Top] = pipe[Top] - 1
        /\ \A q \in PI!Programs : pipe[q] = 0 => pipe'[q] = 0
    BY <1>1, <1>3, <1>4, <1>5 DEF PipeTypes
  <2>2. PipeTypes'
    BY <1>1, <1>2, <1>4, <1>5, <2>1 DEF PipeTypes
  <2>3. ASSUME NEW p \in PI!Programs PROVE Program(p)'
    <3>1. FirstReads(stdin[p], p[1]) => FirstReads(stdin[p], p[1])'
      BY <1>2, <2>1 DEF FirstReads, Drained
    <3> QED
      BY <1>1, <1>2, <2>1, <3>1 DEF Program
  <2>4. shown' + pipe'[Top] = written'[Top]
    BY <1>2, <1>4, <1>5, <2>1
  <2>5. ShellAt'
    BY <1>2, <1>3, <1>4, <1>5, <2>4 DEF ShellAt
  <2> QED
    BY <2>2, <2>3, <2>5 DEF PipeIInv
<1>6. CASE PI!AtEnd(Top) /\ shell' = "prompt" /\ UNCHANGED <<pipe, shown>>
  <2>1. Drained(Top)
    <3>1. pipe[Top] = 0 /\ Top \notin ends[Top]
      BY <1>3, <1>6 DEF PI!AtEnd
    <3>2. Top[1] = number /\ Top[2] <= forked
      BY <1>1, <1>3 DEF Top, PipeTypes
    <3>3. program[Top] = "exited"
      BY <1>1, <1>3, <3>1, <3>2 DEF Program
    <3> QED
      BY <1>3, <3>1, <3>3 DEF Drained
  <2>2. PipeTypes'
    BY <1>1, <1>2, <1>3, <1>6 DEF PipeTypes
  <2>3. ASSUME NEW p \in PI!Programs PROVE Program(p)'
    <3>1. FirstReads(stdin[p], p[1]) => FirstReads(stdin[p], p[1])'
      BY <1>2, <1>6 DEF FirstReads, Drained
    <3> QED
      BY <1>1, <1>2, <1>6, <3>1 DEF Program
  <2>4. Drained(Top)' /\ FirstReads(stdin[PI!Shell], number + 1)'
    <3>1. Drained(Top)'
      BY <1>2, <1>3, <1>6, <2>1 DEF Drained
    <3>2. Top[1] = number /\ number + 1 # 1 /\ number < number + 1
      BY <1>3 DEF Top
    <3> QED
      BY <1>2, <1>3, <1>4, <1>6, <3>1, <3>2 DEF FirstReads, Drained
  <2>5. shown' = written'[Top]
    BY <1>2, <1>4, <1>6, <2>1 DEF Drained
  <2>6. ShellAt'
    BY <1>2, <1>3, <1>4, <1>6, <2>4, <2>5 DEF ShellAt
  <2> QED
    BY <2>2, <2>3, <2>6 DEF PipeIInv
<1> QED
  BY <1>3, <1>5, <1>6 DEF PI!Copy

LEMMA PipeSteps == PipeIInv /\ [PI!Next]_piVars => PipeIInv'
<1>1. PipeIInv /\ UNCHANGED piVars => PipeIInv'
  BY DEF piVars, PipeIInv, PipeTypes, Program, ShellAt, FirstReads, Drained, Top
<1> QED
  BY <1>1, GetlineSteps, ForkSteps, CloseSteps, CopySteps, RunSteps DEF PI!Next

(* What reaches the screen is what the last program wrote, all of it, and   *)
(* the first programs of later lines read nothing: for lines of any length, *)
(* pipes of any capacity and any number of units and lines.                 *)
THEOREM ScreenShowsAll == Lessons => []PI!ScreenTrue
<1>1. PipeIInv => PI!ScreenTrue
  <2> SUFFICES ASSUME PipeIInv PROVE PI!AllShown /\ PI!LaterLinesReadNothing
    BY DEF PI!ScreenTrue
  <2>1. PI!AllShown
    BY DEF PipeIInv, PipeTypes, ShellAt, PI!AllShown, PI!Last, Top
  <2>2. PI!LaterLinesReadNothing
    BY DEF PipeIInv, Program, PI!LaterLinesReadNothing, PI!Reads
  <2> QED
    BY <2>1, <2>2
<1>2. AtStart => PipeIInv
  BY PipesStart DEF AtStart
<1>3. PipeIInv /\ [Step]_all => PipeIInv'
  BY OneProgram, PipeSteps
<1> QED
  BY <1>1, <1>2, <1>3, PTL DEF Lessons

-----------------------------------------------------------------------------
(* The lines of les15 *)

Letters == {"a", "blank", "bar", "newline", "nul"}

LEMMA LeastIs ==
    ASSUME NEW T, T \subseteq Nat, T # {}
    PROVE  CL!Least(T) \in T /\ \A m \in T : CL!Least(T) <= m
BY Lowest DEF CL!Least

LEMMA GreatestIs ==
    ASSUME NEW n \in Nat, NEW T, T \subseteq 0..n, T # {}
    PROVE  CL!Greatest(T) \in T /\ \A m \in T : CL!Greatest(T) >= m
<1> DEFINE below == {n - t : t \in T}
<1>1. below \subseteq Nat /\ below # {}
  <2>1. PICK t \in T : TRUE
    OBVIOUS
  <2>2. n - t \in below
    BY <2>1
  <2>3. \A b \in below : b \in Nat
    OBVIOUS
  <2> QED
    BY <2>2, <2>3
<1>2. PICK b \in below : \A c \in below : b <= c
  BY <1>1, Lowest
<1>3. PICK t \in T : b = n - t
  OBVIOUS
<1>4. \A m \in T : t >= m
  <2> SUFFICES ASSUME NEW m \in T PROVE t >= m
    OBVIOUS
  <2>1. n - m \in below
    OBVIOUS
  <2>2. n - t <= n - m
    BY <1>2, <1>3, <2>1
  <2>3. t \in 0..n /\ m \in 0..n
    OBVIOUS
  <2> HIDE DEF below
  <2> QED
    BY <2>2, <2>3
<1> HIDE DEF below
<1>5. \E k \in T : \A m \in T : k >= m
  BY <1>4
<1> QED
  BY <1>5 DEF CL!Greatest

LEMMA Sub ==
    ASSUME NEW S, NEW s \in Seq(S), NEW m \in Nat \ {0}, NEW n \in Nat, n <= Len(s)
    PROVE  /\ SubSeq(s, m, n) \in Seq(S)
           /\ Len(SubSeq(s, m, n)) = IF m <= n THEN n - m + 1 ELSE 0
           /\ \A k \in 1..(n - m + 1) : SubSeq(s, m, n)[k] = s[m + k - 1]
<1>1. \A k \in m..n : s[k] \in S
  OBVIOUS
<1>2. m \in Int /\ n \in Int
  OBVIOUS
<1> QED
  BY <1>1, <1>2, SubSeqProperties

(* The places from m to n whose letter is, or is not, in a set.             *)
LEMMA Filtered ==
    ASSUME NEW s, NEW m \in Nat, NEW n \in Nat, NEW L
    PROVE  {k \in m..n : s[k] \in L} \subseteq m..n /\ {k \in m..n : s[k] # L} \subseteq m..n
           /\ {k \in m..n : s[k] = L} \subseteq m..n
<1> DEFINE D == m..n
<1> HIDE DEF D
<1>1. {k \in D : s[k] \in L} \subseteq D /\ {k \in D : s[k] # L} \subseteq D /\ {k \in D : s[k] = L} \subseteq D
  BY Zenon
<1> QED
  BY <1>1, Zenon DEF D

LEMMA SkipIs ==
    ASSUME NEW s \in Seq(Letters), NEW n \in Nat \ {0}
    PROVE  /\ CL!SkipBlanks(s, n) \in 1..(Len(s) + 1)
           /\ \/ CL!SkipBlanks(s, n) = Len(s) + 1
              \/ CL!SkipBlanks(s, n) \in n..Len(s) /\ s[CL!SkipBlanks(s, n)] # "blank"
           /\ \A k \in n..Len(s) : s[k] # "blank" => CL!SkipBlanks(s, n) <= k
<1> DEFINE F == {k \in n..Len(s) : s[k] # "blank"}
           T == {Len(s) + 1} \cup F
           p == CL!Least(T)
<1>1. Len(s) \in Nat /\ n \in Nat /\ n # 0
  OBVIOUS
<1>2. F \subseteq n..Len(s)
  BY <1>1, Filtered
<1>3. \A k : k \in F <=> k \in n..Len(s) /\ s[k] # "blank"
  BY Zenon
<1>4. CL!SkipBlanks(s, n) = p
  BY DEF CL!SkipBlanks
<1> HIDE DEF F
<1>5. T \subseteq Nat /\ T # {}
  <2>1. Len(s) + 1 \in T /\ n..Len(s) \subseteq Nat
    BY <1>1
  <2>2. F \subseteq Nat
    BY <1>2, <2>1, Zenon
  <2>3. Len(s) + 1 \in Nat
    BY <1>1
  <2> QED
    BY <2>1, <2>2, <2>3, Zenon
<1>6. p \in T /\ \A m \in T : p <= m
  BY <1>5, LeastIs
<1> HIDE DEF p
<1>7. p = Len(s) + 1 \/ (p \in n..Len(s) /\ s[p] # "blank")
  BY <1>3, <1>6
<1>8. p \in 1..(Len(s) + 1)
  BY <1>1, <1>7
<1>9. \A k \in n..Len(s) : s[k] # "blank" => p <= k
  BY <1>3, <1>6
<1> QED
  BY <1>4, <1>7, <1>8, <1>9

LEMMA SkipIsOnly ==
    ASSUME NEW s \in Seq(Letters), NEW n \in Nat \ {0}, NEW p \in Nat,
           p = Len(s) + 1 \/ (p \in n..Len(s) /\ s[p] # "blank"),
           \A k \in n..Len(s) : s[k] # "blank" => p <= k
    PROVE  CL!SkipBlanks(s, n) = p
<1> DEFINE q == CL!SkipBlanks(s, n)
<1>1. /\ q \in 1..(Len(s) + 1)
      /\ q = Len(s) + 1 \/ (q \in n..Len(s) /\ s[q] # "blank")
      /\ \A k \in n..Len(s) : s[k] # "blank" => q <= k
  BY SkipIs
<1>2. Len(s) \in Nat /\ n \in Nat
  OBVIOUS
<1> HIDE DEF q
<1>3. q <= p
  BY <1>1, <1>2
<1>4. p <= q
  BY <1>1, <1>2
<1>5. q = p
  BY <1>1, <1>2, <1>3, <1>4
<1> QED
  BY <1>5 DEF q

LEMMA FirstBlankIs ==
    ASSUME NEW s \in Seq(Letters), NEW n \in Nat \ {0}
    PROVE  CL!FirstBlank(s, n) \in 1..(Len(s) + 1)
<1> DEFINE F == {k \in n..Len(s) : s[k] = "blank"}
           T == {Len(s) + 1} \cup F
<1>1. Len(s) \in Nat /\ n \in Nat /\ n # 0
  OBVIOUS
<1>2. F \subseteq n..Len(s)
  BY <1>1, Filtered
<1>3. CL!FirstBlank(s, n) = CL!Least(T)
  BY DEF CL!FirstBlank
<1> HIDE DEF F
<1>4. T \subseteq 1..(Len(s) + 1) /\ T \subseteq Nat /\ T # {}
  <2>1. Len(s) + 1 \in T /\ n..Len(s) \subseteq 1..(Len(s) + 1)
    BY <1>1
  <2>2. T \subseteq 1..(Len(s) + 1)
    <3>1. F \subseteq 1..(Len(s) + 1) /\ Len(s) + 1 \in 1..(Len(s) + 1)
      BY <1>1, <1>2, <2>1
    <3> QED
      BY <3>1, Zenon
  <2>3. 1..(Len(s) + 1) \subseteq Nat
    BY <1>1
  <2> QED
    BY <2>1, <2>2, <2>3
<1> QED
  BY <1>3, <1>4, LeastIs

LEMMA TrimmedIs ==
    ASSUME NEW s \in Seq(Letters)
    PROVE  /\ CL!Trimmed(s) \in Seq(Letters)
           /\ CL!Trimmed(s) # <<>> => \E k \in 1..Len(s) : s[k] # "blank"
<1> DEFINE F == {k \in 1..Len(s) : s[k] # "blank"}
           T == {0} \cup F
           g == CL!Greatest(T)
<1>1. Len(s) \in Nat
  OBVIOUS
<1>2. F \subseteq 1..Len(s)
  BY <1>1, Filtered
<1>3. \A k : k \in F <=> k \in 1..Len(s) /\ s[k] # "blank"
  BY Zenon
<1>4. CL!Trimmed(s) = SubSeq(s, 1, g)
  BY DEF CL!Trimmed
<1> HIDE DEF F
<1>5. T \subseteq 0..Len(s) /\ T # {}
  BY <1>1, <1>2
<1>6. g \in T
  BY <1>1, <1>5, GreatestIs
<1> HIDE DEF g
<1>7. g \in 0..Len(s) /\ (g > 0 => g \in 1..Len(s) /\ s[g] # "blank")
  BY <1>1, <1>3, <1>6
<1>8. SubSeq(s, 1, g) \in Seq(Letters) /\ Len(SubSeq(s, 1, g)) = IF 1 <= g THEN g ELSE 0
  <2>1. g \in Nat /\ g <= Len(s) /\ g - 1 + 1 = g
    BY <1>1, <1>7
  <2> QED
    BY <2>1, Sub
<1>9. g = 0 => SubSeq(s, 1, g) = <<>>
  BY <1>8
<1> QED
  BY <1>4, <1>7, <1>8, <1>9
(* Blanks are skipped in a piece as they are in the whole.                  *)
LEMMA SkipShift ==
    ASSUME NEW s \in Seq(Letters), NEW m \in 1..(Len(s) + 1), NEW n \in (m - 1)..Len(s),
           CL!SkipBlanks(s, m) <= n + 1
    PROVE  LET r == SubSeq(s, m, n)
           IN  /\ r \in Seq(Letters) /\ Len(r) = n - m + 1
               /\ CL!SkipBlanks(r, 1) = CL!SkipBlanks(s, m) - m + 1
               /\ SubSeq(r, CL!SkipBlanks(r, 1), Len(r)) = SubSeq(s, CL!SkipBlanks(s, m), n)
<1> DEFINE r == SubSeq(s, m, n)
           p == CL!SkipBlanks(s, m)
           q == CL!SkipBlanks(r, 1)
<1>1. Len(s) \in Nat /\ m \in Nat \ {0} /\ n \in Nat /\ n <= Len(s) /\ m <= n + 1
  OBVIOUS
<1>2. /\ r \in Seq(Letters) /\ Len(r) = n - m + 1
      /\ \A k \in 1..(n - m + 1) : r[k] = s[m + k - 1]
  BY <1>1, Sub
<1>11. /\ p \in 1..(Len(s) + 1)
       /\ p = Len(s) + 1 \/ (p \in m..Len(s) /\ s[p] # "blank")
       /\ \A k \in m..Len(s) : s[k] # "blank" => p <= k
  <2>1. m \in Nat \ {0}
    BY <1>1
  <2> QED
    BY <2>1, SkipIs, Zenon
<1>12. p <= n + 1
  OBVIOUS
<1> HIDE DEF r, p
<1>3. /\ p \in m..(n + 1) /\ (p <= n => s[p] # "blank")
      /\ \A k \in m..Len(s) : s[k] # "blank" => p <= k
  BY <1>1, <1>11, <1>12
<1>4. CL!SkipBlanks(r, 1) = p - m + 1
  <2>1. p - m + 1 \in Nat
    BY <1>1, <1>3
  <2>2. p - m + 1 = Len(r) + 1 \/ (p - m + 1 \in 1..Len(r) /\ r[p - m + 1] # "blank")
    <3>1. CASE p = n + 1
      BY <1>1, <1>2, <3>1
    <3>2. CASE p # n + 1
      <4>1. p - m + 1 \in 1..(n - m + 1) /\ m + (p - m + 1) - 1 = p
        BY <1>1, <1>3, <3>2
      <4>2. r[p - m + 1] = s[p]
        BY <1>2, <4>1
      <4> QED
        BY <1>2, <1>3, <3>2, <4>1, <4>2
    <3> QED
      BY <3>1, <3>2
  <2>3. ASSUME NEW k \in 1..Len(r), r[k] # "blank" PROVE p - m + 1 <= k
    <3>1. m + k - 1 \in m..Len(s) /\ s[m + k - 1] # "blank"
      BY <1>1, <1>2, <2>3
    <3>2. p <= m + k - 1
      BY <1>3, <3>1
    <3> QED
      BY <1>1, <1>3, <3>2
  <2>4. 1 \in Nat \ {0} /\ r \in Seq(Letters)
    BY <1>2
  <2>5. \A k \in 1..Len(r) : r[k] # "blank" => p - m + 1 <= k
    BY <2>3
  <2> QED
    BY <2>1, <2>2, <2>4, <2>5, SkipIsOnly, Zenon
<1>5. SubSeq(r, p - m + 1, Len(r)) = SubSeq(s, p, n)
  <2> DEFINE a == SubSeq(r, p - m + 1, Len(r))
             b == SubSeq(s, p, n)
  <2>1. p - m + 1 \in Nat \ {0} /\ Len(r) \in Nat /\ p \in Nat \ {0}
    BY <1>1, <1>2, <1>3
  <2>2. /\ a \in Seq(Letters) /\ Len(a) = n - p + 1
        /\ \A k \in 1..(n - p + 1) : a[k] = r[p - m + 1 + k - 1]
    <3>1. /\ a \in Seq(Letters)
          /\ Len(a) = IF p - m + 1 <= Len(r) THEN Len(r) - (p - m + 1) + 1 ELSE 0
          /\ \A k \in 1..(Len(r) - (p - m + 1) + 1) : a[k] = r[p - m + 1 + k - 1]
      BY <1>1, <1>2, <1>3, <2>1, Sub
    <3>2. Len(r) - (p - m + 1) + 1 = n - p + 1
      BY <1>1, <1>2, <1>3
    <3> HIDE DEF a
    <3> QED
      BY <1>1, <1>2, <1>3, <3>1, <3>2
  <2>3. /\ b \in Seq(Letters) /\ Len(b) = n - p + 1
        /\ \A k \in 1..(n - p + 1) : b[k] = s[p + k - 1]
    <3>1. /\ b \in Seq(Letters) /\ Len(b) = IF p <= n THEN n - p + 1 ELSE 0
          /\ \A k \in 1..(n - p + 1) : b[k] = s[p + k - 1]
      BY <1>1, <2>1, Sub
    <3> HIDE DEF b
    <3> QED
      BY <1>1, <1>3, <3>1
  <2> HIDE DEF a, b
  <2>4. \A k \in 1..(n - p + 1) : a[k] = b[k]
    <3> SUFFICES ASSUME NEW k \in 1..(n - p + 1) PROVE a[k] = b[k]
      OBVIOUS
    <3>1. p - m + 1 + k - 1 \in 1..(n - m + 1) /\ m + (p - m + 1 + k - 1) - 1 = p + k - 1
      BY <1>1, <1>3
    <3>2. r[p - m + 1 + k - 1] = s[p + k - 1]
      BY <1>2, <3>1
    <3> QED
      BY <2>2, <2>3, <3>2
  <2>5. a = b
    BY <2>2, <2>3, <2>4, SeqEqual
  <2> QED
    BY <2>5 DEF a, b
<1> QED
  BY <1>2, <1>4, <1>5 DEF r, p

-----------------------------------------------------------------------------
(* How the line is cut *)

Part == [program : Seq(Letters), arg : Seq(Letters), fits : BOOLEAN]

(* What is typed has letters, blanks and bars, and one newline at its end.  *)
(* The buffer holds nothing behind the longest part so far.                 *)
LineTypes ==
    /\ step \in {"getline", "cut", "run", "quit"} /\ inputs \in 0..MaxInputs
    /\ typed \in Seq(Letters) /\ Len(typed) <= MaxChars + 1
    /\ \A k \in 1..Len(typed) : \/ typed[k] \in CL!Characters
                                \/ k = Len(typed) /\ typed[k] = "newline"
    /\ step \in {"cut", "run"} => Len(typed) > 0 /\ typed[Len(typed)] = "newline"
    /\ start \in 1..(Len(typed) + 1) /\ scan \in {start, start + 1}
    /\ longest \in 0..MaxChars
    /\ command \in [1..CL!Size -> CL!Characters \cup {"nul"}]
    /\ \A k \in 1..CL!Size : k > longest => command[k] = "nul"
    /\ run \in Seq(Part)

(* Where the next part ends.                                                *)
End == CL!Least({k \in scan..Len(typed) : typed[k] \in {"bar", "newline"}})

LEMMA EndIs ==
    ASSUME LineTypes, step = "cut", scan <= Len(typed)
    PROVE  /\ End \in scan..Len(typed) /\ End \in CL!Ends
           /\ \A k \in scan..Len(typed) : k \in CL!Ends => End <= k
           /\ Len(typed) \in Nat /\ start \in Nat \ {0} /\ scan \in Nat
           /\ End \in Nat /\ End - start \in 0..MaxChars /\ End <= MaxChars + 1
<1> DEFINE F == {k \in scan..Len(typed) : typed[k] \in {"bar", "newline"}}
<1>1. /\ Len(typed) \in Nat /\ start \in Nat \ {0} /\ scan \in Nat /\ scan >= start
      /\ typed[Len(typed)] = "newline" /\ Len(typed) <= MaxChars + 1 /\ scan > 0
      /\ MaxChars \in Nat
  BY ProgramConstants DEF LineTypes
<1>2. F \subseteq scan..Len(typed)
  BY <1>1, Filtered
<1>3. \A k : k \in F <=> k \in scan..Len(typed) /\ typed[k] \in {"bar", "newline"}
  BY Zenon
<1> HIDE DEF F
<1>4. Len(typed) \in F
  BY <1>1, <1>3
<1>5. F \subseteq Nat
  <2>1. scan..Len(typed) \subseteq Nat
    BY <1>1
  <2> QED
    BY <1>2, <2>1, Zenon
<1>6. CL!Least(F) \in F /\ \A k \in F : CL!Least(F) <= k
  BY <1>4, <1>5, LeastIs
<1>7. End = CL!Least(F)
  BY DEF End, F
<1>8. End \in F /\ \A k \in F : End <= k
  BY <1>6, <1>7
<1>9. \A k : k \in CL!Ends <=> k \in 1..Len(typed) /\ typed[k] \in {"bar", "newline"}
  BY Zenon DEF CL!Ends
<1>10. End \in scan..Len(typed) /\ typed[End] \in {"bar", "newline"}
  BY <1>3, <1>8
<1> HIDE DEF End
<1>11. End \in Nat /\ End - start \in 0..MaxChars /\ End \in CL!Ends /\ End <= MaxChars + 1
  BY <1>1, <1>9, <1>10
<1>12. \A k \in scan..Len(typed) : k \in CL!Ends => End <= k
  BY <1>3, <1>8, <1>9
<1> QED
  BY <1>1, <1>10, <1>11, <1>12

Buffer == CL!CopyPart(End)

LEMMA CopiedIs ==
    ASSUME LineTypes, step = "cut", scan <= Len(typed)
    PROVE  /\ Buffer \in [1..CL!Size -> CL!Characters \cup {"nul"}]
           /\ \A k \in 1..CL!Size : k > longest /\ k > End - start => Buffer[k] = "nul"
           /\ \A k \in 1..CL!Size : k <= End - start => /\ Buffer[k] = typed[start + k - 1]
                                                        /\ Buffer[k] # "nul"
           /\ CL!Size = MaxChars + 2 /\ MaxChars \in Nat /\ End - start < CL!Size - 1
<1>1. /\ End \in scan..Len(typed) /\ Len(typed) \in Nat /\ start \in Nat \ {0} /\ scan \in Nat
      /\ End \in Nat /\ End - start \in 0..MaxChars
  BY EndIs
<1>2. CL!Size = MaxChars + 2 /\ MaxChars \in Nat
  BY ProgramConstants DEF CL!Size
<1>3. ASSUME NEW k \in 1..CL!Size
      PROVE  Buffer[k] = IF k <= End - start THEN typed[start + k - 1]
                          ELSE IF k = End THEN "nul" ELSE command[k]
  BY DEF Buffer, CL!CopyPart
<1>4. ASSUME NEW k \in 1..CL!Size, k <= End - start
      PROVE  typed[start + k - 1] \in CL!Characters
  <2>1. start + k - 1 \in 1..Len(typed) /\ start + k - 1 # Len(typed)
    BY <1>1, <1>2, <1>4
  <2> QED
    BY <2>1 DEF LineTypes
<1>5. DOMAIN Buffer = 1..CL!Size /\ Buffer = [k \in 1..CL!Size |-> Buffer[k]]
  BY DEF Buffer, CL!CopyPart
<1> HIDE DEF Buffer
<1>6. ASSUME NEW k \in 1..CL!Size PROVE Buffer[k] \in CL!Characters \cup {"nul"}
  BY <1>3, <1>4 DEF LineTypes
<1>7. Buffer \in [1..CL!Size -> CL!Characters \cup {"nul"}]
  BY <1>5, <1>6
<1>8. ASSUME NEW k \in 1..CL!Size, k > longest, k > End - start PROVE Buffer[k] = "nul"
  <2>1. ~(k <= End - start) /\ command[k] = "nul"
    BY <1>1, <1>2, <1>8 DEF LineTypes
  <2> QED
    BY <1>3, <2>1
<1>9. \A k \in 1..CL!Size : k <= End - start => Buffer[k] = typed[start + k - 1] /\ Buffer[k] # "nul"
  <2>1. "nul" \notin CL!Characters
    BY DEF CL!Characters
  <2> QED
    BY <1>3, <1>4, <2>1
<1>10. End - start < CL!Size - 1
  BY <1>1, <1>2
<1> QED
  BY <1>2, <1>7, <1>8, <1>9, <1>10

(* A part that is as long as all before it is read as it was typed.         *)
LEMMA ContentIs ==
    ASSUME LineTypes, step = "cut", scan <= Len(typed)
    PROVE  /\ CL!Content(Buffer) \in Seq(Letters)
           /\ End - start >= longest => CL!Content(Buffer) = SubSeq(typed, start, End - 1)
<1> DEFINE b == Buffer
           F == {k \in 1..CL!Size : b[k] = "nul"}
           z == CL!Least(F)
<1>1. /\ b \in [1..CL!Size -> CL!Characters \cup {"nul"}]
      /\ \A k \in 1..CL!Size : k > longest /\ k > End - start => b[k] = "nul"
      /\ \A k \in 1..CL!Size : k <= End - start => b[k] = typed[start + k - 1] /\ b[k] # "nul"
      /\ CL!Size = MaxChars + 2 /\ MaxChars \in Nat /\ End - start < CL!Size - 1
  BY CopiedIs
<1>2. /\ longest \in 0..MaxChars /\ Len(typed) \in Nat /\ start \in Nat \ {0} /\ End \in Nat
      /\ End - start \in 0..MaxChars /\ End <= Len(typed) /\ scan \in Nat /\ typed \in Seq(Letters)
  BY EndIs DEF LineTypes
<1> HIDE DEF b
<1>3. F \subseteq 1..CL!Size
  BY <1>1, Filtered
<1>4. \A k : k \in F <=> k \in 1..CL!Size /\ b[k] = "nul"
  BY Zenon
<1>5. CL!Content(b) = SubSeq(b, 1, z - 1)
  BY DEF CL!Content
<1> HIDE DEF F
<1>6. CL!Size \in F
  BY <1>1, <1>2, <1>4
<1>7. z \in F /\ \A k \in F : z <= k
  <2>1. 1..CL!Size \subseteq Nat
    BY <1>1
  <2>2. F \subseteq Nat
    BY <1>3, <2>1, Zenon
  <2> QED
    BY <1>6, <2>2, LeastIs
<1> HIDE DEF z
<1>8. z \in 1..CL!Size /\ b[z] = "nul" /\ z - 1 \in Nat /\ z - 1 <= CL!Size
  BY <1>1, <1>4, <1>7
<1>9. b \in Seq(Letters) /\ Len(b) = CL!Size
  <2>1. CL!Characters \cup {"nul"} \subseteq Letters
    BY DEF CL!Characters, Letters
  <2>2. b \in [1..CL!Size -> Letters] /\ CL!Size \in Nat
    BY <1>1, <2>1
  <2> HIDE DEF Letters
  <2> QED
    BY <2>2
<1>10. /\ SubSeq(b, 1, z - 1) \in Seq(Letters)
       /\ Len(SubSeq(b, 1, z - 1)) = IF 1 <= z - 1 THEN z - 1 - 1 + 1 ELSE 0
       /\ \A k \in 1..(z - 1 - 1 + 1) : SubSeq(b, 1, z - 1)[k] = b[1 + k - 1]
  BY <1>8, <1>9, Sub
<1>11. ASSUME End - start >= longest PROVE SubSeq(b, 1, z - 1) = SubSeq(typed, start, End - 1)
  <2> DEFINE l == SubSeq(b, 1, z - 1)
             r == SubSeq(typed, start, End - 1)
  <2>1. z = End - start + 1
    <3>1. End - start + 1 \in F
      <4>1. End - start + 1 \in 1..CL!Size /\ End - start + 1 > longest /\ End - start + 1 > End - start
        BY <1>1, <1>2, <1>11
      <4> QED
        BY <1>1, <1>4, <4>1
    <3>2. ~(z <= End - start)
      BY <1>1, <1>8
    <3>3. z <= End - start + 1
      BY <1>7, <3>1
    <3> QED
      BY <1>1, <1>2, <1>8, <3>2, <3>3
  <2>2. /\ r \in Seq(Letters)
        /\ Len(r) = IF start <= End - 1 THEN End - 1 - start + 1 ELSE 0
        /\ \A k \in 1..(End - 1 - start + 1) : r[k] = typed[start + k - 1]
    <3>1. End - 1 \in Nat /\ End - 1 <= Len(typed)
      BY <1>2
    <3> QED
      BY <1>2, <3>1, Sub
  <2> HIDE DEF l, r
  <2>3. Len(l) = End - start /\ Len(r) = End - start
    BY <1>2, <1>10, <2>1, <2>2 DEF l
  <2>4. ASSUME NEW k \in 1..Len(l) PROVE l[k] = r[k]
    <3>1. k \in 1..CL!Size /\ k <= End - start /\ 1 + k - 1 = k
      BY <1>1, <1>2, <2>3
    <3>2. b[k] = typed[start + k - 1]
      BY <1>1, <3>1
    <3>3. k \in 1..(z - 1 - 1 + 1) /\ k \in 1..(End - 1 - start + 1)
      BY <1>2, <2>1, <2>3
    <3>4. l[k] = b[k]
      BY <1>10, <3>1, <3>3 DEF l
    <3> QED
      BY <2>2, <3>2, <3>3, <3>4
  <2>5. l \in Seq(Letters)
    BY <1>10 DEF l
  <2>6. l = r
    BY <2>2, <2>3, <2>4, <2>5, SeqEqual
  <2> QED
    BY <2>6 DEF l, r
<1> QED
  BY <1>5, <1>10, <1>11 DEF b

Text == CL!Content(Buffer)

(* A part gives a program and its argument, both strings.                   *)
LEMMA PartIs ==
    ASSUME NEW t \in Seq(Letters), NEW f \in BOOLEAN
    PROVE  [program |-> SubSeq(t, 1, CL!FirstBlank(t, 1) - 1),
            arg |-> CL!Trimmed(SubSeq(t, CL!Argument(t), Len(t))), fits |-> f] \in Part
<1>1. 1 \in Nat \ {0} /\ Len(t) \in Nat
  OBVIOUS
<1>2. CL!FirstBlank(t, 1) \in 1..(Len(t) + 1)
  BY <1>1, FirstBlankIs
<1>3. SubSeq(t, 1, CL!FirstBlank(t, 1) - 1) \in Seq(Letters)
  <2>1. CL!FirstBlank(t, 1) - 1 \in Nat /\ CL!FirstBlank(t, 1) - 1 <= Len(t)
    BY <1>1, <1>2
  <2> QED
    BY <1>1, <2>1, Sub
<1>4. CL!Argument(t) \in Nat \ {0}
  <2>1. CL!SkipBlanks(t, 1) \in Nat \ {0}
    <3>1. CL!SkipBlanks(t, 1) \in 1..(Len(t) + 1)
      BY <1>1, SkipIs
    <3> QED
      BY <1>1, <3>1
  <2>2. CL!FirstBlank(t, CL!SkipBlanks(t, 1)) \in Nat \ {0}
    <3>1. CL!FirstBlank(t, CL!SkipBlanks(t, 1)) \in 1..(Len(t) + 1)
      BY <2>1, FirstBlankIs
    <3> QED
      BY <1>1, <3>1
  <2>3. CL!Argument(t) \in 1..(Len(t) + 1)
    BY <2>2, SkipIs DEF CL!Argument
  <2> QED
    BY <1>1, <2>3
<1>5. SubSeq(t, CL!Argument(t), Len(t)) \in Seq(Letters)
  BY <1>1, <1>4, Sub
<1>6. CL!Trimmed(SubSeq(t, CL!Argument(t), Len(t))) \in Seq(Letters)
  BY <1>5, TrimmedIs
<1> HIDE DEF Letters
<1> QED
  BY <1>3, <1>6 DEF Part

Fits == End - start >= longest

NewPart == [program |-> SubSeq(Text, 1, CL!FirstBlank(Text, 1) - 1),
            arg |-> CL!Trimmed(SubSeq(Text, CL!Argument(Text), Len(Text))), fits |-> Fits]

(* What CutPart does.                                                       *)
LEMMA CutIs ==
    ASSUME LineTypes, CL!CutPart
    PROVE  /\ step = "cut" /\ scan <= Len(typed)
           /\ run' = Append(run, NewPart) /\ NewPart \in Part
           /\ command' = [k \in 1..CL!Size |->
                  IF \/ k = CL!FirstBlank(Text, 1)
                     \/ /\ CL!FirstBlank(Text, CL!SkipBlanks(Text, 1)) <= Len(Text)
                        /\ k = CL!Argument(Text) + Len(NewPart.arg)
                  THEN "nul" ELSE Buffer[k]]
           /\ longest' = CL!Greatest({longest, End - start})
           /\ start' = CL!SkipBlanks(typed, End + 1) /\ scan' = start' + 1
           /\ UNCHANGED <<step, typed, inputs>>
<1>1. step = "cut" /\ scan <= Len(typed)
  BY DEF CL!CutPart
<1>2. Fits \in BOOLEAN
  BY DEF Fits
<1>3. Text \in Seq(Letters)
  BY <1>1, ContentIs DEF Text
<1>4. NewPart \in Part
  BY <1>2, <1>3, PartIs DEF NewPart
<1> QED
  BY <1>1, <1>4 DEF CL!CutPart, End, Buffer, Text, NewPart, Fits, CL!Behind

LEMMA LineTypesStart == CL!Init => LineTypes
<1> SUFFICES ASSUME CL!Init PROVE LineTypes
  OBVIOUS
<1>1. /\ command \in [1..CL!Size -> CL!Characters \cup {"nul"}]
      /\ \A k \in 1..CL!Size : k > longest => command[k] = "nul"
  BY DEF CL!Init
<1>2. /\ step = "getline" /\ typed = <<>> /\ start = 1 /\ scan = 1 /\ run = <<>> /\ longest = 0 /\ inputs = 0
  BY DEF CL!Init
<1> QED
  BY <1>1, <1>2, ProgramConstants DEF LineTypes

LEMMA LineTypesSteps == LineTypes /\ [CL!Next]_clVars => LineTypes'
<1> SUFFICES ASSUME LineTypes, [CL!Next]_clVars PROVE LineTypes'
  OBVIOUS
<1>1. CASE UNCHANGED clVars
  BY <1>1 DEF clVars, LineTypes
<1>2. CASE CL!Getline
  <2>1. PICK t \in CL!SeqOf(CL!Characters, MaxChars) : typed' = Append(t, "newline")
    BY <1>2 DEF CL!Getline
  <2>2. PICK n \in 0..MaxChars : t \in [1..n -> CL!Characters]
    BY DEF CL!SeqOf
  <2>3. n \in Nat /\ n <= MaxChars /\ MaxChars \in Nat
    BY <2>2, ProgramConstants
  <2>4. t \in Seq(Letters) /\ Len(t) = n
    <3>1. CL!Characters \subseteq Letters
      BY DEF CL!Characters, Letters
    <3>2. t \in [1..n -> Letters]
      BY <2>2, <3>1
    <3> HIDE DEF Letters
    <3> QED
      BY <2>3, <3>2
  <2>5. /\ typed' \in Seq(Letters) /\ Len(typed') = n + 1
        /\ \A k \in 1..n : typed'[k] = t[k]
        /\ typed'[n + 1] = "newline"
    <3>1. "newline" \in Letters
      BY DEF Letters
    <3> HIDE DEF Letters
    <3> QED
      BY <2>1, <2>3, <2>4, <3>1
  <2>6. \A k \in 1..Len(typed') : \/ typed'[k] \in CL!Characters
                                  \/ k = Len(typed') /\ typed'[k] = "newline"
    <3> SUFFICES ASSUME NEW k \in 1..(n + 1) PROVE typed'[k] \in CL!Characters \/ (k = n + 1 /\ typed'[k] = "newline")
      BY <2>5
    <3>1. CASE k = n + 1
      BY <2>5, <3>1
    <3>2. CASE k # n + 1
      <4>1. k \in 1..n
        BY <2>3, <3>2
      <4> QED
        BY <2>2, <2>5, <4>1
    <3> QED
      BY <3>1, <3>2
  <2>7. Len(typed') <= MaxChars + 1 /\ Len(typed') > 0 /\ typed'[Len(typed')] = "newline" /\ 1 \in 1..(Len(typed') + 1)
    BY <2>3, <2>5
  <2>8. /\ step' = "cut" /\ inputs' \in 0..MaxInputs /\ start' = 1 /\ scan' = 1 /\ run' = <<>>
        /\ command' = command /\ longest' = longest
    BY <1>2, ProgramConstants DEF CL!Getline, LineTypes
  <2> QED
    BY <2>5, <2>6, <2>7, <2>8 DEF LineTypes
<1>3. CASE CL!Quit \/ CL!RecursiveCall
  BY <1>3 DEF CL!Quit, CL!RecursiveCall, LineTypes
<1>4. CASE CL!Return
  <2>1. /\ step' = "getline" /\ typed' = <<>> /\ scan' = 1 /\ start' = 1 /\ run' = <<>>
        /\ UNCHANGED <<command, longest, inputs>>
    BY <1>4 DEF CL!Return
  <2>2. Len(typed') = 0 /\ typed' \in Seq(Letters) /\ run' \in Seq(Part)
    BY <2>1
  <2> QED
    BY <2>1, <2>2, ProgramConstants DEF LineTypes
<1>5. CASE CL!CutPart
  <2>1. /\ step = "cut" /\ scan <= Len(typed)
        /\ run' = Append(run, NewPart) /\ NewPart \in Part
        /\ longest' = CL!Greatest({longest, End - start})
        /\ start' = CL!SkipBlanks(typed, End + 1) /\ scan' = start' + 1
        /\ UNCHANGED <<step, typed, inputs>>
    BY <1>5, CutIs
  <2>2. End \in Nat /\ End - start \in 0..MaxChars /\ Len(typed) \in Nat
    BY <2>1, EndIs
  <2>3. start' \in 1..(Len(typed) + 1)
    <3>1. End + 1 \in Nat \ {0} /\ typed \in Seq(Letters)
      BY <2>2 DEF LineTypes
    <3> QED
      BY <2>1, <3>1, SkipIs
  <2>4. /\ longest' \in 0..MaxChars /\ longest' >= longest /\ longest' >= End - start
        /\ MaxChars \in Nat
    <3> DEFINE T == {longest, End - start}
    <3>1. T \subseteq 0..MaxChars /\ T # {} /\ MaxChars \in Nat
      BY <2>2, ProgramConstants DEF LineTypes
    <3>2. CL!Greatest(T) \in T /\ \A m \in T : CL!Greatest(T) >= m
      BY <3>1, GreatestIs
    <3> QED
      BY <2>1, <3>1, <3>2
  <2>5. /\ Buffer \in [1..CL!Size -> CL!Characters \cup {"nul"}]
        /\ \A k \in 1..CL!Size : k > longest /\ k > End - start => Buffer[k] = "nul"
        /\ CL!Size \in Nat
    BY <2>1, CopiedIs
  <2>6. /\ command' \in [1..CL!Size -> CL!Characters \cup {"nul"}]
        /\ \A k \in 1..CL!Size : command'[k] = "nul" \/ command'[k] = Buffer[k]
    <3> DEFINE W(k) == \/ k = CL!FirstBlank(Text, 1)
                       \/ /\ CL!FirstBlank(Text, CL!SkipBlanks(Text, 1)) <= Len(Text)
                          /\ k = CL!Argument(Text) + Len(NewPart.arg)
    <3>1. command' = [k \in 1..CL!Size |-> IF W(k) THEN "nul" ELSE Buffer[k]]
      BY <1>5, CutIs
    <3> HIDE DEF W
    <3> QED
      BY <2>5, <3>1
  <2>7. \A k \in 1..CL!Size : k > longest' => command'[k] = "nul"
    <3> SUFFICES ASSUME NEW k \in 1..CL!Size, k > longest' PROVE command'[k] = "nul"
      OBVIOUS
    <3>1. k > longest /\ k > End - start
      <4>1. longest \in Nat /\ longest' \in Nat /\ k \in Nat /\ End - start \in Nat
        BY <2>2, <2>4, <2>5 DEF LineTypes
      <4> QED
        BY <2>4, <4>1
    <3> QED
      BY <2>5, <2>6, <3>1
  <2>8. run' \in Seq(Part)
    BY <2>1 DEF LineTypes
  <2> QED
    BY <2>1, <2>3, <2>4, <2>6, <2>7, <2>8 DEF LineTypes, CL!Size
<1> QED
  BY <1>1, <1>2, <1>3, <1>4, <1>5 DEF CL!Next

-----------------------------------------------------------------------------
(* What has been cut *)

UpTo(d) == {k \in CL!Ends : k <= d}

(* What RunsAsTyped says of the program of the part that ends at e.         *)
Right(part, e) ==
    LET words == SubSeq(CL!Typed(e), CL!SkipBlanks(CL!Typed(e), 1), Len(CL!Typed(e)))
        rest == SubSeq(words, CL!FirstBlank(words, 1), Len(words))
    IN  part.fits =>
          /\ part.program = SubSeq(words, 1, CL!FirstBlank(words, 1) - 1)
          /\ part.arg = CL!Trimmed(SubSeq(rest, CL!SkipBlanks(rest, 1), Len(rest)))

(* The parts up to the end d are cut, one program for each.                 *)
Done(d) == /\ start = CL!SkipBlanks(typed, d + 1)
           /\ Len(run) = Cardinality(UpTo(d))
           /\ \A e \in CL!Ends : e <= d => Right(run[Cardinality(UpTo(e))], e)

LEMMA EndsAre ==
    ASSUME LineTypes
    PROVE  /\ Len(typed) \in Nat /\ typed \in Seq(Letters)
           /\ CL!Ends \subseteq 1..Len(typed)
           /\ \A k \in CL!Ends : k \in Nat /\ k > 0 /\ k <= Len(typed) /\ typed[k] # "blank"
           /\ step \in {"cut", "run"} => Len(typed) \in CL!Ends
<1>1. Len(typed) \in Nat /\ typed \in Seq(Letters)
  BY DEF LineTypes
<1>2. CL!Ends \subseteq 1..Len(typed)
  <2>1. 1 \in Nat
    OBVIOUS
  <2> QED
    BY <1>1, <2>1, Filtered DEF CL!Ends
<1>3. \A k : k \in CL!Ends <=> k \in 1..Len(typed) /\ typed[k] \in {"bar", "newline"}
  BY Zenon DEF CL!Ends
<1>4. \A k \in CL!Ends : typed[k] # "blank"
  BY <1>3
<1>5. step \in {"cut", "run"} => Len(typed) \in CL!Ends
  BY <1>1, <1>3 DEF LineTypes
<1> QED
  BY <1>1, <1>2, <1>4, <1>5

(* The part between two ends.                                               *)
LEMMA TypedIs ==
    ASSUME LineTypes, NEW d \in {0} \cup CL!Ends, NEW e \in CL!Ends, d < e,
           \A k \in CL!Ends : k <= d \/ e <= k
    PROVE  /\ CL!Typed(e) = SubSeq(typed, d + 1, e - 1)
           /\ CL!Typed(e) \in Seq(Letters) /\ Len(CL!Typed(e)) = e - 1 - d
           /\ \A k \in 1..(e - 1 - d) : CL!Typed(e)[k] = typed[d + k]
<1> DEFINE F == {k \in CL!Ends : k < e}
           T == {0} \cup F
<1>1. /\ Len(typed) \in Nat /\ typed \in Seq(Letters) /\ CL!Ends \subseteq 1..Len(typed)
      /\ \A k \in CL!Ends : k \in Nat /\ k > 0 /\ k <= Len(typed)
  BY EndsAre
<1>2. \A k : k \in F <=> k \in CL!Ends /\ k < e
  BY Zenon
<1>3. CL!Typed(e) = SubSeq(typed, 1 + CL!Greatest(T), e - 1)
  BY DEF CL!Typed
<1> HIDE DEF F
<1>4. d \in T /\ \A k \in T : k <= d /\ k \in 0..Len(typed)
  BY <1>1, <1>2
<1>5. CL!Greatest(T) = d
  <2>1. T \subseteq 0..Len(typed) /\ T # {}
    BY <1>4
  <2>2. CL!Greatest(T) \in T /\ \A m \in T : CL!Greatest(T) >= m
    BY <1>1, <2>1, GreatestIs
  <2> DEFINE g == CL!Greatest(T)
  <2> HIDE DEF g, T
  <2>3. g \in 0..Len(typed) /\ d \in 0..Len(typed) /\ g <= d /\ g >= d
    BY <1>4, <2>2 DEF g
  <2>4. g = d
    BY <1>1, <2>3
  <2> QED
    BY <2>4 DEF g
<1>6. d \in Nat /\ e \in Nat /\ d + 1 \in Nat \ {0} /\ e - 1 \in Nat /\ e - 1 <= Len(typed) /\ 1 + d = d + 1
  BY <1>1
<1>7. CL!Typed(e) = SubSeq(typed, d + 1, e - 1)
  BY <1>3, <1>5, <1>6
<1>8. /\ CL!Typed(e) \in Seq(Letters)
      /\ Len(CL!Typed(e)) = IF d + 1 <= e - 1 THEN e - 1 - (d + 1) + 1 ELSE 0
      /\ \A k \in 1..(e - 1 - (d + 1) + 1) : CL!Typed(e)[k] = typed[d + 1 + k - 1]
  BY <1>1, <1>6, <1>7, Sub
<1>9. Len(CL!Typed(e)) = e - 1 - d
  BY <1>6, <1>8
<1>10. ASSUME NEW k \in 1..(e - 1 - d) PROVE CL!Typed(e)[k] = typed[d + k]
  <2>1. k \in 1..(e - 1 - (d + 1) + 1) /\ d + 1 + k - 1 = d + k
    BY <1>6
  <2> QED
    BY <1>8, <2>1
<1> QED
  BY <1>7, <1>8, <1>9, <1>10

(* As long as a part is left, the next one begins before its end: in a line *)
(* that is well formed no part is empty.                                    *)
LEMMA NextPart ==
    ASSUME LineTypes, step = "cut", CL!WellFormed, NEW d \in {0} \cup CL!Ends, Done(d),
           d # Len(typed)
    PROVE  \E e \in CL!Ends : /\ d < e /\ d < start /\ start < e
                              /\ \A k \in CL!Ends : k <= d \/ e <= k
<1>1. /\ Len(typed) \in Nat /\ typed \in Seq(Letters) /\ CL!Ends \subseteq 1..Len(typed)
      /\ \A k \in CL!Ends : k \in Nat /\ k > 0 /\ k <= Len(typed)
      /\ Len(typed) \in CL!Ends
  BY EndsAre
<1>2. d \in Nat /\ d < Len(typed)
  BY <1>1
<1> DEFINE T == {k \in CL!Ends : k > d}
<1>3. \A k : k \in T <=> k \in CL!Ends /\ k > d
  BY Zenon
<1> HIDE DEF T
<1>4. T \subseteq Nat /\ Len(typed) \in T
  BY <1>1, <1>2, <1>3
<1>5. PICK e \in T : \A k \in T : e <= k
  BY <1>4, Lowest
<1>6. e \in CL!Ends /\ d < e /\ e \in Nat /\ e <= Len(typed) /\ \A k \in CL!Ends : k <= d \/ e <= k
  <2>1. e \in CL!Ends /\ d < e
    BY <1>3, <1>5
  <2>2. ASSUME NEW k \in CL!Ends, ~(k <= d) PROVE e <= k
    <3>1. k \in T
      BY <1>1, <1>2, <1>3, <2>2
    <3> QED
      BY <1>5, <3>1
  <2> QED
    BY <1>1, <2>1, <2>2
<1>7. /\ CL!Typed(e) \in Seq(Letters) /\ Len(CL!Typed(e)) = e - 1 - d
      /\ \A k \in 1..(e - 1 - d) : CL!Typed(e)[k] = typed[d + k]
  BY <1>6, TypedIs
<1>8. PICK k \in 1..Len(CL!Typed(e)) : CL!Typed(e)[k] # "blank"
  <2>1. CL!Trimmed(CL!Typed(e)) # <<>>
    BY <1>6 DEF CL!WellFormed
  <2> QED
    BY <1>7, <2>1, TrimmedIs
<1>9. d + k \in (d + 1)..Len(typed) /\ d + k < e /\ typed[d + k] # "blank"
  BY <1>1, <1>2, <1>6, <1>7, <1>8
<1>10. d + 1 \in Nat \ {0}
  BY <1>2
<1>11. /\ start \in 1..(Len(typed) + 1) /\ (start = Len(typed) + 1 \/ start \in (d + 1)..Len(typed))
       /\ start <= d + k
  BY <1>1, <1>9, <1>10, SkipIs DEF Done
<1>12. d < start /\ start < e
  BY <1>1, <1>2, <1>6, <1>9, <1>11
<1> QED
  BY <1>6, <1>12

LEMMA NextEnd ==
    ASSUME LineTypes, step = "cut", scan <= Len(typed), CL!WellFormed,
           NEW d \in {0} \cup CL!Ends, Done(d)
    PROVE  /\ d \in Nat /\ d < End /\ start < End /\ End \in CL!Ends
           /\ \A k \in CL!Ends : k <= d \/ End <= k
<1>1. /\ Len(typed) \in Nat /\ typed \in Seq(Letters)
      /\ \A k \in CL!Ends : k \in Nat /\ k > 0 /\ k <= Len(typed)
  BY EndsAre
<1>2. /\ start \in Nat /\ scan \in {start, start + 1} /\ scan \in Nat
      /\ End \in scan..Len(typed) /\ End \in CL!Ends
      /\ \A k \in scan..Len(typed) : k \in CL!Ends => End <= k
  BY EndIs DEF LineTypes
<1>3. d \in Nat /\ d <= Len(typed)
  BY <1>1
<1>4. d # Len(typed)
  <2> SUFFICES ASSUME d = Len(typed) PROVE FALSE
    OBVIOUS
  <2>1. d + 1 \in Nat \ {0}
    BY <1>3
  <2>2. start = Len(typed) + 1 \/ start \in (d + 1)..Len(typed)
    BY <1>1, <2>1, SkipIs DEF Done
  <2> QED
    BY <1>1, <1>2, <2>2
<1>5. PICK e \in CL!Ends : /\ d < e /\ d < start /\ start < e
                           /\ \A k \in CL!Ends : k <= d \/ e <= k
  BY <1>4, NextPart
<1>6. e \in scan..Len(typed)
  BY <1>1, <1>2, <1>5
<1>7. End <= e
  BY <1>2, <1>5, <1>6
<1>8. ~(End <= d)
  <2>1. End \in Nat /\ End >= scan /\ scan >= start
    BY <1>1, <1>2
  <2> QED
    BY <1>2, <1>3, <1>5, <2>1
<1>9. End = e
  BY <1>1, <1>2, <1>5, <1>7, <1>8
<1> QED
  BY <1>3, <1>5, <1>9

(* The part that is cut next is right if it fits.                           *)
LEMMA NewPartRight ==
    ASSUME LineTypes, step = "cut", scan <= Len(typed), CL!WellFormed,
           NEW d \in {0} \cup CL!Ends, Done(d)
    PROVE  Right(NewPart, End)
<1>1. /\ d \in Nat /\ d < End /\ start < End /\ End \in CL!Ends
      /\ \A k \in CL!Ends : k <= d \/ End <= k
  BY NextEnd
<1>2. /\ CL!Typed(End) = SubSeq(typed, d + 1, End - 1)
      /\ CL!Typed(End) \in Seq(Letters) /\ Len(CL!Typed(End)) = End - 1 - d
  BY <1>1, TypedIs
<1>3. /\ Len(typed) \in Nat /\ typed \in Seq(Letters) /\ End \in Nat /\ End <= Len(typed)
      /\ typed[start] # "blank" /\ start \in Nat \ {0} /\ start \in 1..(Len(typed) + 1)
  <2>1. /\ Len(typed) \in Nat /\ typed \in Seq(Letters) /\ End \in Nat /\ End <= Len(typed)
        /\ start \in 1..(Len(typed) + 1)
    BY <1>1, EndsAre DEF LineTypes
  <2>2. d + 1 \in Nat \ {0}
    BY <1>1
  <2>3. start = Len(typed) + 1 \/ typed[start] # "blank"
    BY <2>1, <2>2, SkipIs DEF Done
  <2> QED
    BY <1>1, <2>1, <2>3
<1> DEFINE r == CL!Typed(End)
           t == SubSeq(typed, start, End - 1)
<1>4. SubSeq(r, CL!SkipBlanks(r, 1), Len(r)) = t
  <2>1. d + 1 \in 1..(Len(typed) + 1) /\ End - 1 \in (d + 1 - 1)..Len(typed)
    BY <1>1, <1>3
  <2>2. CL!SkipBlanks(typed, d + 1) = start /\ start <= End - 1 + 1
    BY <1>1, <1>3 DEF Done
  <2> DEFINE m == d + 1
             n == End - 1
  <2>3. m \in 1..(Len(typed) + 1) /\ n \in (m - 1)..Len(typed) /\ CL!SkipBlanks(typed, m) = start
    BY <2>1, <2>2
  <2>4. CL!SkipBlanks(typed, m) <= n + 1
    BY <2>2
  <2>5. r = SubSeq(typed, m, n) /\ t = SubSeq(typed, start, n)
    BY <1>2
  <2> HIDE DEF m, n, r, t
  <2>6. SubSeq(SubSeq(typed, m, n), CL!SkipBlanks(SubSeq(typed, m, n), 1), Len(SubSeq(typed, m, n)))
          = SubSeq(typed, CL!SkipBlanks(typed, m), n)
    BY <1>3, <2>3, <2>4, SkipShift
  <2> QED
    BY <2>3, <2>5, <2>6
<1>5. /\ t \in Seq(Letters) /\ Len(t) = End - start /\ Len(t) > 0 /\ t[1] = typed[start]
      /\ Len(t) \in Nat
  <2>1. End - 1 \in Nat /\ End - 1 <= Len(typed)
    BY <1>1, <1>3
  <2>2. /\ t \in Seq(Letters)
        /\ Len(t) = IF start <= End - 1 THEN End - 1 - start + 1 ELSE 0
        /\ \A k \in 1..(End - 1 - start + 1) : t[k] = typed[start + k - 1]
    BY <1>3, <2>1, Sub
  <2> HIDE DEF t
  <2>3. 1 \in 1..(End - 1 - start + 1) /\ start + 1 - 1 = start
    BY <1>1, <1>3
  <2> QED
    BY <1>1, <1>3, <2>2, <2>3
<1> HIDE DEF t, r
<1>6. CL!SkipBlanks(t, 1) = 1
  <2>1. 1 \in Nat \ {0} /\ 1 \in Nat /\ 1 \in 1..Len(t) /\ t[1] # "blank"
    BY <1>3, <1>5
  <2>2. \A k \in 1..Len(t) : t[k] # "blank" => 1 <= k
    BY <1>5
  <2> QED
    BY <1>5, <2>1, <2>2, SkipIsOnly, Zenon
<1> DEFINE b == CL!FirstBlank(t, 1)
           q == SubSeq(t, b, Len(t))
<1>7. CL!Argument(t) = CL!SkipBlanks(t, b)
  BY <1>6 DEF CL!Argument
<1>8. SubSeq(q, CL!SkipBlanks(q, 1), Len(q)) = SubSeq(t, CL!Argument(t), Len(t))
  <2>1. b \in 1..(Len(t) + 1)
    <3>1. 1 \in Nat \ {0}
      OBVIOUS
    <3> QED
      BY <1>5, <3>1, FirstBlankIs
  <2>2. b \in Nat \ {0} /\ Len(t) \in (b - 1)..Len(t)
    <3> HIDE DEF b
    <3> QED
      BY <1>5, <2>1
  <2>3. CL!SkipBlanks(t, b) <= Len(t) + 1
    <3>1. CL!SkipBlanks(t, b) \in 1..(Len(t) + 1)
      BY <1>5, <2>2, SkipIs
    <3> QED
      BY <1>5, <3>1
  <2> QED
    BY <1>5, <1>7, <2>1, <2>2, <2>3, SkipShift
<1>9. Fits => Text = t
  BY ContentIs DEF Fits, Text, t
<1>10. NewPart.fits = Fits /\ NewPart.program = SubSeq(Text, 1, CL!FirstBlank(Text, 1) - 1)
       /\ NewPart.arg = CL!Trimmed(SubSeq(Text, CL!Argument(Text), Len(Text)))
  BY DEF NewPart
<1>11. SubSeq(CL!Typed(End), CL!SkipBlanks(CL!Typed(End), 1), Len(CL!Typed(End))) = t
  BY <1>4 DEF r
<1> QED
  BY <1>8, <1>9, <1>10, <1>11 DEF Right

LEMMA NextRank ==
    ASSUME LineTypes, NEW d \in {0} \cup CL!Ends, NEW e \in CL!Ends, d < e,
           \A k \in CL!Ends : k <= d \/ e <= k
    PROVE  Cardinality(UpTo(e)) = Cardinality(UpTo(d)) + 1
<1>1. /\ Len(typed) \in Nat /\ CL!Ends \subseteq 1..Len(typed)
      /\ \A k \in CL!Ends : k \in Nat /\ k > 0
  BY EndsAre
<1>2. \A k : (k \in UpTo(d) <=> k \in CL!Ends /\ k <= d) /\ (k \in UpTo(e) <=> k \in CL!Ends /\ k <= e)
  BY Zenon DEF UpTo
<1>3. UpTo(e) = UpTo(d) \cup {e} /\ e \notin UpTo(d)
  <2>1. \A k \in CL!Ends : k <= e <=> (k <= d \/ k = e)
    BY <1>1
  <2>2. ~(e <= d)
    BY <1>1
  <2> QED
    BY <1>2, <2>1, <2>2
<1>4. UpTo(d) \subseteq 1..Len(typed)
  BY <1>1, <1>2
<1>5. IsFiniteSet(UpTo(d))
  BY <1>1, <1>4, Finite
<1> QED
  BY <1>3, <1>5, FS_AddElement

LEMMA RankIs ==
    ASSUME LineTypes, NEW d \in {0} \cup CL!Ends
    PROVE  /\ Cardinality(UpTo(d)) \in Nat
           /\ \A e \in CL!Ends : e <= d => Cardinality(UpTo(e)) \in 1..Cardinality(UpTo(d))
<1>1. /\ Len(typed) \in Nat /\ CL!Ends \subseteq 1..Len(typed)
      /\ \A k \in CL!Ends : k \in Nat /\ k > 0
  BY EndsAre
<1>2. ASSUME NEW b \in {0} \cup CL!Ends
      PROVE  /\ IsFiniteSet(UpTo(b)) /\ Cardinality(UpTo(b)) \in Nat
             /\ \A k : k \in UpTo(b) <=> k \in CL!Ends /\ k <= b
  <2>1. \A k : k \in UpTo(b) <=> k \in CL!Ends /\ k <= b
    BY Zenon DEF UpTo
  <2>2. UpTo(b) \subseteq 1..Len(typed)
    BY <1>1, <2>1
  <2> QED
    BY <1>1, <2>1, <2>2, Finite
<1>3. ASSUME NEW e \in CL!Ends, e <= d PROVE Cardinality(UpTo(e)) \in 1..Cardinality(UpTo(d))
  <2>1. /\ IsFiniteSet(UpTo(e)) /\ Cardinality(UpTo(e)) \in Nat
        /\ IsFiniteSet(UpTo(d)) /\ Cardinality(UpTo(d)) \in Nat
        /\ \A k : k \in UpTo(e) <=> k \in CL!Ends /\ k <= e
        /\ \A k : k \in UpTo(d) <=> k \in CL!Ends /\ k <= d
    BY <1>2
  <2>2. e \in UpTo(e)
    BY <1>1, <2>1
  <2>3. \A k \in CL!Ends : k <= e => k <= d
    BY <1>1, <1>3
  <2>4. UpTo(e) \subseteq UpTo(d)
    BY <2>1, <2>3
  <2>5. Cardinality(UpTo(e)) <= Cardinality(UpTo(d))
    BY <2>1, <2>4, FS_Subset
  <2>6. Cardinality(UpTo(e)) # 0
    BY <2>1, <2>2, FS_EmptySet
  <2> QED
    BY <2>1, <2>5, <2>6
<1> QED
  BY <1>2, <1>3

LEMMA CutDone ==
    ASSUME LineTypes, CL!WellFormed, NEW d \in {0} \cup CL!Ends, Done(d), CL!CutPart
    PROVE  \E e \in CL!Ends : Done(e)'
<1>1. /\ step = "cut" /\ scan <= Len(typed) /\ NewPart \in Part
      /\ run' = Append(run, NewPart) /\ start' = CL!SkipBlanks(typed, End + 1) /\ typed' = typed
  BY CutIs
<1>2. /\ d < End /\ End \in CL!Ends /\ \A k \in CL!Ends : k <= d \/ End <= k
  BY <1>1, NextEnd
<1>3. PICK e \in CL!Ends : e = End
  BY <1>2
<1>4. Right(NewPart, e)
  BY <1>1, <1>3, NewPartRight
<1>5. /\ CL!Ends' = CL!Ends /\ \A b : UpTo(b)' = UpTo(b)
      /\ \A b, p : Right(p, b)' <=> Right(p, b)
  <2>1. CL!Ends' = CL!Ends
    BY <1>1 DEF CL!Ends
  <2>2. \A b : UpTo(b)' = UpTo(b)
    BY <2>1 DEF UpTo
  <2>3. \A b : CL!Typed(b)' = CL!Typed(b)
    BY <1>1, <2>1 DEF CL!Typed
  <2>4. \A b, p : Right(p, b)' <=> Right(p, b)
    BY <2>3, ZenonT(40) DEF Right
  <2> QED
    BY <2>1, <2>2, <2>4
<1>6. /\ Len(run) = Cardinality(UpTo(d)) /\ run \in Seq(Part) /\ Cardinality(UpTo(d)) \in Nat
      /\ \A b \in CL!Ends : b <= d => Cardinality(UpTo(b)) \in 1..Len(run)
  BY RankIs DEF Done, LineTypes
<1>7. Cardinality(UpTo(e)) = Len(run) + 1
  BY <1>2, <1>3, <1>6, NextRank
<1>8. /\ Len(run') = Len(run) + 1 /\ run'[Len(run) + 1] = NewPart
      /\ \A k \in 1..Len(run) : run'[k] = run[k]
  <2> HIDE DEF NewPart, Part
  <2> QED
    BY <1>1, <1>6
<1>9. ASSUME NEW b \in CL!Ends, b <= e PROVE Right(run'[Cardinality(UpTo(b))], b)
  <2>1. CASE b = e
    BY <1>4, <1>7, <1>8, <2>1
  <2>2. CASE b # e
    <3>1. b <= d
      <4>1. b \in Nat /\ e \in Nat
        BY <1>3, EndsAre
      <4> QED
        BY <1>2, <1>3, <1>9, <2>2, <4>1
    <3>2. Right(run[Cardinality(UpTo(b))], b) /\ Cardinality(UpTo(b)) \in 1..Len(run)
      BY <1>6, <3>1 DEF Done
    <3> QED
      BY <1>8, <3>2
  <2> QED
    BY <2>1, <2>2
<1>10. Done(e)'
  <2>1. start' = CL!SkipBlanks(typed', e + 1)
    BY <1>1, <1>3
  <2>2. Len(run') = Cardinality(UpTo(e)')
    BY <1>5, <1>7, <1>8
  <2>3. ASSUME NEW b \in CL!Ends, b <= e PROVE Right(run[Cardinality(UpTo(b))], b)'
    BY <1>5, <1>9, <2>3
  <2> QED
    BY <1>5, <2>1, <2>2, <2>3 DEF Done
<1> QED
  BY <1>10

(* While a line is cut that is well formed everything up to some end is;    *)
(* when it runs, all of it.                                                 *)
LineIInv ==
    /\ LineTypes
    /\ step = "cut" /\ CL!WellFormed => \E d \in {0} \cup CL!Ends : Done(d)
    /\ step = "run" /\ CL!WellFormed => Done(Len(typed))

LEMMA LineStart == CL!Init => LineIInv
BY LineTypesStart DEF LineIInv, CL!Init

LEMMA LineSteps == LineIInv /\ [CL!Next]_clVars => LineIInv'
<1> SUFFICES ASSUME LineIInv, [CL!Next]_clVars PROVE LineIInv'
  OBVIOUS
<1>1. LineTypes /\ LineTypes'
  BY LineTypesSteps DEF LineIInv
<1>2. ASSUME typed' = typed PROVE /\ CL!Ends' = CL!Ends /\ (CL!WellFormed' <=> CL!WellFormed)
                                  /\ \A b : UpTo(b)' = UpTo(b)
                                  /\ \A b, p : Right(p, b)' <=> Right(p, b)
  <2>1. CL!Ends' = CL!Ends
    BY <1>2 DEF CL!Ends
  <2>2. \A b : UpTo(b)' = UpTo(b)
    BY <2>1 DEF UpTo
  <2>3. \A b : CL!Typed(b)' = CL!Typed(b)
    BY <1>2, <2>1 DEF CL!Typed
  <2>4. \A b, p : Right(p, b)' <=> Right(p, b)
    BY <2>3, ZenonT(40) DEF Right
  <2>5. CL!WellFormed' <=> CL!WellFormed
    BY <1>2, <2>1, <2>3, Zenon DEF CL!WellFormed
  <2> QED
    BY <2>1, <2>2, <2>4, <2>5
<1>3. CASE UNCHANGED clVars
  <2>1. UNCHANGED <<step, typed, start, run>>
    BY <1>3 DEF clVars
  <2>2. \A d : Done(d)' <=> Done(d)
    BY <1>2, <2>1 DEF Done
  <2> QED
    BY <1>1, <1>2, <2>1, <2>2 DEF LineIInv
<1>4. CASE CL!Getline
  <2>1. step' = "cut" /\ start' = 1 /\ run' = <<>>
    BY <1>4 DEF CL!Getline
  <2>2. ASSUME CL!WellFormed' PROVE Done(0)'
    <3>1. /\ Len(typed') \in Nat /\ typed' \in Seq(Letters) /\ Len(typed') > 0
          /\ \A k \in CL!Ends' : k \in Nat /\ k > 0
      <4>1. \A k \in CL!Ends' : k \in Nat /\ k > 0
        <5>1. \A k \in CL!Ends' : k \in 1..Len(typed')
          BY Zenon DEF CL!Ends
        <5> QED
          BY <5>1
      <4> QED
        BY <1>1, <2>1, <4>1 DEF LineTypes
    <3>2. CL!SkipBlanks(typed', 1) = 1
      <4>1. 1 \in Nat \ {0} /\ 1 \in Nat /\ 1 \in 1..Len(typed') /\ typed'[1] # "blank"
        BY <2>2, <3>1 DEF CL!WellFormed
      <4>2. \A k \in 1..Len(typed') : typed'[k] # "blank" => 1 <= k
        BY <3>1
      <4> QED
        BY <3>1, <4>1, <4>2, SkipIsOnly, Zenon
    <3>3. UpTo(0)' = {}
      <4>1. \A k \in CL!Ends' : ~(k <= 0)
        BY <3>1
      <4> QED
        BY <4>1, Zenon DEF UpTo
    <3>4. Len(run') = Cardinality(UpTo(0)')
      BY <2>1, <3>3, FS_EmptySet
    <3>5. \A e \in CL!Ends' : ~(e <= 0)
      BY <3>1
    <3>6. start' = CL!SkipBlanks(typed', 0 + 1)
      BY <2>1, <3>2
    <3> QED
      BY <3>4, <3>5, <3>6 DEF Done
  <2> QED
    BY <1>1, <2>1, <2>2 DEF LineIInv
<1>5. CASE CL!Quit
  BY <1>1, <1>5 DEF CL!Quit, LineIInv
<1>6. CASE CL!Return
  BY <1>1, <1>6 DEF CL!Return, LineIInv
<1>7. CASE CL!CutPart
  <2>1. step' = "cut" /\ step = "cut" /\ typed' = typed
    BY <1>1, <1>7, CutIs
  <2>2. ASSUME CL!WellFormed' PROVE \E e \in CL!Ends : Done(e)'
    <3>1. CL!WellFormed
      BY <1>2, <2>1, <2>2
    <3>2. PICK d \in {0} \cup CL!Ends : Done(d)
      BY <2>1, <3>1 DEF LineIInv
    <3> QED
      BY <1>1, <1>7, <3>1, <3>2, CutDone
  <2>3. CL!Ends' = CL!Ends
    BY <1>2, <2>1
  <2> QED
    BY <1>1, <2>1, <2>2, <2>3 DEF LineIInv
<1>8. CASE CL!RecursiveCall
  <2>1. step = "cut" /\ step' = "run" /\ UNCHANGED <<typed, start, run, scan>> /\ scan > Len(typed)
    BY <1>8 DEF CL!RecursiveCall
  <2>2. ASSUME CL!WellFormed PROVE Done(Len(typed))
    <3>1. PICK d \in {0} \cup CL!Ends : Done(d)
      BY <2>1, <2>2 DEF LineIInv
    <3>2. ASSUME d # Len(typed) PROVE FALSE
      <4>1. PICK e \in CL!Ends : start < e
        BY <1>1, <2>1, <2>2, <3>1, <3>2, NextPart
      <4>2. e \in Nat /\ e <= Len(typed) /\ start \in Nat /\ Len(typed) \in Nat /\ scan \in {start, start + 1}
        BY <1>1, EndsAre DEF LineTypes
      <4> QED
        BY <2>1, <4>1, <4>2
    <3> QED
      BY <3>1, <3>2
  <2>3. Done(Len(typed)) => Done(Len(typed))'
    BY <1>2, <2>1 DEF Done
  <2> QED
    BY <1>1, <1>2, <2>1, <2>2, <2>3 DEF LineIInv
<1> QED
  BY <1>3, <1>4, <1>5, <1>6, <1>7, <1>8 DEF CL!Next

(* Cardinality as CommandLine has it.                                       *)
LEMMA SameCount == \A S : CL!Cardinality(S) = Cardinality(S)
BY Zenon DEF CL!Cardinality, Cardinality

LEMMA LineRuns == LineIInv => CL!RunsAsTyped
<1> SUFFICES ASSUME LineIInv PROVE CL!RunsAsTyped
  OBVIOUS
<1>1. ASSUME step = "run", CL!WellFormed PROVE Done(Len(typed)) /\ LineTypes
  BY <1>1 DEF LineIInv
<1>2. ASSUME step = "run", CL!WellFormed
      PROVE  /\ Len(run) = CL!Cardinality(CL!Ends)
             /\ \A e \in CL!Ends : Right(run[CL!Cardinality({k \in CL!Ends : k <= e})], e)
  <2>1. \A k \in CL!Ends : k <= Len(typed)
    BY <1>1, <1>2, EndsAre
  <2>2. UpTo(Len(typed)) = CL!Ends
    BY <2>1, Zenon DEF UpTo
  <2> QED
    BY <1>1, <1>2, <2>1, <2>2, SameCount DEF Done, UpTo
<1>3. ASSUME step = "run", CL!WellFormed, NEW e \in CL!Ends
      PROVE  LET part == run[CL!Cardinality({k \in CL!Ends : k <= e})]
                 words == SubSeq(CL!Typed(e), CL!SkipBlanks(CL!Typed(e), 1), Len(CL!Typed(e)))
                 rest == SubSeq(words, CL!FirstBlank(words, 1), Len(words))
             IN  part.fits =>
                   /\ part.program = SubSeq(words, 1, CL!FirstBlank(words, 1) - 1)
                   /\ part.arg = CL!Trimmed(SubSeq(rest, CL!SkipBlanks(rest, 1), Len(rest)))
  BY <1>2, <1>3, Zenon DEF Right
<1> QED
  BY <1>2, <1>3, Zenon DEF CL!RunsAsTyped

(* The programs that run are those on the line, each with the rest of its   *)
(* part for its argument, and what the last one writes is on the screen     *)
(* when the shell comes back: for lines of any length and any programs.     *)
THEOREM Shell == Lessons => []ShellTrue
<1>1. LineIInv => CL!RunsAsTyped
  BY LineRuns
<1>2. AtStart => LineIInv
  BY LineStart DEF AtStart
<1>3. LineIInv /\ [Step]_all => LineIInv'
  BY OneProgram, LineSteps
<1>4. Lessons => []CL!RunsAsTyped
  BY <1>1, <1>2, <1>3, PTL DEF Lessons
<1>5. CL!RunsAsTyped /\ PI!ScreenTrue => ShellTrue
  BY DEF ShellTrue
<1> QED
  BY <1>4, <1>5, ScreenShowsAll, PTL

-----------------------------------------------------------------------------
(* The errno of les14 *)

ErrnoPoints == {"none", "once", "init_key", "getspecific", "malloc", "fill", "printf", "ended"}

ErrnoTypes ==
    /\ once \in {"new", "running", "done"} /\ keys \in Nat /\ allocated \in Nat
    /\ thread \in [1..Threads -> ErrnoPoints]
    /\ specific \in [1..Threads -> Nat] /\ buff \in [1..Threads -> Nat]
    /\ called \in [1..Threads -> Nat]
    /\ \A t \in 1..Threads : /\ called[t] <= Calls
                             /\ thread[t] # "ended" => called[t] < Calls
    /\ DOMAIN text = 1..(Threads * Calls)

(* One thread makes the key, and none has passed it before it is made.      *)
OneKey ==
    /\ once # "done" => keys = 0 /\ \A t \in 1..Threads : /\ thread[t] \in {"none", "once", "init_key"}
                                                          /\ specific[t] = TE!NoBuffer
    /\ once = "done" => keys = 1 /\ \A t \in 1..Threads : thread[t] # "init_key"
    /\ once = "new" => \A t \in 1..Threads : thread[t] # "init_key"
    /\ \A t, u \in 1..Threads : thread[t] = "init_key" /\ thread[u] = "init_key" => t = u

(* Threads with a buffer.                                                   *)
Served == {t \in 1..Threads : specific[t] # TE!NoBuffer}

(* A buffer is of one thread, and holds what that thread's call left.       *)
OwnBuffers ==
    /\ Cardinality(Served) = allocated
    /\ \A t \in 1..Threads : specific[t] <= allocated
    /\ \A t, u \in 1..Threads : specific[t] = specific[u] /\ specific[t] # TE!NoBuffer => t = u
    /\ \A t \in 1..Threads :
         /\ thread[t] = "malloc" => specific[t] = TE!NoBuffer
         /\ thread[t] \in {"fill", "printf"} => buff[t] = specific[t] /\ buff[t] # TE!NoBuffer
         /\ thread[t] = "printf" => text[buff[t]] = called[t]

ErrnoIInv == ErrnoTypes /\ OneKey /\ OwnBuffers

LEMMA ServedIs == /\ \A t : t \in Served <=> t \in 1..Threads /\ specific[t] # TE!NoBuffer
                  /\ IsFiniteSet(Served) /\ Cardinality(Served) \in Nat
                  /\ Cardinality(Served) <= Threads
<1>1. \A t : t \in Served <=> t \in 1..Threads /\ specific[t] # TE!NoBuffer
  BY Zenon DEF Served
<1>2. Served \subseteq 1..Threads /\ Threads \in Nat
  BY <1>1, ProgramConstants
<1>3. IsFiniteSet(1..Threads) /\ Cardinality(1..Threads) = Threads
  BY <1>2, FS_Interval
<1> QED
  BY <1>1, <1>2, <1>3, FS_Subset, FS_CardinalityType

LEMMA ErrnoStarts == TE!Init => ErrnoIInv
<1> SUFFICES ASSUME TE!Init PROVE ErrnoIInv
  OBVIOUS
<1>1. ErrnoTypes
  BY ProgramConstants DEF TE!Init, ErrnoTypes, ErrnoPoints, TE!NoBuffer
<1>2. OneKey
  BY DEF TE!Init, OneKey
<1>3. OwnBuffers
  <2>1. \A t \in 1..Threads : specific[t] = TE!NoBuffer /\ thread[t] = "none"
    BY DEF TE!Init
  <2>2. Served = {}
    BY <2>1, ServedIs
  <2>3. Cardinality(Served) = 0 /\ allocated = 0
    BY <2>2, FS_EmptySet DEF TE!Init
  <2> QED
    BY <2>1, <2>3 DEF OwnBuffers, TE!NoBuffer
<1> QED
  BY <1>1, <1>2, <1>3 DEF ErrnoIInv

(* A thread alone moves, and no buffer is touched.                          *)
LEMMA MovesSteps ==
    ASSUME ErrnoIInv, NEW t \in 1..Threads, NEW from, NEW to \in ErrnoPoints, TE!Step(t, from, to),
           UNCHANGED <<keys, specific, allocated, text>>,
           buff' \in [1..Threads -> Nat], \A u \in 1..Threads : u # t => buff'[u] = buff[u],
           called' \in [1..Threads -> Nat], \A u \in 1..Threads : u # t => called'[u] = called[u],
           called'[t] <= Calls, to # "ended" => called'[t] < Calls,
           once' \in {"new", "running", "done"}, OneKey',
           to \in {"fill", "printf"} => buff'[t] = specific[t] /\ specific[t] # TE!NoBuffer,
           to = "malloc" => specific[t] = TE!NoBuffer, to # "printf"
    PROVE  ErrnoIInv'
<1>1. /\ thread' = [thread EXCEPT ![t] = to] /\ thread \in [1..Threads -> ErrnoPoints]
  BY DEF TE!Step, ErrnoIInv, ErrnoTypes
<1>2. /\ thread' \in [1..Threads -> ErrnoPoints] /\ thread'[t] = to
      /\ \A u \in 1..Threads : u # t => thread'[u] = thread[u]
  BY <1>1
<1>3. ErrnoTypes'
  <2>1. \A u \in 1..Threads : called'[u] <= Calls /\ (thread'[u] # "ended" => called'[u] < Calls)
    BY <1>2 DEF ErrnoIInv, ErrnoTypes
  <2> QED
    BY <1>2, <2>1 DEF ErrnoIInv, ErrnoTypes
<1>4. OwnBuffers'
  <2>1. Served' = Served
    BY DEF Served
  <2>2. \A u \in 1..Threads :
         /\ thread'[u] = "malloc" => specific'[u] = TE!NoBuffer
         /\ thread'[u] \in {"fill", "printf"} => buff'[u] = specific'[u] /\ buff'[u] # TE!NoBuffer
         /\ thread'[u] = "printf" => text'[buff'[u]] = called'[u]
    BY <1>2 DEF ErrnoIInv, OwnBuffers
  <2> QED
    BY <2>1, <2>2 DEF ErrnoIInv, OwnBuffers, TE!NoBuffer
<1> QED
  BY <1>3, <1>4 DEF ErrnoIInv

LEMMA RunErrnoSteps ==
    ASSUME ErrnoIInv, NEW t \in 1..Threads, TE!Run(t)
    PROVE  ErrnoIInv'
<1> USE DEF ErrnoIInv
<1>1. /\ Calls \in Nat /\ thread \in [1..Threads -> ErrnoPoints]
      /\ specific \in [1..Threads -> Nat] /\ buff \in [1..Threads -> Nat]
      /\ called \in [1..Threads -> Nat] /\ called[t] <= Calls /\ specific[t] \in Nat
      /\ thread[t] # "ended" => called[t] < Calls
  BY ProgramConstants DEF ErrnoTypes
<1>2. ASSUME NEW from, NEW to \in ErrnoPoints, TE!Step(t, from, to)
      PROVE  /\ thread[t] = from /\ thread' \in [1..Threads -> ErrnoPoints] /\ thread'[t] = to
             /\ \A u \in 1..Threads : u # t => thread'[u] = thread[u]
  BY <1>1, <1>2 DEF TE!Step
<1>3. thread[t] \notin {"none", "once", "init_key"} => once = "done"
  BY DEF OneKey, ErrnoTypes
<1>4. CASE TE!Once(t)
  <2>1. /\ once = "new" /\ once' = "running" /\ TE!Step(t, "once", "init_key")
        /\ UNCHANGED <<keys, specific, buff, called, allocated, text>>
    BY <1>4 DEF TE!Once
  <2>2. "init_key" \in ErrnoPoints
    BY DEF ErrnoPoints
  <2>3. thread[t] = "once" /\ thread'[t] = "init_key" /\ \A u \in 1..Threads : u # t => thread'[u] = thread[u]
    BY <1>2, <2>1, <2>2
  <2>4. OneKey'
    BY <2>1, <2>3 DEF OneKey
  <2> QED
    BY <1>1, <2>1, <2>2, <2>3, <2>4, MovesSteps
<1>5. CASE TE!InitKey(t)
  <2>1. /\ TE!Step(t, "init_key", "getspecific") /\ keys' = keys + 1 /\ once' = "done"
        /\ specific' = [u \in 1..Threads |-> TE!NoBuffer]
        /\ UNCHANGED <<buff, called, allocated, text>>
    BY <1>5 DEF TE!InitKey
  <2>2. /\ thread[t] = "init_key" /\ thread'[t] = "getspecific"
        /\ thread' \in [1..Threads -> ErrnoPoints]
        /\ \A u \in 1..Threads : u # t => thread'[u] = thread[u]
    <3>1. "getspecific" \in ErrnoPoints
      BY DEF ErrnoPoints
    <3> QED
      BY <1>2, <2>1, <3>1
  <2>3. once = "running"
    BY <2>2 DEF OneKey, ErrnoTypes
  <2>4. specific' = specific
    BY <1>1, <2>1, <2>3 DEF OneKey
  <2>5. OneKey'
    BY <2>1, <2>2, <2>3 DEF OneKey
  <2>6. keys' = 1 /\ \A u \in 1..Threads : /\ called'[u] <= Calls
                                           /\ thread'[u] # "ended" => called'[u] < Calls
    BY <2>1, <2>2, <2>3 DEF OneKey, ErrnoTypes
  <2>7. ErrnoTypes'
    BY <2>1, <2>2, <2>4, <2>6 DEF ErrnoTypes
  <2>8. OwnBuffers'
    <3>1. Served' = Served
      BY <2>4 DEF Served
    <3> QED
      BY <2>1, <2>2, <2>4, <3>1 DEF OwnBuffers, TE!NoBuffer
  <2> QED
    BY <2>5, <2>7, <2>8
<1>6. CASE TE!OnceDone(t)
  <2>1. /\ once = "done" /\ TE!Step(t, "once", "getspecific")
        /\ UNCHANGED <<once, keys, specific, buff, called, allocated, text>>
    BY <1>6 DEF TE!OnceDone
  <2>2. "getspecific" \in ErrnoPoints
    BY DEF ErrnoPoints
  <2>3. thread[t] = "once" /\ thread'[t] = "getspecific" /\ \A u \in 1..Threads : u # t => thread'[u] = thread[u]
    BY <1>2, <2>1, <2>2
  <2>4. OneKey'
    BY <2>1, <2>3 DEF OneKey
  <2> QED
    BY <1>1, <2>1, <2>2, <2>3, <2>4, MovesSteps
<1>7. CASE TE!GetSpecific(t)
  <2> DEFINE to == IF specific[t] = TE!NoBuffer THEN "malloc" ELSE "fill"
  <2>1. /\ TE!Step(t, "getspecific", to) /\ buff' = [buff EXCEPT ![t] = specific[t]]
        /\ UNCHANGED <<once, keys, specific, called, allocated, text>>
    BY <1>7 DEF TE!GetSpecific
  <2>2. /\ to \in ErrnoPoints /\ to \in {"malloc", "fill"}
        /\ to = "fill" => specific[t] # TE!NoBuffer
        /\ to = "malloc" => specific[t] = TE!NoBuffer
    BY DEF ErrnoPoints
  <2> HIDE DEF to
  <2>3. thread[t] = "getspecific" /\ thread'[t] = to /\ \A u \in 1..Threads : u # t => thread'[u] = thread[u]
    BY <1>2, <2>1, <2>2
  <2>4. OneKey'
    BY <1>3, <2>1, <2>2, <2>3 DEF OneKey
  <2>5. /\ buff' \in [1..Threads -> Nat] /\ buff'[t] = specific[t]
        /\ \A u \in 1..Threads : u # t => buff'[u] = buff[u]
    BY <1>1, <2>1
  <2> QED
    BY <1>1, <2>1, <2>2, <2>3, <2>4, <2>5, MovesSteps DEF ErrnoTypes
<1>8. CASE TE!Malloc(t)
  <2>1. /\ TE!Step(t, "malloc", "fill") /\ allocated' = allocated + 1
        /\ buff' = [buff EXCEPT ![t] = allocated'] /\ specific' = [specific EXCEPT ![t] = allocated']
        /\ UNCHANGED <<once, keys, called, text>>
    BY <1>8 DEF TE!Malloc
  <2>2. /\ thread[t] = "malloc" /\ thread'[t] = "fill" /\ thread' \in [1..Threads -> ErrnoPoints]
        /\ \A u \in 1..Threads : u # t => thread'[u] = thread[u]
    <3>1. "fill" \in ErrnoPoints
      BY DEF ErrnoPoints
    <3> QED
      BY <1>2, <2>1, <3>1
  <2>3. allocated \in Nat /\ allocated' \in Nat /\ allocated' > allocated /\ allocated' # TE!NoBuffer
    BY <2>1 DEF ErrnoTypes, TE!NoBuffer
  <2>4. /\ specific' \in [1..Threads -> Nat] /\ specific'[t] = allocated'
        /\ buff' \in [1..Threads -> Nat] /\ buff'[t] = allocated'
        /\ \A u \in 1..Threads : u # t => specific'[u] = specific[u] /\ buff'[u] = buff[u]
    BY <1>1, <2>1, <2>3
  <2>5. ErrnoTypes'
    <3>1. \A u \in 1..Threads : called'[u] <= Calls /\ (thread'[u] # "ended" => called'[u] < Calls)
      BY <2>1, <2>2 DEF ErrnoTypes
    <3> QED
      BY <2>1, <2>2, <2>3, <2>4, <3>1 DEF ErrnoTypes
  <2>6. OneKey'
    BY <1>3, <2>1, <2>2 DEF OneKey
  <2>7. Cardinality(Served') = allocated'
    <3>1. t \notin Served /\ IsFiniteSet(Served)
      BY <2>2, ServedIs DEF OwnBuffers
    <3>2. \A u : u \in Served' <=> u \in 1..Threads /\ specific'[u] # TE!NoBuffer
      BY Zenon DEF Served, TE!NoBuffer
    <3>3. Served' = Served \cup {t}
      BY <2>3, <2>4, <3>2, ServedIs
    <3>4. Cardinality(Served) = allocated
      BY DEF OwnBuffers
    <3> QED
      BY <2>1, <3>1, <3>3, <3>4, FS_AddElement
  <2>8. \A u \in 1..Threads : specific[u] \in Nat /\ specific[u] <= allocated
    BY <1>1 DEF OwnBuffers
  <2>9. \A u \in 1..Threads : specific'[u] <= allocated'
    BY <2>3, <2>4, <2>8
  <2>10. \A u, v \in 1..Threads : specific'[u] = specific'[v] /\ specific'[u] # TE!NoBuffer => u = v
    <3> SUFFICES ASSUME NEW u \in 1..Threads, NEW v \in 1..Threads, specific'[u] = specific'[v],
                        specific'[u] # TE!NoBuffer
                 PROVE  u = v
      OBVIOUS
    <3>1. CASE u = t
      <4>1. specific'[u] = allocated'
        BY <2>4, <3>1
      <4>2. specific[v] < allocated'
        BY <2>3, <2>8, <1>1 DEF ErrnoTypes
      <4>3. v # t => specific'[v] = specific[v]
        BY <2>4
      <4>4. specific[v] \in Nat
        BY <1>1
      <4>5. specific'[u] = specific'[v]
        OBVIOUS
      <4> QED
        BY <2>3, <3>1, <4>1, <4>2, <4>3, <4>4, <4>5
    <3>2. CASE v = t
      <4>1. specific'[v] = allocated'
        BY <2>4, <3>2
      <4>2. specific[u] < allocated'
        BY <2>3, <2>8, <1>1 DEF ErrnoTypes
      <4> QED
        BY <1>1, <2>3, <2>4, <3>2, <4>1, <4>2
    <3>3. CASE u # t /\ v # t
      BY <2>4, <3>3 DEF OwnBuffers
    <3> QED
      BY <3>1, <3>2, <3>3
  <2>11. \A u \in 1..Threads :
         /\ thread'[u] = "malloc" => specific'[u] = TE!NoBuffer
         /\ thread'[u] \in {"fill", "printf"} => buff'[u] = specific'[u] /\ buff'[u] # TE!NoBuffer
         /\ thread'[u] = "printf" => text'[buff'[u]] = called'[u]
    BY <2>1, <2>2, <2>3, <2>4 DEF OwnBuffers
  <2>12. OwnBuffers'
    BY <2>7, <2>9, <2>10, <2>11 DEF OwnBuffers, TE!NoBuffer
  <2> QED
    BY <2>5, <2>6, <2>12
<1>9. CASE TE!Fill(t)
  <2>1. /\ TE!Step(t, "fill", "printf") /\ text' = [text EXCEPT ![buff[t]] = called[t]]
        /\ UNCHANGED <<once, keys, specific, buff, called, allocated>>
    BY <1>9 DEF TE!Fill
  <2>2. /\ thread[t] = "fill" /\ thread'[t] = "printf" /\ thread' \in [1..Threads -> ErrnoPoints]
        /\ \A u \in 1..Threads : u # t => thread'[u] = thread[u]
    <3>1. "printf" \in ErrnoPoints
      BY DEF ErrnoPoints
    <3> QED
      BY <1>2, <2>1, <3>1
  <2>3. buff[t] = specific[t] /\ specific[t] # TE!NoBuffer /\ specific[t] <= allocated
    BY <2>2 DEF OwnBuffers
  <2>4. buff[t] \in DOMAIN text
    <3>1. allocated <= Threads /\ allocated \in Nat /\ Threads \in Nat
      BY ServedIs, ProgramConstants DEF OwnBuffers, ErrnoTypes
    <3>2. Threads <= Threads * Calls /\ Threads * Calls \in Nat
      <4>1. Calls - 1 \in Nat
        BY ProgramConstants
      <4>2. Threads * (Calls - 1) \in Nat /\ Threads * Calls = Threads * (Calls - 1) + Threads
        BY <1>1, <3>1, <4>1
      <4> QED
        BY <3>1, <4>2
    <3>3. buff[t] \in 1..(Threads * Calls)
      <4> DEFINE most == Threads * Calls
      <4>1. most \in Nat /\ Threads <= most
        BY <3>2
      <4> HIDE DEF most
      <4>2. buff[t] \in 1..most
        BY <1>1, <2>3, <3>1, <4>1 DEF TE!NoBuffer
      <4> QED
        BY <4>2 DEF most
    <3> QED
      BY <3>3 DEF ErrnoTypes
  <2>5. /\ DOMAIN text' = DOMAIN text /\ text'[buff[t]] = called[t]
        /\ \A b \in DOMAIN text : b # buff[t] => text'[b] = text[b]
    BY <2>1, <2>4
  <2>6. ErrnoTypes'
    <3>1. \A u \in 1..Threads : called'[u] <= Calls /\ (thread'[u] # "ended" => called'[u] < Calls)
      BY <2>1, <2>2 DEF ErrnoTypes
    <3> QED
      BY <2>1, <2>2, <2>5, <3>1 DEF ErrnoTypes
  <2>7. OneKey'
    BY <1>3, <2>1, <2>2 DEF OneKey
  <2>8. \A u \in 1..Threads : thread'[u] = "printf" => text'[buff'[u]] = called'[u]
    <3> SUFFICES ASSUME NEW u \in 1..Threads, thread'[u] = "printf" PROVE text'[buff[u]] = called[u]
      BY <2>1
    <3>1. CASE u = t
      BY <2>5, <3>1
    <3>2. CASE u # t
      <4>1. thread[u] = "printf" /\ buff[u] = specific[u] /\ text[buff[u]] = called[u]
        BY <2>2, <3>2 DEF OwnBuffers
      <4>2. buff[u] # buff[t]
        BY <2>3, <3>2, <4>1 DEF OwnBuffers
      <4>3. text'[buff[u]] = text[buff[u]]
        BY <2>1, <4>2
      <4> QED
        BY <4>1, <4>3
    <3> QED
      BY <3>1, <3>2
  <2>9. OwnBuffers'
    <3>1. Served' = Served
      BY <2>1 DEF Served
    <3>2. \A u \in 1..Threads :
           /\ thread'[u] = "malloc" => specific'[u] = TE!NoBuffer
           /\ thread'[u] \in {"fill", "printf"} => buff'[u] = specific'[u] /\ buff'[u] # TE!NoBuffer
      BY <2>1, <2>2, <2>3 DEF OwnBuffers
    <3> QED
      BY <2>1, <2>8, <3>1, <3>2 DEF OwnBuffers, TE!NoBuffer
  <2> QED
    BY <2>6, <2>7, <2>9
<1>10. CASE TE!Printf(t)
  <2> DEFINE to == IF called[t] = Calls - 1 THEN "ended" ELSE "once"
  <2>1. /\ TE!Step(t, "printf", to) /\ called' = [called EXCEPT ![t] = @ + 1]
        /\ UNCHANGED <<once, keys, specific, buff, allocated, text>>
    BY <1>10 DEF TE!Printf
  <2>2. to \in ErrnoPoints /\ to \in {"ended", "once"} /\ (to = "ended" <=> called[t] = Calls - 1)
    BY DEF ErrnoPoints
  <2> HIDE DEF to
  <2>3. thread[t] = "printf" /\ thread'[t] = to /\ \A u \in 1..Threads : u # t => thread'[u] = thread[u]
    BY <1>2, <2>1, <2>2
  <2>4. OneKey'
    BY <1>3, <2>1, <2>2, <2>3 DEF OneKey
  <2>5. /\ called' \in [1..Threads -> Nat] /\ called'[t] = called[t] + 1
        /\ \A u \in 1..Threads : u # t => called'[u] = called[u]
    BY <1>1, <2>1
  <2>6. called'[t] <= Calls /\ (to # "ended" => called'[t] < Calls)
    <3>1. called[t] < Calls /\ called[t] \in Nat
      BY <1>1, <2>3
    <3> QED
      BY <1>1, <2>2, <2>5, <3>1
  <2> QED
    BY <1>1, <2>1, <2>2, <2>3, <2>4, <2>5, <2>6, MovesSteps DEF ErrnoTypes
<1> QED
  BY <1>4, <1>5, <1>6, <1>7, <1>8, <1>9, <1>10 DEF TE!Run

LEMMA MainErrnoSteps ==
    ASSUME ErrnoIInv, TE!Create \/ TE!Join
    PROVE  ErrnoIInv'
<1> USE DEF ErrnoIInv
<1>1. UNCHANGED <<once, keys, specific, buff, called, allocated, text>>
  BY DEF TE!Create, TE!Join, TE!MainStep
<1>2. thread \in [1..Threads -> ErrnoPoints]
  BY DEF ErrnoTypes
<1>3. CASE thread' = thread
  BY <1>1, <1>3 DEF ErrnoTypes, OneKey, OwnBuffers, Served, TE!NoBuffer
<1>4. CASE thread' # thread
  <2>1. PICK t : TE!Step(t, "none", "once")
    BY <1>4 DEF TE!Create, TE!Join
  <2>2. t \in 1..Threads
    BY <1>2, <1>4, <2>1 DEF TE!Step
  <2>3. /\ thread[t] = "none" /\ thread'[t] = "once"
        /\ \A u \in 1..Threads : u # t => thread'[u] = thread[u]
    BY <1>2, <2>1, <2>2 DEF TE!Step
  <2>4. OneKey'
    BY <1>1, <2>3 DEF OneKey
  <2>5. "once" \in ErrnoPoints
    BY DEF ErrnoPoints
  <2>6. called[t] <= Calls /\ called[t] < Calls
    BY <2>2, <2>3 DEF ErrnoTypes
  <2> QED
    BY <1>1, <2>1, <2>2, <2>3, <2>4, <2>5, <2>6, MovesSteps DEF ErrnoTypes
<1> QED
  BY <1>3, <1>4

LEMMA ErrnoSteps == ErrnoIInv /\ [TE!Next]_teVars => ErrnoIInv'
<1>1. ErrnoIInv /\ UNCHANGED teVars => ErrnoIInv'
  BY DEF teVars, ErrnoIInv, ErrnoTypes, OneKey, OwnBuffers, Served, TE!NoBuffer
<1> QED
  BY <1>1, RunErrnoSteps, MainErrnoSteps DEF TE!Next

(* What a thread prints is the answer to its own call, and threads that     *)
(* race for the first call make one key and one buffer each: for any number *)
(* of threads and calls.                                                    *)
THEOREM OwnErrno == Lessons => [](TE!PrintsOwn /\ TE!OneBufferEach)
<1>1. ErrnoIInv => TE!PrintsOwn /\ TE!OneBufferEach
  <2> SUFFICES ASSUME ErrnoIInv PROVE TE!PrintsOwn /\ TE!OneBufferEach
    OBVIOUS
  <2>1. TE!PrintsOwn
    BY DEF ErrnoIInv, OwnBuffers, TE!PrintsOwn
  <2>2. keys <= 1
    BY DEF ErrnoIInv, OneKey, ErrnoTypes
  <2>3. allocated <= Threads
    BY ServedIs DEF ErrnoIInv, OwnBuffers
  <2> QED
    BY <2>1, <2>2, <2>3 DEF TE!OneBufferEach
<1>2. AtStart => ErrnoIInv
  BY ErrnoStarts DEF AtStart
<1>3. ErrnoIInv /\ [Step]_all => ErrnoIInv'
  BY OneProgram, ErrnoSteps
<1> QED
  BY <1>1, <1>2, <1>3, PTL DEF Lessons

-----------------------------------------------------------------------------
(* Types and bounds *)

(* No counter of the editor leaves the window by more than Beyond.          *)
Counters == tickX \in 0..(Rows + Beyond) /\ tickY \in 0..(Cols + Beyond)

LEMMA CountersStay == EditorIInv /\ Counters /\ [ED!Next]_edVars => Counters'
<1> SUFFICES ASSUME EditorIInv, Counters, [ED!Next]_edVars PROVE Counters'
  OBVIOUS
<1> USE ProgramConstants DEF Counters
<1>1. CASE UNCHANGED <<tickX, tickY>>
  BY <1>1
<1>2. CASE ED!KeyDown \/ ED!KeyUp \/ ED!KeyLeft \/ ED!KeyRight
  BY <1>2 DEF ED!KeyDown, ED!KeyUp, ED!KeyLeft, ED!KeyRight, ED!Ticks, ED!Least
<1>3. CASE ED!Backspace \/ ED!Newline \/ ED!Default
  BY <1>3 DEF ED!Backspace, ED!Newline, ED!Default
<1>4. CASE ED!Main \/ ED!Open \/ ED!Exit \/ ED!Save \/ ED!SaveRow \/ ED!Saved
  BY <1>1, <1>4 DEF ED!Main, ED!Open, ED!Exit, ED!Save, ED!SaveRow, ED!Saved
<1> QED
  BY <1>1, <1>2, <1>3, <1>4 DEF ED!Next, edVars

LEMMA EditorTyped == EditorIInv /\ Counters => ED!TypeOK
<1> SUFFICES ASSUME EditorIInv, Counters PROVE ED!TypeOK
  OBVIOUS
<1>1. ASSUME NEW n \in Nat PROVE RowsUpTo(n) \in Seq(0..(Rows - 1))
  <2>1. \A k \in 1..n : ED!Least(k, Rows) - 1 \in 0..(Rows - 1)
    BY ProgramConstants DEF ED!Least
  <2> QED
    BY <2>1 DEF RowsUpTo
<1>2. row \in Nat /\ Rows + ED!HintLines \in Nat
  BY ProgramConstants DEF EditorIInv, EditorTypes, ED!HintLines
<1>3. saved \in Seq(0..(Rows - 1))
  <2>1. saved = RowsUpTo(row) \/ saved = <<>> \/ saved = RowsUpTo(Rows + ED!HintLines)
    BY DEF EditorIInv, SavingProgress
  <2>2. RowsUpTo(row) \in Seq(0..(Rows - 1)) /\ RowsUpTo(Rows + ED!HintLines) \in Seq(0..(Rows - 1))
    BY <1>1, <1>2
  <2>3. <<>> \in Seq(0..(Rows - 1))
    OBVIOUS
  <2> QED
    BY Zenon, <2>1, <2>2, <2>3
<1> QED
  BY <1>3 DEF ED!TypeOK, EditorIInv, EditorTypes, Counters

(* A caller holds a chunk in use for each of its blocks: good_free frees    *)
(* one chunk at most.                                                       *)
Used == {n \in 1..Len(chunk) : ~chunk[n].isFree}
BlocksBacked == Len(live) <= Cardinality(Used)

LEMMA UsedIs ==
    ASSUME HeapTypes
    PROVE  /\ \A n : n \in Used <=> n \in 1..Len(chunk) /\ ~chunk[n].isFree
           /\ IsFiniteSet(Used) /\ Cardinality(Used) \in Nat /\ Cardinality(Used) <= Len(chunk)
           /\ Len(chunk) \in Nat /\ Len(live) \in Nat
<1>1. \A n : n \in Used <=> n \in 1..Len(chunk) /\ ~chunk[n].isFree
  BY Zenon DEF Used
<1>2. Used \subseteq 1..Len(chunk) /\ Len(chunk) \in Nat /\ Len(live) \in Nat
  BY <1>1 DEF HeapTypes
<1>3. IsFiniteSet(1..Len(chunk)) /\ Cardinality(1..Len(chunk)) = Len(chunk)
  <2> DEFINE n == Len(chunk)
  <2>1. n \in Nat
    BY <1>2
  <2> HIDE DEF n
  <2>2. IsFiniteSet(1..n) /\ Cardinality(1..n) = n
    BY <2>1, FS_Interval
  <2> QED
    BY <2>2 DEF n
<1> QED
  BY <1>1, <1>2, <1>3, FS_Subset, FS_CardinalityType

LEMMA BackedStays == HeapIInv /\ BlocksBacked /\ [AL!Next]_alVars => BlocksBacked'
<1> SUFFICES ASSUME HeapIInv, BlocksBacked, [AL!Next]_alVars PROVE BlocksBacked'
  OBVIOUS
<1>1. HeapTypes /\ HeapTypes'
  BY HeapSteps DEF HeapIInv
<1>2. chunk \in Seq(Chunk) /\ live \in Seq(Held) /\ Len(chunk) \in Nat /\ Len(live) \in Nat
  BY <1>1 DEF HeapTypes
<1>3. /\ \A n : n \in Used <=> n \in 1..Len(chunk) /\ ~chunk[n].isFree
      /\ IsFiniteSet(Used) /\ Cardinality(Used) \in Nat
  BY <1>1, UsedIs
<1>4. /\ \A n : n \in Used' <=> n \in 1..Len(chunk') /\ ~chunk'[n].isFree
      /\ IsFiniteSet(Used') /\ Cardinality(Used') \in Nat
  <2>1. \A n : n \in Used' <=> n \in 1..Len(chunk') /\ ~chunk'[n].isFree
    BY Zenon DEF Used
  <2>2. Used' \subseteq 1..Len(chunk') /\ Len(chunk') \in Nat
    BY <1>1, <2>1 DEF HeapTypes
  <2> QED
    BY <2>1, <2>2, Finite
<1>5. ASSUME NEW n, n \notin Used, Used' = Used \cup {n}, Len(live') = Len(live) + 1
      PROVE  BlocksBacked'
  <2>1. Cardinality(Used') = Cardinality(Used) + 1
    BY <1>3, <1>5, FS_AddElement
  <2> QED
    BY <1>2, <1>3, <1>5, <2>1 DEF BlocksBacked
<1>6. CASE UNCHANGED alVars
  BY <1>6 DEF alVars, BlocksBacked, Used
<1>7. ASSUME NEW size \in Sizes, AL!GoodMalloc(size) PROVE BlocksBacked'
  <2>1. CASE AL!Fitting(size) # {}
    <3> DEFINE n == CHOOSE n \in AL!Fitting(size) : \A m \in AL!Fitting(size) : n <= m
    <3>1. /\ chunk' = [chunk EXCEPT ![n].isFree = FALSE, ![n].size = size]
          /\ live' = Append(live, AL!Block(chunk[n].ptr, size))
      BY <1>7, <2>1 DEF AL!GoodMalloc
    <3>2. n \in AL!Fitting(size)
      <4>1. AL!Fitting(size) \subseteq Nat
        BY <1>2 DEF AL!Fitting
      <4> QED
        BY <2>1, <4>1, LowestOf
    <3> HIDE DEF n
    <3>3. n \in 1..Len(chunk) /\ chunk[n].isFree
      BY <1>2, <3>2 DEF AL!Fitting
    <3>4. /\ Len(chunk') = Len(chunk) /\ ~chunk'[n].isFree
          /\ \A m \in 1..Len(chunk) : m # n => chunk'[m] = chunk[m]
      BY <1>2, <3>1, <3>3 DEF Chunk
    <3>5. n \notin Used /\ Used' = Used \cup {n}
      BY <1>3, <1>4, <3>3, <3>4
    <3>6. Len(live') = Len(live) + 1
      BY <1>2, <3>1
    <3> QED
      BY <1>5, <3>5, <3>6
  <2>2. CASE AL!Fitting(size) = {}
    <3>1. /\ chunk' = Append(chunk, [ptr |-> brk, size |-> size, isFree |-> FALSE])
          /\ live' = Append(live, AL!Block(brk, size))
      BY <1>7, <2>2 DEF AL!GoodMalloc
    <3> DEFINE n == Len(chunk) + 1
    <3>2. /\ Len(chunk') = Len(chunk) + 1 /\ ~chunk'[n].isFree
          /\ \A m \in 1..Len(chunk) : chunk'[m] = chunk[m]
      BY <1>2, <3>1
    <3>5. /\ \A m : m \in 1..(Len(chunk) + 1) <=> m \in 1..Len(chunk) \/ m = n
          /\ n \notin 1..Len(chunk)
      BY <1>2
    <3>6. \A m : m \in Used' <=> m \in Used \/ m = n
      <4> HIDE DEF n
      <4>1. ASSUME NEW m \in 1..Len(chunk) PROVE m \in Used' <=> m \in Used
        BY <1>3, <1>4, <3>2, <3>5, <4>1
      <4>2. n \in Used'
        BY <1>4, <3>2, <3>5
      <4>3. \A m : m \in Used => m \in 1..Len(chunk)
        BY <1>3
      <4>4. \A m : m \in Used' => m \in 1..Len(chunk) \/ m = n
        BY <1>4, <3>2, <3>5
      <4> QED
        BY <4>1, <4>2, <4>3, <4>4
    <3>3. n \notin Used /\ Used' = Used \cup {n}
      BY <1>3, <3>5, <3>6, Zenon
    <3>4. Len(live') = Len(live) + 1
      BY <1>2, <3>1
    <3> QED
      BY <1>5, <3>3, <3>4
  <2> QED
    BY <2>1, <2>2
<1>8. ASSUME NEW k \in DOMAIN live, AL!GoodFree(k) PROVE BlocksBacked'
  <2>1. /\ chunk' = [chunk EXCEPT ![Len(chunk)].isFree = TRUE]
        /\ live' = [n \in 1..(Len(live) - 1) |-> IF n < k THEN live[n] ELSE live[n + 1]]
    BY <1>8 DEF AL!GoodFree, AL!Without
  <2>2. k \in 1..Len(live) /\ Len(live) - 1 \in Nat /\ live' \in Seq(Held)
    BY <1>1, <1>2 DEF HeapTypes
  <2>3. Len(live') = Len(live) - 1
    <3>1. DOMAIN live' = 1..(Len(live) - 1)
      BY <2>1
    <3> QED
      BY <2>2, <3>1
  <2>4. \A m \in 1..Len(chunk) : m # Len(chunk) => chunk'[m] = chunk[m]
    BY <1>2, <2>1
  <2>5. Len(chunk') = Len(chunk)
    BY <1>2, <2>1
  <2>6. Used \subseteq Used' \cup {Len(chunk)}
    BY <1>3, <1>4, <2>4, <2>5
  <2>7. Cardinality(Used) <= Cardinality(Used') + 1
    <3>1. /\ IsFiniteSet(Used' \cup {Len(chunk)})
          /\ Cardinality(Used' \cup {Len(chunk)}) <= Cardinality(Used') + 1
      <4> DEFINE last == Len(chunk)
      <4> HIDE DEF last
      <4>1. /\ IsFiniteSet(Used' \cup {last})
            /\ Cardinality(Used' \cup {last}) \in {Cardinality(Used'), Cardinality(Used') + 1}
        BY <1>4, FS_AddElement
      <4>2. Cardinality(Used' \cup {last}) <= Cardinality(Used') + 1
        BY <1>4, <4>1
      <4> QED
        BY <4>1, <4>2 DEF last
    <3>2. Cardinality(Used) <= Cardinality(Used' \cup {Len(chunk)})
      BY <2>6, <3>1, FS_Subset
    <3>3. Cardinality(Used' \cup {Len(chunk)}) \in Nat
      BY <3>1, FS_CardinalityType
    <3> QED
      BY <1>3, <1>4, <3>1, <3>2, <3>3
  <2> QED
    BY <1>2, <1>3, <1>4, <2>3, <2>7 DEF BlocksBacked
<1> QED
  BY <1>6, <1>7, <1>8 DEF AL!Next

LEMMA HeapTyped == HeapIInv /\ BlocksBacked => AL!TypeOK
<1> SUFFICES ASSUME HeapIInv, BlocksBacked PROVE AL!TypeOK
  OBVIOUS
<1>1. Len(live) <= Len(chunk)
  BY UsedIs DEF HeapIInv, BlocksBacked
<1>2. \A n \in DOMAIN chunk : chunk[n].size \in Sizes /\ chunk[n].isFree \in BOOLEAN
  <2>1. chunk \in Seq(Chunk)
    BY DEF HeapIInv, HeapTypes
  <2>2. \A n \in DOMAIN chunk : chunk[n] \in Chunk
    BY <2>1
  <2> QED
    BY <2>2 DEF Chunk
<1> QED
  BY <1>1, <1>2 DEF AL!TypeOK, HeapIInv, HeapTypes

(* No pipe holds more than it can.                                          *)
PipesFit == \A p \in PI!Programs : pipe[p] <= Capacity

LEMMA PipesFitStays == PipeIInv /\ PipesFit /\ [PI!Next]_piVars => PipesFit'
<1> SUFFICES ASSUME PipeIInv, PipesFit, [PI!Next]_piVars PROVE PipesFit'
  OBVIOUS
<1>1. pipe \in [PI!Programs -> Nat] /\ Capacity \in Nat
  BY ProgramConstants DEF PipeIInv, PipeTypes
<1>2. PI!Programs' = PI!Programs
  BY DEF PI!Programs
<1>3. CASE UNCHANGED pipe
  BY <1>2, <1>3 DEF PipesFit
<1>4. ASSUME NEW q, pipe' = [pipe EXCEPT ![q] = @ - 1] PROVE PipesFit'
  <2>2. \A p \in PI!Programs : pipe'[p] <= Capacity
    <3> SUFFICES ASSUME NEW p \in PI!Programs PROVE pipe'[p] <= Capacity
      OBVIOUS
    <3>1. pipe'[p] = IF p = q THEN pipe[p] - 1 ELSE pipe[p]
      BY <1>1, <1>4
    <3>2. pipe[p] <= Capacity /\ pipe[p] \in Nat
      BY <1>1 DEF PipesFit
    <3> QED
      BY <1>1, <3>1, <3>2
  <2> QED
    BY <1>2, <2>2 DEF PipesFit
<1>5. ASSUME NEW q \in PI!Programs, PI!Write(q) PROVE PipesFit'
  <2>1. pipe' = [pipe EXCEPT ![q] = @ + 1] /\ pipe[q] < Capacity
    BY <1>5 DEF PI!Write
  <2> SUFFICES ASSUME NEW p \in PI!Programs PROVE pipe'[p] <= Capacity
    BY <1>2 DEF PipesFit
  <2>2. pipe'[p] = IF p = q THEN pipe[p] + 1 ELSE pipe[p]
    BY <1>1, <2>1
  <2>3. pipe[p] <= Capacity /\ pipe[p] \in Nat
    BY <1>1 DEF PipesFit
  <2> QED
    BY <1>1, <2>1, <2>2, <2>3
<1>6. ASSUME NEW q \in PI!Programs, PI!Run(q) PROVE PipesFit'
  <2>1. CASE PI!Read(q)
    <3>1. pipe' = [pipe EXCEPT ![stdin[q]] = @ - 1] \/ pipe' = pipe
      BY <2>1 DEF PI!Read
    <3> QED
      BY <1>3, <1>4, <3>1
  <2>2. CASE PI!ReadEnd(q) \/ PI!Done(q)
    BY <1>3, <2>2 DEF PI!ReadEnd, PI!Done
  <2> QED
    BY <1>5, <1>6, <2>1, <2>2 DEF PI!Run
<1>7. CASE PI!Copy
  <2>1. pipe' = [pipe EXCEPT ![PI!Last] = @ - 1] \/ pipe' = pipe
    BY <1>7 DEF PI!Copy
  <2> QED
    BY <1>3, <1>4, <2>1
<1>8. CASE PI!Getline \/ PI!Fork \/ PI!Close \/ UNCHANGED piVars
  BY <1>3, <1>8 DEF PI!Getline, PI!Fork, PI!Close, PI!CloseAnd, piVars
<1> QED
  BY <1>6, <1>7, <1>8 DEF PI!Next

LEMMA PipesTyped == PipeIInv /\ PipesFit => PI!TypeOK
<1> SUFFICES ASSUME PipeIInv, PipesFit PROVE PI!TypeOK
  OBVIOUS
<1>1. forked \in 0..MaxPrograms
  BY ProgramConstants DEF PipeIInv, PipeTypes
<1>2. \A p \in PI!Programs : pipe[p] \in 0..Capacity /\ hand[p] \in {0, 1}
  BY ProgramConstants DEF PipeIInv, PipeTypes, PipesFit
<1>3. \A p \in PI!Programs : program[p] \in {"none", "echo", "head", "cat", "missing", "exited"}
  BY DEF PipeIInv, PipeTypes
<1>4. \A p \in PI!Programs \cup {PI!Shell} : ends[p] \subseteq PI!Programs
  BY DEF PipeIInv, PipeTypes
<1>5. shell \in {"prompt", "fork", "close", "copy"} /\ number \in 0..Lines
  BY DEF PipeIInv, PipeTypes
<1> QED
  BY <1>1, <1>2, <1>3, <1>4, <1>5 DEF PI!TypeOK

LEMMA LineTyped == LineIInv => CL!TypeOK
<1> SUFFICES ASSUME LineTypes PROVE CL!TypeOK
  BY DEF LineIInv
<1>1. /\ step \in {"getline", "cut", "run", "quit"} /\ inputs \in 0..MaxInputs
      /\ longest \in 0..MaxChars /\ command \in [1..CL!Size -> CL!Characters \cup {"nul"}]
  BY DEF LineTypes
<1>2. Len(typed) \in Nat /\ Len(typed) <= MaxChars + 1 /\ start \in 1..(Len(typed) + 1)
      /\ scan \in {start, start + 1}
  BY DEF LineTypes
<1>3. start \in 1..(MaxChars + 2) /\ scan \in 1..(MaxChars + 3)
  BY <1>2, ProgramConstants
<1> QED
  BY <1>1, <1>3 DEF CL!TypeOK

(* A file of les29 is there or not, and a reader has a number of cats.      *)
CatTypes == driver \in {"none", "chrdev", "proc", "sysfs"} /\ cats \in [Readers -> 0..MaxCats]

LEMMA CatTypesStay == CatTypes /\ [DR!Next]_drVars => CatTypes'
<1> SUFFICES ASSUME CatTypes, [DR!Next]_drVars PROVE CatTypes'
  OBVIOUS
<1>1. CASE DR!Load
  BY <1>1 DEF DR!Load, CatTypes
<1>2. ASSUME NEW r \in Readers, DR!OpenCat(r) PROVE CatTypes'
  BY <1>2, ProgramConstants DEF DR!OpenCat, DR!UNCHANGED_Printers, CatTypes
<1>3. ASSUME NEW r \in Readers, DR!TestFlag(r) \/ DR!SetFlag(r) \/ DR!Interrupt(r)
      PROVE  CatTypes'
  BY <1>3 DEF DR!TestFlag, DR!SetFlag, DR!SetFlagTo, DR!Interrupt, DR!UNCHANGED_Printers, CatTypes
<1>4. ASSUME NEW p \in Printers, DR!StartCopy(p) \/ DR!CopyCharacter(p) PROVE CatTypes'
  BY <1>4 DEF DR!StartCopy, DR!CopyCharacter, DR!UNCHANGED_Readers, CatTypes
<1>5. CASE UNCHANGED drVars
  BY <1>5 DEF drVars, CatTypes
<1> QED
  BY <1>1, <1>2, <1>3, <1>4, <1>5 DEF DR!Next

(* A user of the ping file has read no more bytes than it has gone through. *)
ReadBehind == \A u \in Users : Len(read[u]) <= byte[u]

LEMMA ReadBehindStays == AddressIInv /\ ReadBehind /\ [KP!Next]_kpVars => ReadBehind'
<1> SUFFICES ASSUME AddressIInv, ReadBehind, [KP!Next]_kpVars PROVE ReadBehind'
  OBVIOUS
<1>1. /\ read \in [Users -> Seq(Values)] /\ byte \in [Users -> 0..Bytes] /\ Bytes \in Nat
      /\ ip \in [1..Bytes -> Values]
  BY ProgramConstants DEF AddressIInv, AddressTypes
<1>2. \A v \in Users : Len(read[v]) \in Nat /\ byte[v] \in Nat
  BY <1>1
<1>3. ASSUME NEW u \in Users, Len(read'[u]) <= byte'[u],
             \A v \in Users : v # u => read'[v] = read[v] /\ byte'[v] = byte[v]
      PROVE  ReadBehind'
  BY <1>3 DEF ReadBehind
<1>4. ASSUME NEW u \in Users, NEW what, NEW a, KP!Begin(u, what, a) PROVE ReadBehind'
  <2>1. read' = [read EXCEPT ![u] = <<>>] /\ byte' = [byte EXCEPT ![u] = 0]
    BY <1>4 DEF KP!Begin
  <2>2. read'[u] = <<>> /\ byte'[u] = 0
    BY <1>1, <2>1
  <2>3. \A v \in Users : v # u => read'[v] = read[v] /\ byte'[v] = byte[v]
    BY <1>1, <2>1
  <2> QED
    BY <1>3, <2>2, <2>3
<1>5. ASSUME NEW u \in Users, KP!StoreByte(u) PROVE ReadBehind'
  <2>1. byte' = [byte EXCEPT ![u] = @ + 1] /\ read' = read
    BY <1>5 DEF KP!StoreByte
  <2>2. byte'[u] = byte[u] + 1 /\ \A v \in Users : v # u => byte'[v] = byte[v]
    BY <1>1, <2>1
  <2>3. Len(read[u]) <= byte[u]
    BY DEF ReadBehind
  <2> QED
    BY <1>2, <1>3, <2>1, <2>2, <2>3
<1>6. ASSUME NEW u \in Users, KP!ReadByte(u) PROVE ReadBehind'
  <2>1. /\ read' = [read EXCEPT ![u] = Append(@, ip[byte[u] + 1])]
        /\ byte' = [byte EXCEPT ![u] = @ + 1]
    BY <1>6 DEF KP!ReadByte
  <2>2. byte'[u] = byte[u] + 1 /\ \A v \in Users : v # u => byte'[v] = byte[v] /\ read'[v] = read[v]
    BY <1>1, <2>1
  <2>3. read'[u] = Append(read[u], ip[byte[u] + 1]) /\ read[u] \in Seq(Values)
    BY <1>1, <2>1
  <2>4. Len(read'[u]) = Len(read[u]) + 1
    BY <2>3
  <2>5. Len(read[u]) <= byte[u]
    BY DEF ReadBehind
  <2> QED
    BY <1>2, <1>3, <2>2, <2>4, <2>5
<1>7. ASSUME NEW u \in Users, KP!Finish(u) PROVE ReadBehind'
  BY <1>7 DEF KP!Finish, ReadBehind
<1>8. CASE UNCHANGED kpVars
  BY <1>8 DEF kpVars, ReadBehind
<1> QED
  BY <1>4, <1>5, <1>6, <1>7, <1>8 DEF KP!Next, KP!AddrOper, KP!AddrGet

LEMMA KernelTyped == AddressIInv /\ ReadBehind => KP!TypeOK
BY DEF AddressIInv, AddressTypes, ReadBehind, KP!TypeOK, Values

LEMMA ErrnoTyped == ErrnoIInv => TE!TypeOK
BY ProgramConstants DEF ErrnoIInv, ErrnoTypes, ErrnoPoints, TE!TypeOK

LEMMA DriversTyped == DriversIInv /\ CatTypes => DR!TypeOK
BY DEF DriversIInv, DriversTypes, CatTypes, DR!TypeOK

-----------------------------------------------------------------------------
(* What the programs keep together, with their bounds.                      *)
Bounded == Counters /\ BlocksBacked /\ PipesFit /\ CatTypes /\ ReadBehind

ProgramsIInv ==
    /\ PanelIInv /\ EditorIInv /\ DriversIInv /\ ModuleIInv /\ AddressIInv /\ HeapIInv
    /\ PipeIInv /\ LineIInv /\ ErrnoIInv
    /\ Bounded

(* Every program keeps its types and bounds: no counter of the editor or    *)
(* pipe passes its end, and no caller of the allocator holds a block that   *)
(* has no chunk.                                                            *)
THEOREM Types == Lessons => []TypesOK
<1>1. ProgramsIInv => TypesOK
  BY EditorTyped, HeapTyped, PipesTyped, LineTyped, DriversTyped, KernelTyped, ErrnoTyped
     DEF ProgramsIInv, Bounded, TypesOK, PanelIInv, PanelTypes, ModuleIInv
<1>2. AtStart => ProgramsIInv
  <2> SUFFICES ASSUME AtStart PROVE ProgramsIInv
    OBVIOUS
  <2>1. Counters
    BY ProgramConstants DEF AtStart, ED!Init, Counters
  <2>2. BlocksBacked
    <3>1. live = <<>> /\ HeapTypes
      BY HeapStarts DEF AtStart, AL!Init, HeapIInv
    <3>2. Cardinality(Used) \in Nat /\ Len(live) = 0
      BY <3>1, UsedIs
    <3> QED
      BY <3>2 DEF BlocksBacked
  <2>3. PipesFit
    BY ProgramConstants DEF AtStart, PI!Init, PipesFit
  <2>4. CatTypes
    BY ProgramConstants DEF AtStart, DR!Init, CatTypes
  <2>5. ReadBehind
    BY DEF AtStart, KP!Init, ReadBehind
  <2> QED
    BY <2>1, <2>2, <2>3, <2>4, <2>5, PanelsStart, EditorStarts, DriversStart, ModuleStarts,
       AddressStarts, HeapStarts, PipesStart, LineStart, ErrnoStarts
       DEF AtStart, ProgramsIInv, Bounded
<1>3. ProgramsIInv /\ [Step]_all => ProgramsIInv'
  <2> SUFFICES ASSUME ProgramsIInv, [Step]_all PROVE ProgramsIInv'
    OBVIOUS
  <2>1. PanelIInv' /\ EditorIInv' /\ DriversIInv' /\ ModuleIInv' /\ AddressIInv'
    BY OneProgram, PanelIInvSteps, EditorSteps, DriversStep, ModuleSteps, AddressSteps
       DEF ProgramsIInv
  <2>2. HeapIInv' /\ PipeIInv' /\ LineIInv' /\ ErrnoIInv'
    BY OneProgram, HeapSteps, PipeSteps, LineSteps, ErrnoSteps DEF ProgramsIInv
  <2>3. Bounded'
    BY OneProgram, CountersStay, BackedStays, PipesFitStays, CatTypesStay, ReadBehindStays
       DEF ProgramsIInv, Bounded
  <2> QED
    BY <2>1, <2>2, <2>3 DEF ProgramsIInv
<1> QED
  BY <1>1, <1>2, <1>3, PTL DEF Lessons

================================================================================
