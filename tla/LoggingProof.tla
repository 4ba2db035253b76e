---------------------------- MODULE LoggingProof ----------------------------
(***************************************************************************)
(* The log files and, in the last part, the front end of the logger.       *)
(*                                                                         *)
(* Files: the file that is open is the one with the base name, no file     *)
(* outgrows max_size by more than one line, no file is replaced before all *)
(* indices are used, and the purging thread deletes the oldest files and   *)
(* only the surplus: for any sizes of messages and files, limits, indices  *)
(* and base names, with restarts at any point and a purging thread that    *)
(* reads the directory entry by entry, while files are renamed and created,*)
(* and deletes by name what it listed.  The invariant has four layers, each*)
(* inductive given the ones before it: IInv (the open file, the times and  *)
(* the entries), Ordered (younger files have larger numbers), Purging (how *)
(* much is listed and doomed), Indexed (the indices in use).               *)
(*                                                                         *)
(* Front end: no line is lost or written twice, for any threads, any size  *)
(* of the queue, and any number of lines and set-ups.                      *)
(***************************************************************************)
EXTENDS LogRotation, Logger, FiniteSetTheorems, SequenceTheorems, WellFoundedInduction,
        NaturalsInduction, TLAPS

Typed ==
    /\ created \in 0 .. NumFiles
    /\ disk \in [Names -> 0 .. created]
    /\ size \in [1 .. NumFiles -> Nat]
    /\ clock \in Nat /\ mtime \in [1 .. NumFiles -> 0 .. clock]
    /\ m_strBaseName \in BaseNames
    /\ m_frLog \in 0 .. created
    /\ m_iCurrentSize \in Nat /\ m_iCurrentIndex \in Indices
    /\ writer \in {Idle} \cup [at : {"check", "open", "notify", "append"}, msg : MsgSizes]
    /\ nameChanges \in Nat

(* m_iCurrentSize is the size of the open file, and right after a rotation *)
(* the open file is empty.                                                 *)
Counted ==
    /\ m_frLog # 0 => m_iCurrentSize = size[m_frLog]
    /\ writer.at = "open" => m_frLog = 0 /\ disk[Base] = 0
    /\ writer.at \in {"notify", "append"} => m_frLog # 0 /\ m_iCurrentSize = 0
    /\ \A f \in 1 .. NumFiles : f > created => size[f] = 0

(* A file has one name at most, and no two files were written last at once.*)
Dated ==
    /\ \A f \in 1 .. created : mtime[f] # 0
    /\ \A f, g \in 1 .. created : mtime[f] = mtime[g] => f = g
    /\ \A name, other \in Names : disk[name] # 0 /\ disk[name] = disk[other] => name = other

(* A listing that no rotation fell into has every link of the directory, be*)
(* it read or unread, and the times of the files as they were.             *)
Listed ==
    /\ unread \cup DOMAIN entries \cup doomed \subseteq Names \X (1 .. created)
    /\ purger # "list" => unread = {} /\ DOMAIN entries = {}
    /\ purger # "delete" => doomed = {}
    /\ purger = "list" /\ crossed # "now" =>
          /\ unread \cup DOMAIN entries = Links(disk)
          /\ \A link \in DOMAIN entries : entries[link] \in 1 .. mtime[link[2]]

(* The file of the base name is safe from the purging thread: it is the    *)
(* youngest, and its entry, if the thread has read it, is as well.         *)
Sure == (m_frLog # 0 /\ ~ astray) \/ (nameChanges = 0 /\ crossed = "never")

Safe ==
    /\ Base \notin Doomed
    /\ purger = "list" => crossed # "now"
    /\ disk[Base] # 0 => mtime[disk[Base]] = clock
    /\ \A link \in DOMAIN entries : link[1] = Base =>
          \A g \in 1 .. created \ {link[2]} : mtime[g] < entries[link]

(* Nothing is written or moved before the program has opened a file.       *)
Early ==
    m_frLog = 0 /\ writer.at # "open" /\ purger = "list" =>
        /\ crossed # "now"
        /\ \A link \in DOMAIN entries : entries[link] = mtime[link[2]]

Kept ==
    /\ purger \notin {"start", "gone"} => m_iMaxFileNum >= 1
    /\ m_iMaxFileNum \in {0, MaxFileNum}
    /\ m_frLog # 0 /\ ~ astray => disk[Base] = m_frLog
    /\ nameChanges = 0 => m_strBaseName = Configured
    /\ nameChanges = 0 /\ crossed = "never" => ~ astray
    /\ Sure => Safe
    /\ Early

IInv == Typed /\ Counted /\ Dated /\ Listed /\ Kept /\ SizeKept

-----------------------------------------------------------------------------
(* A set of numbers with a bound has a largest one.                        *)
LEMMA MaxIn ==
    ASSUME NEW n \in Nat, NEW S, S \subseteq 0 .. n, S # {}
    PROVE  Max(S) \in S /\ \A y \in S : Max(S) >= y
  <1> DEFINE Less == {ss \in Nat \X Nat : ss[1] < ss[2]}
             T == {n - x : x \in S}
  <1>1. IsWellFoundedOn(Less, Nat)
    BY NatLessThanWellFounded DEF OpToRel
  <1>2. PICK t \in T : \A y \in T : ~ (<<y, t>> \in Less)
    <2>1. T \subseteq Nat /\ T # {}
      <3>1. \A x \in S : n - x \in Nat
        OBVIOUS
      <3> QED
        BY <3>1
    <2> HIDE DEF Less, T
    <2> QED
      BY <1>1, <2>1, WFMin
  <1>3. PICK x \in S : t = n - x
    BY <1>2
  <1>4. \A y \in S : x >= y
    <2> TAKE y \in S
    <2>1. n - y \in T /\ n - y \in Nat /\ t \in Nat /\ x \in Nat /\ y \in Nat
      BY <1>3
    <2>2. ~ (n - y < t)
      BY <1>2, <2>1
    <2> QED
      BY <1>3, <2>1, <2>2
  <1> QED
    BY <1>4 DEF Max

(* The indices that files have are indices, and so is the next one.        *)
LEMMA FoundIndex == ASSUME NEW d, NEW ext PROVE FindMaxFileIndex(d, ext) \in Indices
  <1>1. FoundIndices(d, ext) \subseteq 0 .. IndexMod - 1 /\ IndexMod - 1 \in Nat
    BY LogRotationAssumption DEF FoundIndices, Rotated, Indices
  <1> QED
    BY <1>1, MaxIn, LogRotationAssumption DEF FindMaxFileIndex, Indices

LEMMA NextIsIndex ==
    ASSUME m_iCurrentIndex \in Indices
    PROVE  /\ NextIndex \in Indices
           /\ m_iCurrentIndex = IndexMod - 1 => NextIndex = 0
           /\ m_iCurrentIndex # IndexMod - 1 => NextIndex = m_iCurrentIndex + 1
  <1>1. m_iCurrentIndex \in Nat /\ IndexMod \in Nat /\ IndexMod > 0 /\ m_iCurrentIndex < IndexMod
    BY LogRotationAssumption DEF Indices
  <1>2. m_iCurrentIndex # IndexMod - 1 => (m_iCurrentIndex + 1) % IndexMod = m_iCurrentIndex + 1
    BY <1>1
  <1>3. m_iCurrentIndex = IndexMod - 1 => (m_iCurrentIndex + 1) % IndexMod = 0
    BY <1>1
  <1> QED
    BY <1>1, <1>2, <1>3 DEF NextIndex, Indices

-----------------------------------------------------------------------------
(* The program starts.                                                     *)
LEMMA InitIInv == Init => IInv
  <1> SUFFICES ASSUME Init PROVE IInv
    OBVIOUS
  <1>1. created \in {0, 1} /\ created \in 0 .. NumFiles /\ Base \in Names /\ NumFiles \in Nat
    BY LogRotationAssumption DEF Init, Base, Numbered, Names, NoIndex
  <1>2. clock \in Nat /\ mtime \in [1 .. NumFiles -> 0 .. clock] /\ clock = created
        /\ \A f \in 1 .. created : mtime[f] = f
    BY <1>1 DEF Init
  <1>3. /\ disk \in [Names -> 0 .. created] /\ disk[Base] = 0
        /\ \A name \in Names : disk[name] # 0 => name = Numbered(Configured, IndexMod - 1)
    <2>1. Base # Numbered(Configured, IndexMod - 1)
      BY LogRotationAssumption DEF Base, Numbered, NoIndex
    <2> QED
      BY <1>1, <2>1 DEF Init
  <1>4. /\ size \in [1 .. NumFiles -> Nat]
        /\ \A f \in 1 .. NumFiles : size[f] = IF f <= created THEN MaxSize ELSE 0
    BY LogRotationAssumption DEF Init
  <1>5. Typed
    BY <1>1, <1>2, <1>3, <1>4, FoundIndex, LogRotationAssumption DEF Typed, Init
  <1>6. Counted
    BY <1>1, <1>4 DEF Counted, Init, Idle
  <1>7. Dated
    BY <1>1, <1>2, <1>3 DEF Dated
  <1>8. purger = "start" /\ unread = {} /\ DOMAIN entries = {} /\ doomed = {}
    BY DEF Init, NoEntries
  <1>9. Listed
    BY <1>8 DEF Listed
  <1>10. Kept
    BY <1>3, <1>8 DEF Kept, Init, Safe, Early, Doomed
  <1>11. SizeKept
    BY <1>1, <1>4, LogRotationAssumption DEF SizeKept
  <1> QED
    BY <1>5, <1>6, <1>7, <1>9, <1>10, <1>11 DEF IInv

-----------------------------------------------------------------------------
(* What is always there to build on.                                       *)
LEMMA Bounds ==
    ASSUME IInv
    PROVE  /\ created \in Nat /\ NumFiles \in Nat /\ created <= NumFiles /\ MaxFileNum \in Nat
           /\ m_iMaxFileNum \in Nat /\ MaxFileNum >= 1 /\ MaxSize \in Nat
           /\ MsgSizes \subseteq Nat
           /\ Base \in Names /\ disk[Base] \in 0 .. created
           /\ \A f \in 1 .. created : f \in 1 .. NumFiles /\ mtime[f] \in 1 .. clock
           /\ clock \in Nat /\ Doomed \subseteq Names
  <1>1. Base \in Names
    BY DEF IInv, Typed, Base, Numbered, Names
  <1>2. created \in Nat /\ NumFiles \in Nat /\ created <= NumFiles
    BY LogRotationAssumption DEF IInv, Typed
  <1>3. ASSUME NEW f \in 1 .. created PROVE f \in 1 .. NumFiles /\ mtime[f] \in 1 .. clock
    BY <1>2 DEF IInv, Typed, Dated
  <1>4. Doomed \subseteq Names
    BY DEF IInv, Listed, Doomed
  <1> QED
    BY <1>1, <1>2, <1>3, <1>4, LogRotationAssumption DEF IInv, Typed, Kept

(* The steps that touch neither files nor names nor the listing.           *)
Unrelated ==
    /\ UNCHANGED <<files, naming, m_frLog, m_iCurrentSize, m_iCurrentIndex, nameChanges, doomed, listing>>
    /\ m_iMaxFileNum' \in {0, MaxFileNum}
    /\ purger' \notin {"start", "gone"} => m_iMaxFileNum' >= 1
    /\ purger' = "list" <=> purger = "list"
    /\ purger' # "delete" => purger # "delete" \/ doomed = {}
    /\ \/ writer' = writer
       \/ writer' \in [at : {"check"}, msg : MsgSizes] /\ writer = Idle
       \/ writer.at = "notify" /\ writer' = [writer EXCEPT !.at = "append"]

LEMMA QuietKeeps == ASSUME IInv, Unrelated PROVE IInv'
  <1>1. UNCHANGED <<disk, size, created, mtime, clock, m_strBaseName, astray, m_frLog, m_iCurrentSize,
                    m_iCurrentIndex, nameChanges, doomed, unread, entries, crossed>> /\ Base' = Base /\ Doomed' = Doomed
    BY DEF Unrelated, files, naming, listing, Base, Doomed
  <1>2. /\ writer' \in {Idle} \cup [at : {"check", "open", "notify", "append"}, msg : MsgSizes]
        /\ writer'.at = "open" <=> writer.at = "open"
        /\ writer'.at \in {"notify", "append"} => writer.at \in {"notify", "append"}
    <2>1. CASE writer' = writer
      BY <2>1 DEF IInv, Typed
    <2>2. CASE writer' \in [at : {"check"}, msg : MsgSizes] /\ writer = Idle
      BY <2>2 DEF Idle
    <2>3. CASE writer.at = "notify" /\ writer' = [writer EXCEPT !.at = "append"]
      BY <2>3 DEF IInv, Typed, Idle
    <2> QED
      BY <2>1, <2>2, <2>3 DEF Unrelated
  <1>3. Typed'
    BY <1>1, <1>2 DEF IInv, Typed
  <1>4. Counted'
    BY <1>1, <1>2 DEF IInv, Counted
  <1>5. Dated'
    BY <1>1 DEF IInv, Dated
  <1>6. purger' = "list" <=> purger = "list"
    BY DEF Unrelated
  <1>7. Listed'
    BY <1>1, <1>6 DEF IInv, Listed, Unrelated
  <1>8. (Sure => Safe)' /\ Early'
    BY <1>1, <1>2, <1>6 DEF IInv, Kept, Sure, Safe, Early
  <1>9. Kept'
    BY <1>1, <1>8 DEF IInv, Kept, Unrelated
  <1> QED
    BY <1>1, <1>3, <1>4, <1>5, <1>7, <1>9 DEF IInv, SizeKept

LEMMA StepQuiet ==
    ASSUME IInv,
           \/ UNCHANGED vars
           \/ SetMaxFileNum
           \/ \E n \in MsgSizes : WriteData(n)
           \/ Notify
           \/ PurgerStart \/ PurgerWait \/ SpuriousWakeup \/ PurgerDone
    PROVE  IInv'
  <1> USE DEF files, naming, history, purging, memory, listing
  <1>0. /\ m_iMaxFileNum \in {0, MaxFileNum} /\ MaxFileNum >= 1
        /\ purger \notin {"start", "gone"} => m_iMaxFileNum >= 1
        /\ purger # "delete" => doomed = {}
    BY Bounds DEF IInv, Kept, Listed
  <1>1. CASE UNCHANGED vars
    <2> QED BY <1>0, <1>1, QuietKeeps DEF vars, Unrelated
  <1>2. CASE SetMaxFileNum
    BY <1>0, <1>2, QuietKeeps DEF SetMaxFileNum, Unrelated
  <1>3. ASSUME NEW n \in MsgSizes, WriteData(n) PROVE IInv'
    BY <1>0, <1>3, QuietKeeps DEF WriteData, Writing, Unrelated
  <1>4. CASE Notify
    <2>1. purger' = IF purger = "wait" THEN "woken" ELSE purger
      BY <1>4 DEF Notify, NotifyPurger
    <2> QED
      BY <1>0, <1>4, <2>1, QuietKeeps DEF Notify, Unrelated
  <1>5. CASE PurgerStart
    BY <1>0, <1>5, Bounds, QuietKeeps DEF PurgerStart, Unrelated
  <1>6. CASE PurgerWait \/ SpuriousWakeup \/ PurgerDone
    BY <1>0, <1>6, QuietKeeps DEF PurgerWait, SpuriousWakeup, PurgerDone, Unrelated
  <1> QED
    BY <1>1, <1>2, <1>3, <1>4, <1>5, <1>6

(* What the listing does to the links, as long as no rotation crosses it.  *)
LEMMA LinkOf ==
    ASSUME NEW link, link \in Links(disk)
    PROVE  link[1] \in Names /\ disk[link[1]] = link[2] /\ link[2] # 0 /\ link = <<link[1], link[2]>>
  BY DEF Links, Taken

LEMMA StepOpenDir == ASSUME IInv, OpenDir PROVE IInv'
  <1>1. /\ UNCHANGED <<disk, size, created, mtime, clock, m_strBaseName, astray, m_frLog, m_iCurrentSize,
                       m_iCurrentIndex, m_iMaxFileNum, writer, nameChanges, entries, doomed>>
        /\ Base' = Base /\ Doomed' = Doomed /\ purger = "woken" /\ purger' = "list"
        /\ unread' = Links(disk)
        /\ crossed' = IF crossed = "now" THEN "before" ELSE crossed
    BY DEF OpenDir, files, memory, naming, history, Base, Doomed
  <1>2. DOMAIN entries = {} /\ doomed = {}
    BY <1>1 DEF IInv, Listed
  <1>3. Typed' /\ Counted' /\ Dated'
    BY <1>1 DEF IInv, Typed, Counted, Dated
  <1>4. Listed'
    <2>1. Links(disk) \subseteq Names \X (1 .. created)
      BY Bounds DEF Links, Taken, IInv, Typed
    <2>2. Links(disk)' = Links(disk)
      BY <1>1 DEF Links, Taken
    <2> QED
      BY <1>1, <1>2, <2>1, <2>2 DEF IInv, Listed
  <1>5. Sure' => Sure
    BY <1>1 DEF Sure
  <1>6. (Sure => Safe)' /\ Early'
    BY <1>1, <1>2, <1>5 DEF IInv, Kept, Safe, Early
  <1>7. Kept'
    BY <1>1, <1>6 DEF IInv, Kept
  <1> QED
    BY <1>1, <1>3, <1>4, <1>7 DEF IInv, SizeKept

LEMMA StepReadEntry == ASSUME IInv, ReadEntry PROVE IInv'
  <1>1. /\ UNCHANGED <<disk, size, created, mtime, clock, m_strBaseName, astray, m_frLog, m_iCurrentSize,
                       m_iCurrentIndex, m_iMaxFileNum, writer, nameChanges, doomed, purger, crossed>>
        /\ Base' = Base /\ Doomed' = Doomed /\ purger = "list"
    BY DEF ReadEntry, files, memory, naming, history, Base, Doomed
  <1>2. PICK link \in unread :
           /\ unread' = unread \ {link}
           /\ entries' = [l \in DOMAIN entries \cup {link} |->
                             IF l = link THEN TimeOf(link[1]) ELSE entries[l]]
    BY DEF ReadEntry
  <1>3. /\ DOMAIN entries' = DOMAIN entries \cup {link}
        /\ \A l \in DOMAIN entries' : entries'[l] = IF l = link THEN TimeOf(link[1]) ELSE entries[l]
    BY <1>2
  <1>4. Typed' /\ Counted' /\ Dated'
    BY <1>1 DEF IInv, Typed, Counted, Dated
  <1>5. unread' \cup DOMAIN entries' = unread \cup DOMAIN entries
    BY <1>2, <1>3
  <1>6. ASSUME crossed # "now"
        PROVE  link[2] \in 1 .. created /\ disk[link[1]] = link[2] /\ TimeOf(link[1]) = mtime[link[2]]
    <2>1. link \in Links(disk)
      BY <1>1, <1>2, <1>6 DEF IInv, Listed
    <2>2. disk[link[1]] = link[2] /\ link[2] # 0 /\ link[1] \in Names
      BY <2>1, LinkOf
    <2> QED
      BY <2>2, Bounds DEF TimeOf, IInv, Typed
  <1>7. Listed'
    <2>1. Links(disk)' = Links(disk)
      BY <1>1 DEF Links, Taken
    <2>2. ASSUME crossed # "now", NEW l \in DOMAIN entries' PROVE entries'[l] \in 1 .. mtime[l[2]]
      BY <2>2, <1>1, <1>3, <1>6, Bounds DEF IInv, Listed
    <2>3. crossed # "now" => unread \cup DOMAIN entries = Links(disk)
      BY <1>1 DEF IInv, Listed
    <2> QED
      BY <1>1, <1>5, <2>1, <2>2, <2>3 DEF IInv, Listed
  <1>8. (Sure => Safe)'
    <2> SUFFICES ASSUME Sure, NEW l \in DOMAIN entries', l[1] = Base, NEW g \in 1 .. created \ {l[2]}
                 PROVE  mtime[g] < entries'[l]
      BY <1>1 DEF IInv, Kept, Sure, Safe
    <2>1. Safe /\ crossed # "now"
      BY <1>1 DEF IInv, Kept, Safe
    <2>2. CASE l # link
      BY <2>1, <2>2, <1>3 DEF Safe
    <2>3. CASE l = link
      <3>1. l[2] = disk[Base] /\ l[2] \in 1 .. created /\ entries'[l] = mtime[l[2]]
        BY <2>1, <2>3, <1>3, <1>6
      <3>2. mtime[l[2]] = clock
        BY <2>1, <3>1 DEF Safe
      <3>3. mtime[g] # mtime[l[2]] /\ mtime[g] \in 1 .. clock
        BY <3>1, Bounds DEF IInv, Dated
      <3> QED
        BY <3>1, <3>2, <3>3, Bounds
    <2> QED
      BY <2>2, <2>3
  <1>9. Early'
    BY <1>1, <1>3, <1>6 DEF IInv, Kept, Early
  <1>10. Kept'
    BY <1>1, <1>8, <1>9 DEF IInv, Kept
  <1> QED
    BY <1>1, <1>4, <1>7, <1>10 DEF IInv, SizeKept

(* The surplus: a set of entries that are not younger than the others.     *)
LEMMA OldestDoes ==
    ASSUME IInv, ListDone
    PROVE  /\ doomed' \subseteq DOMAIN entries
           /\ Cardinality(doomed') = IF Cardinality(DOMAIN entries) - m_iMaxFileNum > 0
                                     THEN Cardinality(DOMAIN entries) - m_iMaxFileNum ELSE 0
           /\ crossed # "now" => \A l \in doomed', k \in DOMAIN entries \ doomed' : entries[l] <= entries[k]
  <1>1. doomed' \in FirstEntries(entries, Cardinality(DOMAIN entries) - m_iMaxFileNum) /\ purger = "list"
    BY DEF ListDone, OldestFiles
  <1>2. /\ doomed' \subseteq DOMAIN entries
        /\ \A l \in doomed', k \in DOMAIN entries \ doomed' :
              0 \in {entries[l], entries[k]} \/ entries[l] <= entries[k]
        /\ Cardinality(doomed') = IF Cardinality(DOMAIN entries) - m_iMaxFileNum > 0
                                  THEN Cardinality(DOMAIN entries) - m_iMaxFileNum ELSE 0
    BY <1>1 DEF FirstEntries
  <1>3. ASSUME crossed # "now", NEW l \in DOMAIN entries PROVE entries[l] # 0
    BY <1>1, <1>3 DEF IInv, Listed
  <1> QED
    BY <1>2, <1>3

(* There are finitely many links.                                          *)
LEMMA LinksFinite ==
    ASSUME IInv
    PROVE  /\ IsFiniteSet(Names) /\ IsFiniteSet(unread) /\ IsFiniteSet(DOMAIN entries) /\ IsFiniteSet(doomed)
           /\ Cardinality(unread) \in Nat /\ Cardinality(DOMAIN entries) \in Nat /\ Cardinality(doomed) \in Nat
           /\ IsFiniteSet(Taken(disk)) /\ Cardinality(Taken(disk)) \in Nat
  <1>1. IsFiniteSet(Indices \cup {NoIndex})
    <2>1. Indices \cup {NoIndex} = 0 .. IndexMod
      BY LogRotationAssumption DEF Indices, NoIndex
    <2>2. 0 \in Int /\ IndexMod \in Int
      BY LogRotationAssumption
    <2>3. IsFiniteSet(0 .. IndexMod)
      BY <2>2, FS_Interval
    <2> QED
      BY <2>1, <2>3
  <1>2. IsFiniteSet(Names)
    BY <1>1, LogRotationAssumption, FS_Product DEF Names
  <1>3. IsFiniteSet(1 .. created)
    BY Bounds, FS_Interval
  <1>4. IsFiniteSet(Names \X (1 .. created))
    BY <1>2, <1>3, FS_Product
  <1>5. unread \cup DOMAIN entries \cup doomed \subseteq Names \X (1 .. created) /\ Taken(disk) \subseteq Names
    BY DEF IInv, Listed, Taken
  <1>6. IsFiniteSet(unread) /\ IsFiniteSet(DOMAIN entries) /\ IsFiniteSet(doomed) /\ IsFiniteSet(Taken(disk))
    BY <1>2, <1>4, <1>5, FS_Subset
  <1> QED
    BY <1>2, <1>6, FS_CardinalityType

(* The purging thread leaves the file of the base name if its entry is     *)
(* younger than all the other files.                                       *)
LEMMA ListSparesBase ==
    ASSUME IInv, ListDone, crossed # "now",
           \A link \in DOMAIN entries : link[1] = Base =>
              \A g \in 1 .. created \ {link[2]} : mtime[g] < entries[link]
    PROVE  Base \notin Doomed'
  <1>1. purger = "list" /\ unread = {} /\ doomed' \subseteq DOMAIN entries
    BY OldestDoes DEF ListDone
  <1>2. DOMAIN entries = Links(disk) /\ \A k \in DOMAIN entries : entries[k] \in 1 .. mtime[k[2]]
    BY <1>1 DEF IInv, Listed
  <1> SUFFICES ASSUME NEW l \in doomed', l[1] = Base PROVE FALSE
    BY DEF Doomed
  <1>3. l \in DOMAIN entries /\ l[2] = disk[Base] /\ l[2] \in 1 .. created /\ l = <<Base, l[2]>>
    <2>1. l \in DOMAIN entries /\ l \in Links(disk)
      BY <1>1, <1>2
    <2>2. l[2] = disk[Base] /\ l[2] # 0 /\ l = <<Base, l[2]>>
      BY <2>1, LinkOf
    <2> QED
      BY <2>1, <2>2, Bounds
  <1>4. ASSUME NEW k \in DOMAIN entries \ doomed' PROVE FALSE
    <2>1. entries[l] <= entries[k]
      BY OldestDoes
    <2>2. k[1] \in Names /\ disk[k[1]] = k[2] /\ k[2] # 0 /\ k = <<k[1], k[2]>>
      BY <1>2, LinkOf
    <2>3. k[2] # l[2]
      BY <1>3, <2>2, Bounds DEF IInv, Dated
    <2>4. k[2] \in 1 .. created
      BY <2>2, Bounds DEF IInv, Typed
    <2>5. mtime[k[2]] < entries[l]
      BY <1>3, <2>3, <2>4
    <2>6. entries[k] \in 1 .. mtime[k[2]] /\ mtime[k[2]] \in Nat /\ entries[l] \in Nat
      BY <1>2, <1>3, <2>4, Bounds
    <2> QED
      BY <2>1, <2>5, <2>6
  <1>5. doomed' = DOMAIN entries
    BY <1>1, <1>4
  <1>6. Cardinality(DOMAIN entries) \in Nat /\ Cardinality(DOMAIN entries) # 0
    BY <1>3, LinksFinite, FS_EmptySet
  <1>7. m_iMaxFileNum \in Nat /\ m_iMaxFileNum >= 1
    BY <1>1, Bounds DEF IInv, Kept
  <1> QED
    BY <1>5, <1>6, <1>7, OldestDoes

LEMMA StepListDone == ASSUME IInv, ListDone PROVE IInv'
  <1>1. /\ UNCHANGED <<disk, size, created, mtime, clock, m_strBaseName, astray, m_frLog, m_iCurrentSize,
                       m_iCurrentIndex, m_iMaxFileNum, writer, nameChanges, unread, crossed>>
        /\ Base' = Base /\ purger = "list" /\ purger' = "delete" /\ unread = {}
        /\ DOMAIN entries' = {} /\ doomed' \subseteq DOMAIN entries
    BY OldestDoes DEF ListDone, files, memory, naming, history, Base, NoEntries
  <1>2. Typed' /\ Counted' /\ Dated'
    BY <1>1 DEF IInv, Typed, Counted, Dated
  <1>3. Listed'
    BY <1>1 DEF IInv, Listed
  <1>4. ASSUME Sure PROVE Base \notin Doomed'
    <2>1. Safe /\ crossed # "now"
      BY <1>1, <1>4 DEF IInv, Kept, Safe
    <2> QED
      BY <2>1, ListSparesBase DEF Safe
  <1>5. (Sure => Safe)' /\ Early'
    BY <1>1, <1>4 DEF IInv, Kept, Sure, Safe, Early
  <1>6. Kept'
    BY <1>1, <1>5 DEF IInv, Kept
  <1> QED
    BY <1>1, <1>2, <1>3, <1>6 DEF IInv, SizeKept

(* Files are deleted by name.                                              *)
LEMMA DeleteDoes ==
    ASSUME IInv, DeleteFile
    PROVE  /\ UNCHANGED <<created, mtime, clock, size, hasExt, m_strBaseName, astray, m_frLog, m_iCurrentSize,
                          m_iCurrentIndex, m_iMaxFileNum, writer, replaced, resumed, restarts, nameChanges,
                          purger, unread, entries, crossed>>
           /\ Base' = Base /\ purger = "delete"
           /\ disk' \in [Names -> 0 .. created]
           /\ \E gone \in doomed :
                 /\ doomed' = doomed \ {gone} /\ gone[1] \in Doomed
                 /\ \A name \in Names : disk'[name] = IF name = gone[1] THEN 0 ELSE disk[name]
  <1>1. /\ UNCHANGED <<created, mtime, clock, size, hasExt, m_strBaseName, astray, m_frLog, m_iCurrentSize,
                       m_iCurrentIndex, m_iMaxFileNum, writer, replaced, resumed, restarts, nameChanges,
                       purger, unread, entries, crossed>>
        /\ Base' = Base /\ purger = "delete"
    BY DEF DeleteFile, memory, naming, history, listing, Base
  <1>2. PICK gone \in doomed : disk' = [disk EXCEPT ![gone[1]] = 0] /\ doomed' = doomed \ {gone}
    BY DEF DeleteFile
  <1>3. disk \in [Names -> 0 .. created] /\ 0 \in 0 .. created
    BY Bounds DEF IInv, Typed
  <1>4. \A name \in Names : disk'[name] = IF name = gone[1] THEN 0 ELSE disk[name]
    BY <1>2, <1>3
  <1>5. disk' \in [Names -> 0 .. created]
    BY <1>2, <1>3
  <1>6. gone[1] \in Doomed
    BY DEF Doomed
  <1> QED
    BY <1>1, <1>2, <1>4, <1>5, <1>6

LEMMA StepDeleteFile == ASSUME IInv, DeleteFile PROVE IInv'
  <1>1. /\ UNCHANGED <<size, created, mtime, clock, m_strBaseName, astray, m_frLog, m_iCurrentSize,
                       m_iCurrentIndex, m_iMaxFileNum, writer, purger, nameChanges, unread, entries, crossed>>
        /\ Base' = Base /\ purger = "delete" /\ disk' \in [Names -> 0 .. created]
    BY DeleteDoes
  <1>2. PICK gone \in doomed :
           /\ doomed' = doomed \ {gone} /\ gone[1] \in Doomed
           /\ \A name \in Names : disk'[name] = IF name = gone[1] THEN 0 ELSE disk[name]
    BY DeleteDoes
  <1>3. Typed'
    BY <1>1 DEF IInv, Typed
  <1>4. disk'[Base] \in {0, disk[Base]} /\ (Base \notin Doomed => disk'[Base] = disk[Base])
    BY <1>2, Bounds
  <1>5. Counted'
    BY <1>1, <1>4 DEF IInv, Counted
  <1>6. Dated'
    BY <1>1, <1>2 DEF IInv, Dated
  <1>7. Listed'
    BY <1>1, <1>2 DEF IInv, Listed
  <1>8. Doomed' \subseteq Doomed
    BY <1>2 DEF Doomed
  <1>9. (Sure => Safe)' /\ Early'
    BY <1>1, <1>4, <1>8 DEF IInv, Kept, Sure, Safe, Early
  <1>10. m_frLog' # 0 /\ ~ astray' => disk'[Base] = m_frLog'
    BY <1>1, <1>4 DEF IInv, Kept, Sure, Safe
  <1>11. Kept'
    BY <1>1, <1>9, <1>10 DEF IInv, Kept
  <1> QED
    BY <1>1, <1>3, <1>5, <1>6, <1>7, <1>11 DEF IInv, SizeKept

(* The directory changes under the eyes of the purging thread.             *)
LEMMA DirectoryDoes ==
    ASSUME NEW gone, NEW come, DirectoryChanges(gone, come)
    PROVE  /\ unread' \subseteq unread \cup come
           /\ purger # "list" => unread' = unread /\ crossed' = crossed
           /\ purger = "list" => crossed' = "now"
  BY DEF DirectoryChanges

(* The file of the base name is opened or created.                         *)
LEMMA OpenStays ==
    ASSUME IInv, OpenFirst \/ OpenNext
    PROVE  /\ UNCHANGED <<size, hasExt, m_strBaseName, m_iCurrentIndex, m_iMaxFileNum, doomed, entries,
                          replaced, resumed, restarts, nameChanges, purger>>
           /\ Base' = Base /\ Doomed' = Doomed
           /\ OpenExisting \/ CreateFile
           /\ writer' \in {Idle} \cup [at : {"check", "open", "notify", "append"}, msg : MsgSizes]
           /\ writer'.at # "open"
           /\ OpenExisting => writer.at # "open"
           /\ writer'.at \in {"notify", "append"} => disk[Base] = 0
  <1>1. OpenExisting \/ CreateFile
    BY DEF OpenFirst, OpenNext, OpenCurFile
  <1>2. UNCHANGED <<size, hasExt, m_strBaseName, m_iCurrentIndex, m_iMaxFileNum, doomed, entries,
                    replaced, resumed, restarts, nameChanges, purger>>
    BY <1>1 DEF OpenFirst, OpenNext, OpenCurFile, OpenExisting, CreateFile, listing, history
  <1>3. Base' = Base /\ Doomed' = Doomed
    BY <1>2 DEF Base, Doomed
  <1>4. CASE OpenFirst
    BY <1>1, <1>2, <1>3, <1>4 DEF OpenFirst, IInv, Typed, Counted
  <1>5. CASE OpenNext
    <2>1. disk[Base] = 0 /\ writer.at = "open" /\ writer' = [writer EXCEPT !.at = "notify"]
      BY <1>5 DEF OpenNext, IInv, Counted
    <2>2. writer' \in [at : {"notify"}, msg : MsgSizes]
      BY <2>1 DEF IInv, Typed, Idle
    <2>3. ~ OpenExisting
      BY <2>1 DEF OpenExisting
    <2> QED
      BY <1>1, <1>2, <1>3, <2>1, <2>2, <2>3
  <1> QED
    BY <1>4, <1>5

LEMMA StepOpenExisting ==
    ASSUME IInv, OpenFirst \/ OpenNext, OpenExisting
    PROVE  IInv'
  <1>1. /\ UNCHANGED <<size, m_strBaseName, m_iCurrentIndex, m_iMaxFileNum, doomed, entries, nameChanges, purger>>
        /\ Base' = Base /\ Doomed' = Doomed
        /\ writer' \in {Idle} \cup [at : {"check", "open", "notify", "append"}, msg : MsgSizes]
        /\ writer'.at # "open" /\ writer.at # "open" /\ writer'.at \notin {"notify", "append"}
    BY OpenStays DEF OpenExisting
  <1>2. /\ disk[Base] # 0 /\ m_frLog' = disk[Base] /\ m_iCurrentSize' = size[disk[Base]]
        /\ astray' = (mtime[disk[Base]] # clock \/ Base \in Doomed)
        /\ UNCHANGED <<disk, created, mtime, clock, unread, crossed>>
    BY DEF OpenExisting, listing
  <1>3. disk[Base] \in 1 .. created /\ disk[Base] \in 1 .. NumFiles
    BY <1>2, Bounds
  <1>4. Typed'
    <2>1. size[disk[Base]] \in Nat
      BY <1>3 DEF IInv, Typed
    <2>2. disk[Base] \in 0 .. created
      BY Bounds
    <2> QED
      BY <1>1, <1>2, <2>1, <2>2 DEF IInv, Typed
  <1>5. Counted' /\ Dated'
    BY <1>1, <1>2 DEF IInv, Counted, Dated
  <1>6. Listed'
    <2>1. Links(disk)' = Links(disk)
      BY <1>2 DEF Links, Taken
    <2> QED
      BY <1>1, <1>2, <2>1 DEF IInv, Listed
  <1>7. Early'
    BY <1>2, <1>3 DEF Early
  <1>8. ASSUME Sure' PROVE Base \notin Doomed /\ mtime[disk[Base]] = clock /\ (purger = "list" => crossed # "now")
                           /\ ~ astray'
    <2>1. m_frLog = 0 /\ writer.at # "open"
      BY <1>1, <1>2 DEF OpenFirst, OpenNext
    <2>2. purger = "list" => crossed # "now"
      BY <2>1 DEF IInv, Kept, Early
    <2>3. CASE ~ astray'
      BY <2>2, <2>3, <1>2
    <2>4. CASE nameChanges = 0 /\ crossed = "never"
      <3>1. Safe
        BY <2>4 DEF IInv, Kept, Sure
      <3> QED
        BY <2>2, <3>1, <1>2 DEF Safe
    <2> QED
      BY <1>8, <1>1, <1>2, <2>3, <2>4 DEF Sure
  <1>9. ASSUME Sure', NEW link \in DOMAIN entries, link[1] = Base, NEW g \in 1 .. created \ {link[2]}
        PROVE  mtime[g] < entries[link]
    <2>1. m_frLog = 0 /\ writer.at # "open"
      BY <1>1, <1>2 DEF OpenFirst, OpenNext
    <2>2. purger = "list"
      BY DEF IInv, Listed
    <2>3. entries[link] = mtime[link[2]] /\ link \in Links(disk)
      BY <1>8, <1>9, <2>1, <2>2 DEF IInv, Kept, Early, Listed
    <2>4. link[2] = disk[Base]
      BY <1>9, <2>3, LinkOf
    <2>5. mtime[g] # mtime[disk[Base]] /\ mtime[g] \in 1 .. clock
      BY <1>3, <2>4, Bounds DEF IInv, Dated
    <2> QED
      BY <1>8, <1>9, <2>3, <2>4, <2>5, Bounds
  <1>10. (Sure => Safe)'
    BY <1>1, <1>2, <1>8, <1>9 DEF Safe
  <1>11. nameChanges' = 0 /\ crossed' = "never" => ~ astray'
    BY <1>8 DEF Sure
  <1>12. Kept'
    BY <1>1, <1>2, <1>7, <1>10, <1>11 DEF IInv, Kept
  <1> QED
    BY <1>1, <1>2, <1>4, <1>5, <1>6, <1>12 DEF IInv, SizeKept

LEMMA CreateDoes ==
    ASSUME IInv, CreateFile
    PROVE  /\ disk[Base] = 0 /\ created' = created + 1 /\ created' \in 1 .. NumFiles /\ clock' = clock + 1
           /\ created' \in 1 .. created' /\ created' \notin 1 .. created /\ 1 .. created' = 1 .. created \cup {created'}
           /\ disk' \in [Names -> 0 .. created'] /\ disk'[Base] = created'
           /\ \A name \in Names \ {Base} : disk'[name] = disk[name]
           /\ mtime' \in [1 .. NumFiles -> 0 .. clock'] /\ mtime'[created'] = clock'
           /\ \A f \in 1 .. created : mtime'[f] = mtime[f]
           /\ m_frLog' = created' /\ m_iCurrentSize' = 0
           /\ unread' \subseteq unread \cup {<<Base, created'>>}
           /\ purger # "list" => unread' = unread /\ crossed' = crossed
           /\ purger = "list" => crossed' = "now"
           /\ astray' = (purger = "list" \/ Base \in Doomed)
           /\ UNCHANGED entries
  <1>1. /\ disk[Base] = 0 /\ created' = created + 1 /\ created < NumFiles /\ clock' = clock + 1
        /\ disk' = [disk EXCEPT ![Base] = created + 1]
        /\ mtime' = [mtime EXCEPT ![created + 1] = clock + 1]
        /\ m_frLog' = created + 1 /\ m_iCurrentSize' = 0
        /\ astray' = (purger = "list" \/ Base \in Doomed)
        /\ UNCHANGED entries
        /\ DirectoryChanges({}, {<<Base, created + 1>>})
    BY DEF CreateFile, Touch
  <1>2. /\ created' \in 1 .. NumFiles /\ created' \in 1 .. created' /\ created' \notin 1 .. created
        /\ 1 .. created' = 1 .. created \cup {created'} /\ created' \in Nat /\ clock' \in Nat
    BY <1>1, Bounds
  <1>3. disk \in [Names -> 0 .. created'] /\ mtime \in [1 .. NumFiles -> 0 .. clock'] /\ clock' \in 0 .. clock'
    BY <1>1, <1>2, Bounds DEF IInv, Typed
  <1>4. /\ disk' \in [Names -> 0 .. created'] /\ disk'[Base] = created'
        /\ \A name \in Names \ {Base} : disk'[name] = disk[name]
    BY <1>1, <1>2, <1>3, Bounds
  <1>5. /\ mtime' \in [1 .. NumFiles -> 0 .. clock'] /\ mtime'[created'] = clock'
        /\ \A f \in 1 .. created : mtime'[f] = mtime[f]
    BY <1>1, <1>2, <1>3, Bounds
  <1>6. /\ unread' \subseteq unread \cup {<<Base, created'>>}
        /\ purger # "list" => unread' = unread /\ crossed' = crossed
        /\ purger = "list" => crossed' = "now"
    BY <1>1, DirectoryDoes
  <1> QED
    BY <1>1, <1>2, <1>4, <1>5, <1>6

LEMMA StepCreate ==
    ASSUME IInv, OpenFirst \/ OpenNext, CreateFile
    PROVE  IInv'
  <1>1. /\ UNCHANGED <<size, m_strBaseName, m_iCurrentIndex, m_iMaxFileNum, doomed, entries, nameChanges, purger>>
        /\ Base' = Base /\ Doomed' = Doomed
        /\ writer' \in {Idle} \cup [at : {"check", "open", "notify", "append"}, msg : MsgSizes]
        /\ writer'.at # "open"
    BY OpenStays
  <1>2. /\ disk[Base] = 0 /\ created' = created + 1 /\ created' \in 1 .. NumFiles /\ clock' = clock + 1
        /\ created' \in 1 .. created' /\ created' \notin 1 .. created /\ 1 .. created' = 1 .. created \cup {created'}
        /\ disk' \in [Names -> 0 .. created'] /\ disk'[Base] = created'
        /\ \A name \in Names \ {Base} : disk'[name] = disk[name]
        /\ mtime' \in [1 .. NumFiles -> 0 .. clock'] /\ mtime'[created'] = clock'
        /\ \A f \in 1 .. created : mtime'[f] = mtime[f]
        /\ m_frLog' = created' /\ m_iCurrentSize' = 0
    BY CreateDoes
  <1>3. /\ unread' \subseteq unread \cup {<<Base, created'>>}
        /\ purger # "list" => unread' = unread /\ crossed' = crossed
        /\ purger = "list" => crossed' = "now"
        /\ astray' = (purger = "list" \/ Base \in Doomed)
    BY CreateDoes
  <1>4. size[created'] = 0
    BY <1>2, Bounds DEF IInv, Counted
  <1>5. Typed'
    <2>1. created' \in 0 .. NumFiles /\ m_frLog' \in 0 .. created' /\ clock' \in Nat
      BY <1>2, Bounds
    <2> QED
      BY <1>1, <1>2, <2>1 DEF IInv, Typed
  <1>6. Counted'
    <2>1. \A g \in 1 .. NumFiles : g > created' => g > created
      BY <1>2, Bounds
    <2>2. m_frLog' # 0
      BY <1>2, Bounds
    <2> QED
      BY <1>1, <1>2, <1>4, <2>1, <2>2 DEF IInv, Counted
  <1>7. Dated'
    <2>1. \A f \in 1 .. created : mtime[f] \in 1 .. clock /\ mtime'[f] = mtime[f]
      BY <1>2, Bounds
    <2>2. clock' # 0 /\ \A f \in 1 .. created : mtime[f] # clock'
      BY <1>2, <2>1, Bounds
    <2>3. \A f \in 1 .. created' : mtime'[f] # 0
      BY <1>2, <2>1, <2>2
    <2>4. \A f, g \in 1 .. created' : mtime'[f] = mtime'[g] => f = g
      BY <1>2, <2>1, <2>2 DEF IInv, Dated
    <2>5. \A name \in Names : disk[name] # created'
      BY <1>2, Bounds DEF IInv, Typed
    <2>6. \A name, other \in Names : disk'[name] # 0 /\ disk'[name] = disk'[other] => name = other
      BY <1>2, <2>5, Bounds DEF IInv, Dated
    <2> QED
      BY <2>3, <2>4, <2>6 DEF Dated
  <1>8. Listed'
    <2>1. unread' \cup DOMAIN entries' \cup doomed' \subseteq Names \X (1 .. created')
      BY <1>1, <1>2, <1>3, Bounds DEF IInv, Listed
    <2> QED
      BY <1>1, <1>3, <2>1 DEF IInv, Listed
  <1>9. ASSUME Sure' PROVE purger # "list" /\ Base \notin Doomed
    <2>1. CASE ~ astray'
      BY <2>1, <1>3
    <2>2. CASE nameChanges' = 0 /\ crossed' = "never"
      <3>1. purger # "list" /\ crossed = "never"
        BY <1>3, <2>2
      <3>2. Safe
        BY <1>1, <2>2, <3>1 DEF IInv, Kept, Sure
      <3> QED
        BY <3>1, <3>2 DEF Safe
    <2> QED
      BY <1>9, <2>1, <2>2 DEF Sure
  <1>10. (Sure => Safe)'
    <2> SUFFICES ASSUME Sure' PROVE Safe'
      OBVIOUS
    <2>1. DOMAIN entries' = {}
      BY <1>1, <1>9 DEF IInv, Listed
    <2> QED
      BY <1>1, <1>2, <1>9, <2>1 DEF Safe
  <1>11. Early'
    BY <1>2, Bounds DEF Early
  <1>12. nameChanges' = 0 /\ crossed' = "never" => ~ astray'
    BY <1>3, <1>9 DEF Sure
  <1>13. Kept'
    BY <1>1, <1>2, <1>10, <1>11, <1>12 DEF IInv, Kept
  <1>14. SizeKept'
    BY <1>1, <1>2, <1>4, Bounds DEF IInv, SizeKept
  <1> QED
    BY <1>5, <1>6, <1>7, <1>8, <1>13, <1>14 DEF IInv

(* A line is written to the open file.                                     *)
LEMMA WriteDoes ==
    ASSUME IInv, AppendAtOnce \/ AppendAfterRotation
    PROVE  /\ UNCHANGED <<disk, created, hasExt, m_strBaseName, astray, m_frLog, m_iCurrentIndex,
                          m_iMaxFileNum, doomed, unread, entries, crossed, replaced, resumed, restarts,
                          nameChanges, purger>>
           /\ Base' = Base /\ Doomed' = Doomed
           /\ m_frLog # 0 /\ m_frLog \in 1 .. created
           /\ clock' = clock + 1 /\ mtime' \in [1 .. NumFiles -> 0 .. clock']
           /\ mtime'[m_frLog] = clock'
           /\ \A f \in 1 .. created \ {m_frLog} : mtime'[f] = mtime[f]
           /\ size' = [size EXCEPT ![m_frLog] = @ + writer.msg]
           /\ m_iCurrentSize' = m_iCurrentSize + writer.msg
           /\ writer' = Idle /\ writer.at \in {"check", "append"}
  <1>1. /\ UNCHANGED <<disk, created, hasExt, m_strBaseName, astray, m_frLog, m_iCurrentIndex,
                       m_iMaxFileNum, doomed, unread, entries, crossed, replaced, resumed, restarts,
                       nameChanges, purger>>
        /\ writer' = Idle /\ writer.at \in {"check", "append"}
        /\ clock' = clock + 1 /\ mtime' = [mtime EXCEPT ![m_frLog] = clock + 1]
        /\ size' = [size EXCEPT ![m_frLog] = @ + writer.msg]
        /\ m_iCurrentSize' = m_iCurrentSize + writer.msg
    BY DEF AppendAtOnce, AppendAfterRotation, WriteFile, Touch, naming, purging, listing, history
  <1>2. m_frLog # 0 /\ m_frLog \in 0 .. created
    BY DEF AppendAtOnce, AppendAfterRotation, IInv, Counted, Typed
  <1>3. m_frLog \in 1 .. created /\ m_frLog \in 1 .. NumFiles
    BY <1>2, Bounds
  <1>4. mtime \in [1 .. NumFiles -> 0 .. clock'] /\ clock' \in 0 .. clock'
    BY <1>1, Bounds DEF IInv, Typed
  <1>5. /\ mtime' \in [1 .. NumFiles -> 0 .. clock'] /\ mtime'[m_frLog] = clock'
        /\ \A f \in 1 .. created \ {m_frLog} : mtime'[f] = mtime[f]
    BY <1>1, <1>3, <1>4, Bounds
  <1>6. Base' = Base /\ Doomed' = Doomed
    BY <1>1 DEF Base, Doomed
  <1> QED
    BY <1>1, <1>2, <1>3, <1>5, <1>6

LEMMA StepWrite == ASSUME IInv, AppendAtOnce \/ AppendAfterRotation PROVE IInv'
  <1> DEFINE f == m_frLog
  <1>1. /\ size' = [size EXCEPT ![f] = @ + writer.msg]
        /\ m_iCurrentSize' = m_iCurrentSize + writer.msg
        /\ writer' = Idle
        /\ UNCHANGED <<disk, created, m_strBaseName, astray, m_frLog, m_iCurrentIndex, m_iMaxFileNum, purger,
                       doomed, nameChanges, unread, entries, crossed>>
        /\ Base' = Base /\ Doomed' = Doomed
    BY WriteDoes
  <1>2. f # 0 /\ f \in 1 .. created /\ writer.at \in {"check", "append"}
    BY WriteDoes
  <1>3. /\ clock' = clock + 1 /\ mtime' \in [1 .. NumFiles -> 0 .. clock'] /\ mtime'[f] = clock'
        /\ \A g \in 1 .. created \ {f} : mtime'[g] = mtime[g]
    BY WriteDoes
  <1>4. f \in 1 .. NumFiles /\ writer.msg \in MsgSizes /\ writer.msg \in Nat
    BY <1>2, Bounds DEF IInv, Typed, Idle
  <1>5. size \in [1 .. NumFiles -> Nat] /\ m_iCurrentSize \in Nat /\ m_iCurrentSize = size[f]
    BY <1>2 DEF IInv, Typed, Counted
  <1>6. /\ size' \in [1 .. NumFiles -> Nat] /\ m_iCurrentSize' \in Nat
        /\ \A g \in 1 .. NumFiles : size'[g] = IF g = f THEN m_iCurrentSize' ELSE size[g]
    <2>1. size[f] + writer.msg \in Nat
      BY <1>4, <1>5
    <2> QED
      BY <1>1, <1>4, <1>5, <2>1
  <1>7. clock' \in Nat /\ \A g \in 1 .. created : mtime[g] \in 1 .. clock /\ mtime[g] < clock'
    BY <1>3, Bounds
  <1> HIDE DEF f
  <1>8. m_frLog' = f /\ m_frLog = f
    BY <1>1 DEF f
  <1>9. Typed'
    BY <1>1, <1>3, <1>6, <1>7 DEF IInv, Typed
  <1>10. Counted'
    <2>1. \A g \in 1 .. NumFiles : g > created => g # f
      BY <1>2, Bounds
    <2> QED
      BY <1>1, <1>4, <1>6, <1>8, <2>1 DEF IInv, Counted, Idle
  <1>11. Dated'
    <2>1. \A g \in 1 .. created : mtime'[g] # 0
      <3>1. clock' # 0
        BY <1>3, Bounds
      <3>2. ASSUME NEW g \in 1 .. created, g # f PROVE mtime'[g] \in 1 .. clock
        BY <3>2, <1>3, <1>7
      <3> QED
        BY <3>1, <3>2, <1>3
    <2>2. ASSUME NEW g \in 1 .. created, NEW h \in 1 .. created, mtime'[g] = mtime'[h] PROVE g = h
      BY <2>2, <1>2, <1>3, <1>7, Bounds DEF IInv, Dated
    <2> QED
      BY <1>1, <2>1, <2>2 DEF IInv, Dated
  <1>12. \A g \in 1 .. created : 1 .. mtime[g] \subseteq 1 .. mtime'[g]
    BY <1>2, <1>3, <1>7, Bounds
  <1>13. Listed'
    <2>1. Links(disk)' = Links(disk)
      BY <1>1 DEF Links, Taken
    <2>2. \A link \in DOMAIN entries : link[2] \in 1 .. created
      BY DEF IInv, Listed
    <2> QED
      BY <1>1, <1>12, <2>1, <2>2 DEF IInv, Listed
  <1>14. ASSUME Sure PROVE Safe'
    <2>1. Safe /\ disk[Base] = f
      BY <1>2, <1>8, <1>14 DEF IInv, Kept, Sure
    <2>2. ASSUME NEW link \in DOMAIN entries, link[1] = Base, NEW g \in 1 .. created \ {link[2]}
          PROVE  mtime'[g] < entries[link]
      <3>1. purger = "list"
        BY DEF IInv, Listed
      <3>2. link \in Links(disk)
        BY <2>1, <3>1 DEF Safe, IInv, Listed
      <3>3. link[2] = f
        BY <2>1, <2>2, <3>2, LinkOf
      <3>4. mtime'[g] = mtime[g]
        BY <1>3, <2>2, <3>3
      <3> QED
        BY <2>1, <2>2, <3>4 DEF Safe
    <2> QED
      BY <1>1, <1>3, <2>1, <2>2 DEF Safe
  <1>15. Early'
    BY <1>1, <1>2, <1>8 DEF Early
  <1>16. Kept'
    BY <1>1, <1>14, <1>15 DEF IInv, Kept, Sure
  <1>17. SizeKept'
    <2>1. m_iCurrentSize' <= MaxSize \/ m_iCurrentSize' \in MsgSizes
      <3>1. CASE AppendAtOnce
        BY <3>1, <1>1, <1>4, <1>5, Bounds DEF AppendAtOnce, Full
      <3>2. CASE AppendAfterRotation
        <4>1. m_iCurrentSize = 0
          BY <3>2 DEF AppendAfterRotation, IInv, Counted
        <4> QED
          BY <4>1, <1>1, <1>4
      <3> QED
        BY <3>1, <3>2
    <2> SUFFICES ASSUME NEW g \in 1 .. created PROVE size'[g] <= MaxSize \/ size'[g] \in MsgSizes
      BY <1>1 DEF SizeKept
    <2>2. g \in 1 .. NumFiles
      BY Bounds
    <2>3. size[g] <= MaxSize \/ size[g] \in MsgSizes
      BY DEF IInv, SizeKept
    <2> QED
      BY <1>6, <2>1, <2>2, <2>3
  <1> QED
    BY <1>9, <1>10, <1>11, <1>13, <1>16, <1>17 DEF IInv

(* The file gets the next index, if it is still there.                     *)
LEMMA RenameStays ==
    ASSUME IInv, Rename
    PROVE  /\ UNCHANGED <<size, created, mtime, clock, hasExt, m_strBaseName, astray, m_iCurrentSize,
                          m_iMaxFileNum, purger, entries, doomed, resumed, restarts, nameChanges>>
           /\ Base' = Base /\ Doomed' = Doomed
           /\ m_frLog # 0 /\ m_frLog' = 0 /\ m_iCurrentIndex' = NextIndex
           /\ writer' \in [at : {"open"}, msg : MsgSizes] /\ writer.at = "check"
           /\ MoveFile \/ NothingToMove
  <1>1. /\ UNCHANGED <<size, created, mtime, clock, hasExt, m_strBaseName, astray, m_iCurrentSize,
                       m_iMaxFileNum, purger, entries, doomed, resumed, restarts, nameChanges>>
        /\ m_frLog # 0 /\ m_frLog' = 0 /\ m_iCurrentIndex' = NextIndex
        /\ writer' = [writer EXCEPT !.at = "open"] /\ writer.at = "check"
        /\ MoveFile \/ NothingToMove
    BY DEF Rename, naming
  <1>2. writer' \in [at : {"open"}, msg : MsgSizes]
    BY <1>1 DEF IInv, Typed, Idle
  <1>3. Base' = Base /\ Doomed' = Doomed
    BY <1>1 DEF Base, Doomed
  <1> QED
    BY <1>1, <1>2, <1>3

LEMMA MoveDoes ==
    ASSUME IInv, MoveFile
    PROVE  LET next == Numbered(m_strBaseName, NextIndex) IN
           /\ next \in Names /\ next # Base
           /\ disk[Base] \in 1 .. created
           /\ disk' \in [Names -> 0 .. created]
           /\ disk'[Base] = 0 /\ disk'[next] = disk[Base]
           /\ \A name \in Names \ {Base, next} : disk'[name] = disk[name]
           /\ replaced' = (replaced \/ disk[next] # 0)
           /\ unread' \subseteq unread \cup {<<next, disk[Base]>>}
           /\ purger # "list" => unread' = unread /\ crossed' = crossed
           /\ purger = "list" => crossed' = "now"
  <1> DEFINE next == Numbered(m_strBaseName, NextIndex)
  <1>1. /\ disk[Base] # 0
        /\ disk' = [disk EXCEPT ![next] = disk[Base], ![Base] = 0]
        /\ replaced' = (replaced \/ disk[next] # 0)
        /\ DirectoryChanges({<<Base, disk[Base]>>, <<next, disk[next]>>}, {<<next, disk[Base]>>})
    BY DEF MoveFile
  <1>2. next \in Names /\ next # Base
    BY NextIsIndex, LogRotationAssumption DEF IInv, Typed, Numbered, Names, Base, NoIndex, Indices
  <1> HIDE DEF next
  <1>3. disk[Base] \in 1 .. created
    BY <1>1, Bounds
  <1>4. disk \in [Names -> 0 .. created] /\ Base \in Names /\ 0 \in 0 .. created /\ disk[Base] \in 0 .. created
    BY Bounds DEF IInv, Typed
  <1>5. /\ disk' \in [Names -> 0 .. created]
        /\ disk'[Base] = 0 /\ disk'[next] = disk[Base]
        /\ \A name \in Names \ {Base, next} : disk'[name] = disk[name]
    BY <1>1, <1>2, <1>4
  <1>6. /\ unread' \subseteq unread \cup {<<next, disk[Base]>>}
        /\ purger # "list" => unread' = unread /\ crossed' = crossed
        /\ purger = "list" => crossed' = "now"
    BY <1>1, DirectoryDoes
  <1> QED
    BY <1>1, <1>2, <1>3, <1>5, <1>6 DEF next

LEMMA StepMove ==
    ASSUME IInv, Rename, MoveFile
    PROVE  IInv'
  <1> DEFINE next == Numbered(m_strBaseName, NextIndex)
  <1>1. /\ UNCHANGED <<size, created, mtime, clock, m_strBaseName, astray, m_iCurrentSize,
                       m_iMaxFileNum, purger, entries, doomed, nameChanges>>
        /\ Base' = Base /\ Doomed' = Doomed
        /\ m_frLog # 0 /\ m_frLog' = 0 /\ m_iCurrentIndex' \in Indices
        /\ writer' \in [at : {"open"}, msg : MsgSizes]
    BY RenameStays, NextIsIndex DEF IInv, Typed
  <1>2. /\ next \in Names /\ next # Base
        /\ disk[Base] \in 1 .. created
        /\ disk' \in [Names -> 0 .. created]
        /\ disk'[Base] = 0 /\ disk'[next] = disk[Base]
        /\ \A name \in Names \ {Base, next} : disk'[name] = disk[name]
        /\ unread' \subseteq unread \cup {<<next, disk[Base]>>}
        /\ purger # "list" => unread' = unread /\ crossed' = crossed
        /\ purger = "list" => crossed' = "now"
    BY MoveDoes
  <1> HIDE DEF next
  <1>3. Typed'
    BY <1>1, <1>2, Bounds DEF IInv, Typed
  <1>4. Counted'
    BY <1>1, <1>2 DEF IInv, Counted
  <1>5. Dated'
    BY <1>1, <1>2, Bounds DEF IInv, Dated
  <1>6. Listed'
    BY <1>1, <1>2 DEF IInv, Listed
  <1>7. ASSUME Sure' PROVE purger # "list" /\ Safe
    <2>1. nameChanges = 0 /\ crossed' = "never"
      BY <1>1, <1>7 DEF Sure
    <2>2. purger # "list" /\ crossed = "never"
      BY <1>2, <2>1
    <2> QED
      BY <2>1, <2>2 DEF IInv, Kept, Sure
  <1>8. (Sure => Safe)' /\ Early'
    <2>1. ASSUME Sure' PROVE DOMAIN entries = {}
      BY <1>7, <2>1 DEF IInv, Listed
    <2> QED
      BY <1>1, <1>2, <1>7, <2>1 DEF Safe, Early
  <1>9. nameChanges' = 0 /\ crossed' = "never" => ~ astray'
    <2>1. crossed' = "never" => crossed = "never"
      BY <1>2
    <2> QED
      BY <1>1, <2>1 DEF IInv, Kept
  <1>10. Kept'
    BY <1>1, <1>8, <1>9 DEF IInv, Kept
  <1> QED
    BY <1>1, <1>3, <1>4, <1>5, <1>6, <1>10 DEF IInv, SizeKept

LEMMA StepNothingToMove ==
    ASSUME IInv, Rename, NothingToMove
    PROVE  IInv'
  <1>1. /\ UNCHANGED <<size, created, mtime, clock, m_strBaseName, astray, m_iCurrentSize,
                       m_iMaxFileNum, purger, entries, doomed, nameChanges>>
        /\ Base' = Base /\ Doomed' = Doomed
        /\ m_frLog # 0 /\ m_frLog' = 0 /\ m_iCurrentIndex' \in Indices
        /\ writer' \in [at : {"open"}, msg : MsgSizes]
    BY RenameStays, NextIsIndex DEF IInv, Typed
  <1>2. disk[Base] = 0 /\ UNCHANGED <<disk, unread, crossed>>
    BY DEF NothingToMove
  <1>3. Typed'
    BY <1>1, <1>2, Bounds DEF IInv, Typed
  <1>4. Counted' /\ Dated'
    BY <1>1, <1>2 DEF IInv, Counted, Dated
  <1>5. Listed'
    <2>1. Links(disk)' = Links(disk)
      BY <1>2 DEF Links, Taken
    <2> QED
      BY <1>1, <1>2, <2>1 DEF IInv, Listed
  <1>6. ~ Sure'
    BY <1>1, <1>2 DEF IInv, Kept, Sure
  <1>7. Kept'
    BY <1>1, <1>2, <1>6 DEF IInv, Kept, Early
  <1> QED
    BY <1>1, <1>3, <1>4, <1>5, <1>7 DEF IInv, SizeKept

(* The base name changes, and the open file may not be the one with it.    *)
LEMMA StepSetName ==
    ASSUME IInv, NEW base \in BaseNames, setLogFileName(base)
    PROVE  IInv'
  <1>1. /\ nameChanges' = nameChanges + 1 /\ m_strBaseName' = base /\ astray' = TRUE
        /\ writer = Idle /\ m_iCurrentIndex' \in Indices
        /\ UNCHANGED <<disk, size, created, mtime, clock, m_frLog, m_iCurrentSize, m_iMaxFileNum,
                       writer, purger, doomed, unread, entries, crossed>>
    BY FoundIndex DEF setLogFileName, files, purging, listing
  <1>2. nameChanges' \in Nat /\ nameChanges' # 0
    BY <1>1 DEF IInv, Typed
  <1>3. Typed'
    BY <1>1, <1>2 DEF IInv, Typed
  <1>4. Counted' /\ Dated'
    BY <1>1 DEF IInv, Counted, Dated, Idle
  <1>5. Listed'
    <2>1. Links(disk)' = Links(disk)
      BY <1>1 DEF Links, Taken
    <2> QED
      BY <1>1, <2>1 DEF IInv, Listed
  <1>6. ~ Sure'
    BY <1>1, <1>2 DEF Sure
  <1>7. Kept'
    BY <1>1, <1>2, <1>6 DEF IInv, Kept, Early
  <1> QED
    BY <1>1, <1>3, <1>4, <1>5, <1>7 DEF IInv, SizeKept

LEMMA StepRestart == ASSUME IInv, Restart PROVE IInv'
  <1>1. /\ m_frLog' = 0 /\ m_iCurrentSize' = 0 /\ m_strBaseName' = Configured
        /\ m_iMaxFileNum' = 0 /\ writer' = Idle /\ purger' = "start"
        /\ unread' = {} /\ DOMAIN entries' = {} /\ doomed' = {} /\ Doomed' = {}
        /\ astray' = FALSE /\ m_iCurrentIndex' \in Indices
        /\ UNCHANGED <<disk, size, created, mtime, clock, nameChanges, crossed>>
    BY FoundIndex DEF Restart, files, NoEntries, Doomed
  <1>2. Typed'
    BY <1>1, LogRotationAssumption, Bounds DEF IInv, Typed
  <1>3. Counted' /\ Dated'
    BY <1>1 DEF IInv, Counted, Dated, Idle
  <1>4. Listed'
    BY <1>1 DEF Listed
  <1>5. nameChanges = 0 => Base' = Base
    BY <1>1 DEF IInv, Kept, Base
  <1>6. Sure' => Sure /\ nameChanges = 0
    BY <1>1 DEF Sure
  <1>7. (Sure => Safe)'
    BY <1>1, <1>5, <1>6 DEF IInv, Kept, Safe
  <1>8. Kept'
    BY <1>1, <1>7 DEF IInv, Kept, Early
  <1> QED
    BY <1>1, <1>2, <1>3, <1>4, <1>8 DEF IInv, SizeKept

LEMMA StepIInv == IInv /\ [Next]_vars => IInv'
  <1> SUFFICES ASSUME IInv, [Next]_vars PROVE IInv'
    OBVIOUS
  <1>1. ASSUME OpenFirst \/ OpenNext PROVE IInv'
    BY <1>1, OpenStays, StepOpenExisting, StepCreate
  <1>2. ASSUME Rename PROVE IInv'
    BY <1>2, RenameStays, StepMove, StepNothingToMove
  <1>3. CASE WriterStep
    BY <1>1, <1>2, <1>3, StepQuiet, StepWrite DEF WriterStep
  <1>4. CASE PurgerStep
    BY <1>4, StepQuiet, StepOpenDir, StepReadEntry, StepListDone, StepDeleteFile DEF PurgerStep
  <1> QED
    BY <1>3, <1>4, StepQuiet, StepSetName, StepRestart DEF Next

-----------------------------------------------------------------------------
(* While the base name is the configured one, or was changed once before   *)
(* any restart, younger files have larger numbers, and no listing that a   *)
(* rotation did not cross makes the file of the base name go.              *)
Ordered ==
    /\ restarts \in Nat
    /\ nameChanges = 0 =>
          /\ \A name \in Names : disk[name] # 0 => name[1] = Configured
          /\ \A link \in unread \cup DOMAIN entries \cup doomed : link[1][1] = Configured
    /\ Straight =>
          /\ \A f, g \in 1 .. created : f < g => mtime[f] < mtime[g]
          /\ m_frLog \in {0, created} /\ disk[Base] \in {0, created}
          /\ purger = "list" /\ crossed # "now" =>
                \A link \in DOMAIN entries, g \in 1 .. created : g < link[2] => mtime[g] < entries[link]
          /\ crossed # "now" => Base \notin Doomed

(* The steps that leave the files, their names and the listing alone.      *)
Still ==
    /\ UNCHANGED <<files, hasExt, naming, m_frLog, m_iCurrentIndex, doomed, listing, replaced, resumed,
                   restarts, nameChanges>>
    /\ purger' = "list" <=> purger = "list"
    /\ purger = "list" => (writer'.at \in {"open", "notify"} <=> writer.at \in {"open", "notify"})

LEMMA QuietIsStill ==
    ASSUME IInv,
           \/ UNCHANGED vars
           \/ SetMaxFileNum
           \/ \E n \in MsgSizes : WriteData(n)
           \/ Notify
           \/ PurgerStart \/ PurgerWait \/ SpuriousWakeup \/ PurgerDone
    PROVE  Still
  <1> USE DEF files, naming, history, purging, memory, listing
  <1>1. CASE UNCHANGED vars
    BY <1>1 DEF vars, Still
  <1>2. CASE SetMaxFileNum
    BY <1>2 DEF SetMaxFileNum, Still
  <1>3. ASSUME NEW n \in MsgSizes, WriteData(n) PROVE Still
    BY <1>3 DEF WriteData, Writing, Idle, Still
  <1>4. CASE Notify
    <2>1. purger' = IF purger = "wait" THEN "woken" ELSE purger
      BY <1>4 DEF Notify, NotifyPurger
    <2> QED
      BY <1>4, <2>1 DEF Notify, MutexFree, Still
  <1>5. CASE PurgerStart \/ PurgerWait \/ SpuriousWakeup \/ PurgerDone
    BY <1>5 DEF PurgerStart, PurgerWait, SpuriousWakeup, PurgerDone, Still
  <1> QED
    BY <1>1, <1>2, <1>3, <1>4, <1>5

LEMMA InitOrdered == ASSUME Init PROVE Ordered
  <1>1. /\ restarts = 0 /\ m_frLog = 0 /\ m_strBaseName = Configured
        /\ unread = {} /\ DOMAIN entries = {} /\ doomed = {} /\ Doomed = {} /\ created \in {0, 1}
    BY DEF Init, NoEntries, Doomed
  <1>2. \A name \in Names : disk[name] # 0 => name = Numbered(Configured, IndexMod - 1)
    BY DEF Init
  <1>3. disk[Base] = 0
    <2>1. Base \in Names /\ Base # Numbered(Configured, IndexMod - 1)
      BY <1>1, LogRotationAssumption DEF Base, Numbered, NoIndex, Names
    <2> QED
      BY <1>2, <2>1
  <1>4. \A f, g \in 1 .. created : ~ (f < g)
    BY <1>1
  <1> QED
    BY <1>1, <1>2, <1>3, <1>4 DEF Ordered, Numbered

LEMMA StillOrdered == ASSUME Ordered, Still PROVE Ordered'
  <1>1. /\ UNCHANGED <<disk, created, mtime, m_strBaseName, m_frLog, doomed, unread, entries, crossed,
                       restarts, nameChanges>>
        /\ purger' = "list" <=> purger = "list"
        /\ Base' = Base /\ Doomed' = Doomed /\ Straight' = Straight
    BY DEF Still, files, naming, listing, Base, Doomed, Straight
  <1> QED
    BY <1>1 DEF Ordered

LEMMA OpenDirOrdered == ASSUME IInv, Ordered, OpenDir PROVE Ordered'
  <1>1. /\ UNCHANGED <<disk, created, mtime, m_strBaseName, m_frLog, entries, doomed, restarts, nameChanges>>
        /\ Base' = Base /\ Doomed' = Doomed /\ purger = "woken"
        /\ unread' = Links(disk) /\ Straight' = Straight
    BY DEF OpenDir, files, memory, naming, history, Base, Doomed, Straight
  <1>2. DOMAIN entries = {} /\ doomed = {} /\ Doomed = {}
    BY <1>1 DEF IInv, Listed, Doomed
  <1>3. nameChanges = 0 => \A link \in Links(disk) : link[1][1] = Configured
    BY LinkOf DEF Ordered
  <1> QED
    BY <1>1, <1>2, <1>3 DEF Ordered

LEMMA ReadEntryOrdered == ASSUME IInv, Ordered, ReadEntry PROVE Ordered'
  <1>1. /\ UNCHANGED <<disk, created, mtime, m_strBaseName, m_frLog, doomed, purger, crossed, restarts,
                       nameChanges>>
        /\ Base' = Base /\ Doomed' = Doomed /\ purger = "list" /\ Straight' = Straight
    BY DEF ReadEntry, files, memory, naming, history, Base, Doomed, Straight
  <1>2. PICK link \in unread :
           /\ unread' = unread \ {link}
           /\ entries' = [l \in DOMAIN entries \cup {link} |->
                             IF l = link THEN TimeOf(link[1]) ELSE entries[l]]
    BY DEF ReadEntry
  <1>3. /\ DOMAIN entries' = DOMAIN entries \cup {link}
        /\ \A l \in DOMAIN entries' : entries'[l] = IF l = link THEN TimeOf(link[1]) ELSE entries[l]
    BY <1>2
  <1>4. ASSUME crossed # "now"
        PROVE  link[2] \in 1 .. created /\ TimeOf(link[1]) = mtime[link[2]]
    <2>1. link \in Links(disk)
      BY <1>1, <1>2, <1>4 DEF IInv, Listed
    <2>2. disk[link[1]] = link[2] /\ link[2] # 0 /\ link[1] \in Names
      BY <2>1, LinkOf
    <2> QED
      BY <2>2, Bounds DEF TimeOf, IInv, Typed
  <1>5. Straight /\ crossed # "now" =>
           \A l \in DOMAIN entries', g \in 1 .. created : g < l[2] => mtime[g] < entries'[l]
    BY <1>1, <1>3, <1>4 DEF Ordered
  <1>6. unread' \cup DOMAIN entries' = unread \cup DOMAIN entries
    BY <1>2, <1>3
  <1> QED
    BY <1>1, <1>5, <1>6 DEF Ordered

LEMMA ListDoneOrdered == ASSUME IInv, Ordered, ListDone PROVE Ordered'
  <1>1. /\ UNCHANGED <<disk, created, mtime, m_strBaseName, m_frLog, unread, crossed, restarts, nameChanges>>
        /\ Base' = Base /\ purger = "list" /\ purger' = "delete" /\ unread = {} /\ Straight' = Straight
        /\ DOMAIN entries' = {} /\ doomed' \subseteq DOMAIN entries
    BY OldestDoes DEF ListDone, files, memory, naming, history, Base, NoEntries, Straight
  <1>2. ASSUME Straight, crossed # "now" PROVE Base \notin Doomed'
    <2>1. ASSUME NEW link \in DOMAIN entries, link[1] = Base, NEW g \in 1 .. created \ {link[2]}
          PROVE  mtime[g] < entries[link]
      <3>1. link \in Links(disk)
        BY <1>1, <1>2, <2>1 DEF IInv, Listed
      <3>2. link[2] = disk[Base] /\ link[2] # 0
        BY <2>1, <3>1, LinkOf
      <3>3. link[2] = created
        BY <1>2, <3>2 DEF Ordered
      <3>4. g < link[2]
        BY <3>3, Bounds
      <3> QED
        BY <3>4, <1>1, <1>2 DEF Ordered
    <2> QED
      BY <1>2, <2>1, ListSparesBase
  <1> QED
    BY <1>1, <1>2 DEF Ordered

LEMMA DeleteOrdered == ASSUME IInv, Ordered, DeleteFile PROVE Ordered'
  <1>1. /\ UNCHANGED <<created, mtime, m_strBaseName, m_frLog, purger, unread, entries, crossed, restarts,
                       nameChanges>>
        /\ Base' = Base /\ Straight' = Straight /\ purger = "delete"
    BY DeleteDoes DEF Straight
  <1>2. PICK gone \in doomed :
           /\ doomed' = doomed \ {gone}
           /\ \A name \in Names : disk'[name] = IF name = gone[1] THEN 0 ELSE disk[name]
    BY DeleteDoes
  <1>3. disk'[Base] \in {0, disk[Base]} /\ Doomed' \subseteq Doomed
    BY <1>2, Bounds DEF Doomed
  <1> QED
    BY <1>1, <1>2, <1>3 DEF Ordered

LEMMA OpenExistingOrdered == ASSUME IInv, Ordered, OpenFirst \/ OpenNext, OpenExisting PROVE Ordered'
  <1>1. /\ UNCHANGED <<disk, created, mtime, unread, entries, doomed, crossed, purger, restarts, nameChanges>>
        /\ Base' = Base /\ Doomed' = Doomed /\ m_frLog' = disk[Base] /\ Straight' = Straight
    BY OpenStays DEF OpenExisting, listing, Straight
  <1> QED
    BY <1>1 DEF Ordered

LEMMA CreateOrdered == ASSUME IInv, Ordered, OpenFirst \/ OpenNext, CreateFile PROVE Ordered'
  <1>1. /\ UNCHANGED <<doomed, entries, purger, restarts, nameChanges>>
        /\ Base' = Base /\ Doomed' = Doomed /\ Straight' = Straight
    BY OpenStays DEF Straight
  <1>2. /\ created' = created + 1 /\ clock' = clock + 1 /\ 1 .. created' = 1 .. created \cup {created'}
        /\ disk'[Base] = created' /\ m_frLog' = created'
        /\ \A name \in Names \ {Base} : disk'[name] = disk[name]
        /\ mtime'[created'] = clock' /\ \A f \in 1 .. created : mtime'[f] = mtime[f]
        /\ unread' \subseteq unread \cup {<<Base, created'>>}
        /\ purger # "list" => unread' = unread /\ crossed' = crossed
        /\ purger = "list" => crossed' = "now"
    BY CreateDoes
  <1>3. nameChanges = 0 => Base[1] = Configured
    BY DEF IInv, Kept, Base, Numbered
  <1>4. Straight => \A f, g \in 1 .. created' : f < g => mtime'[f] < mtime'[g]
    <2> SUFFICES ASSUME Straight, NEW f \in 1 .. created', NEW g \in 1 .. created', f < g
                 PROVE  mtime'[f] < mtime'[g]
      OBVIOUS
    <2>1. f \in 1 .. created /\ mtime'[f] = mtime[f] /\ mtime[f] \in 1 .. clock
      <3>1. f \in 1 .. created
        BY <1>2, Bounds
      <3> QED
        BY <3>1, <1>2, Bounds
    <2>2. CASE g = created'
      BY <2>1, <2>2, <1>2, Bounds
    <2>3. CASE g \in 1 .. created
      BY <2>1, <2>3, <1>2 DEF Ordered
    <2> QED
      BY <2>2, <2>3, <1>2
  <1>5. nameChanges' = 0 =>
              /\ \A name \in Names : disk'[name] # 0 => name[1] = Configured
              /\ \A link \in unread' \cup DOMAIN entries' \cup doomed' : link[1][1] = Configured
    BY <1>1, <1>2, <1>3 DEF Ordered
  <1> QED
    BY <1>1, <1>2, <1>4, <1>5 DEF Ordered

LEMMA WriteOrdered == ASSUME IInv, Ordered, AppendAtOnce \/ AppendAfterRotation PROVE Ordered'
  <1>1. /\ UNCHANGED <<disk, created, m_strBaseName, m_frLog, doomed, unread, entries, crossed, purger,
                       restarts, nameChanges>>
        /\ Base' = Base /\ Doomed' = Doomed /\ Straight' = Straight
    BY WriteDoes DEF Straight
  <1>2. /\ m_frLog # 0 /\ m_frLog \in 1 .. created
        /\ clock' = clock + 1 /\ mtime'[m_frLog] = clock'
        /\ \A f \in 1 .. created \ {m_frLog} : mtime'[f] = mtime[f]
    BY WriteDoes
  <1>3. Straight => \A f \in 1 .. created : f < created => mtime'[f] = mtime[f]
    BY <1>2, Bounds DEF Ordered
  <1>4. Straight => \A f, g \in 1 .. created : f < g => mtime'[f] < mtime'[g]
    <2> SUFFICES ASSUME Straight, NEW f \in 1 .. created, NEW g \in 1 .. created, f < g
                 PROVE  mtime'[f] < mtime'[g]
      OBVIOUS
    <2>1. mtime'[f] = mtime[f] /\ mtime[f] \in 1 .. clock
      BY <1>3, Bounds
    <2>2. CASE g = m_frLog
      BY <2>1, <2>2, <1>2, Bounds
    <2>3. CASE g # m_frLog
      BY <2>1, <2>3, <1>2 DEF Ordered
    <2> QED
      BY <2>2, <2>3
  <1>5. Straight /\ purger = "list" /\ crossed # "now" =>
           \A link \in DOMAIN entries, g \in 1 .. created : g < link[2] => mtime'[g] < entries[link]
    <2> SUFFICES ASSUME Straight, purger = "list", crossed # "now",
                        NEW link \in DOMAIN entries, NEW g \in 1 .. created, g < link[2]
                 PROVE  mtime'[g] < entries[link]
      OBVIOUS
    <2>1. link[2] \in 1 .. created
      BY DEF IInv, Listed
    <2>2. g < created
      BY <2>1, Bounds
    <2> QED
      BY <2>2, <1>3 DEF Ordered
  <1> QED
    BY <1>1, <1>4, <1>5 DEF Ordered

LEMMA MoveOrdered == ASSUME IInv, Ordered, Rename, MoveFile PROVE Ordered'
  <1> DEFINE next == Numbered(m_strBaseName, NextIndex)
  <1>1. /\ UNCHANGED <<created, mtime, doomed, entries, purger, restarts, nameChanges>>
        /\ Base' = Base /\ Doomed' = Doomed /\ Straight' = Straight /\ m_frLog' = 0
    BY RenameStays DEF Straight
  <1>2. /\ disk'[Base] = 0
        /\ \A name \in Names \ {Base, next} : disk'[name] = disk[name]
        /\ unread' \subseteq unread \cup {<<next, disk[Base]>>}
        /\ purger # "list" => unread' = unread /\ crossed' = crossed
        /\ purger = "list" => crossed' = "now"
    BY MoveDoes
  <1>3. nameChanges = 0 => next[1] = Configured
    BY DEF IInv, Kept, Numbered
  <1> HIDE DEF next
  <1>4. nameChanges' = 0 =>
              /\ \A name \in Names : disk'[name] # 0 => name[1] = Configured
              /\ \A link \in unread' \cup DOMAIN entries' \cup doomed' : link[1][1] = Configured
    BY <1>1, <1>2, <1>3 DEF Ordered
  <1> QED
    BY <1>1, <1>2, <1>4 DEF Ordered

LEMMA NothingToMoveOrdered == ASSUME IInv, Ordered, Rename, NothingToMove PROVE Ordered'
  <1>1. /\ UNCHANGED <<disk, created, mtime, doomed, unread, entries, crossed, purger, restarts, nameChanges>>
        /\ Base' = Base /\ Doomed' = Doomed /\ Straight' = Straight /\ m_frLog' = 0
    BY RenameStays DEF NothingToMove, Straight
  <1> QED
    BY <1>1 DEF Ordered

LEMMA SetNameOrdered == ASSUME IInv, Ordered, NEW base \in BaseNames, setLogFileName(base) PROVE Ordered'
  <1>1. /\ nameChanges' = nameChanges + 1 /\ m_strBaseName' = base /\ base # m_strBaseName
        /\ UNCHANGED <<disk, created, mtime, m_frLog, doomed, unread, entries, crossed, purger, restarts>>
        /\ Doomed' = Doomed
    BY DEF setLogFileName, files, purging, listing, Doomed
  <1>2. nameChanges' # 0 /\ nameChanges \in Nat
    BY <1>1 DEF IInv, Typed
  <1>3. ASSUME Straight' PROVE Straight /\ nameChanges = 0
    BY <1>1, <1>2, <1>3 DEF Straight
  <1>4. ASSUME Straight' PROVE disk[Base'] = 0 /\ Base' \notin Doomed
    <2>1. Base' \in Names /\ Base'[1] # Configured
      BY <1>1, <1>3, <1>4 DEF Base, Numbered, Names, IInv, Kept
    <2> QED
      BY <2>1, <1>3, <1>4 DEF Ordered, Doomed
  <1> QED
    BY <1>1, <1>2, <1>3, <1>4 DEF Ordered

LEMMA RestartOrdered == ASSUME IInv, Ordered, Restart PROVE Ordered'
  <1>1. /\ m_frLog' = 0 /\ m_strBaseName' = Configured /\ purger' = "start"
        /\ unread' = {} /\ DOMAIN entries' = {} /\ doomed' = {} /\ Doomed' = {}
        /\ restarts' = restarts + 1
        /\ UNCHANGED <<disk, created, mtime, nameChanges>>
    BY DEF Restart, files, NoEntries, Doomed
  <1>2. restarts' \in Nat /\ restarts' # 0
    BY <1>1 DEF Ordered
  <1>3. ASSUME Straight' PROVE Straight /\ Base' = Base
    BY <1>1, <1>2, <1>3 DEF Straight, Base, IInv, Kept
  <1> QED
    BY <1>1, <1>2, <1>3 DEF Ordered

LEMMA StepOrdered == ASSUME IInv, Ordered, [Next]_vars PROVE Ordered'
  <1>1. ASSUME OpenFirst \/ OpenNext PROVE Ordered'
    BY <1>1, OpenStays, OpenExistingOrdered, CreateOrdered
  <1>2. ASSUME Rename PROVE Ordered'
    BY <1>2, RenameStays, MoveOrdered, NothingToMoveOrdered
  <1>3. CASE WriterStep
    BY <1>1, <1>2, <1>3, QuietIsStill, StillOrdered, WriteOrdered DEF WriterStep
  <1>4. CASE PurgerStep
    BY <1>4, QuietIsStill, StillOrdered, OpenDirOrdered, ReadEntryOrdered, ListDoneOrdered, DeleteOrdered
       DEF PurgerStep
  <1> QED
    BY <1>3, <1>4, QuietIsStill, StillOrdered, SetNameOrdered, RestartOrdered DEF Next

-----------------------------------------------------------------------------
(* As long as no rotation replaces a file: the listing has no more entries *)
(* than the directory has names, or one more when a rotation crossed it    *)
(* (no more than one does, because its notification waits for the mutex),  *)
(* so that as many names are left as the limit says; and without that no   *)
(* doomed file is younger than one that stays.                             *)
OneIf(condition) == IF condition THEN 1 ELSE 0
Crossing == crossed = "now" /\ writer.at \in {"open", "notify"}

Purging ==
    ~ replaced =>
        /\ purger = "list" =>
              Cardinality(DOMAIN entries) + Cardinality(unread) <= Cardinality(Taken(disk)) + OneIf(Crossing)
        /\ doomed # {} =>
              Cardinality(Taken(disk)) + OneIf(crossed = "now") >= MaxFileNum + Cardinality(doomed)
        /\ crossed # "now" /\ Straight =>
              /\ doomed \subseteq Links(disk)
              /\ \A link \in doomed, name \in Taken(disk) \ Doomed : link[2] <= disk[name]

(* Counting.                                                               *)
LEMMA AtMostOneMore ==
    ASSUME NEW S, NEW T, NEW x, IsFiniteSet(S), T \subseteq S \cup {x}
    PROVE  IsFiniteSet(T) /\ Cardinality(T) \in Nat /\ Cardinality(S) \in Nat
           /\ Cardinality(T) <= Cardinality(S) + 1
  <1>1. /\ IsFiniteSet(S \cup {x})
        /\ Cardinality(S \cup {x}) = IF x \in S THEN Cardinality(S) ELSE Cardinality(S) + 1
    BY FS_AddElement
  <1>2. Cardinality(S) \in Nat /\ Cardinality(S \cup {x}) \in Nat
    BY <1>1, FS_CardinalityType
  <1>3. IsFiniteSet(T) /\ Cardinality(T) <= Cardinality(S \cup {x})
    BY <1>1, FS_Subset
  <1> QED
    BY <1>1, <1>2, <1>3, FS_CardinalityType

LEMMA TakenFinite ==
    ASSUME IInv, NEW d
    PROVE  IsFiniteSet(Taken(d)) /\ Cardinality(Taken(d)) \in Nat
  <1>1. IsFiniteSet(Taken(d))
    BY LinksFinite, FS_Subset DEF Taken
  <1> QED
    BY <1>1, FS_CardinalityType

LEMMA InitPurging == ASSUME Init PROVE Purging
  BY DEF Init, Purging

LEMMA StillPurging == ASSUME Purging, Still PROVE Purging'
  <1>1. /\ UNCHANGED <<disk, doomed, unread, entries, crossed, replaced, restarts, nameChanges>>
        /\ purger' = "list" <=> purger = "list"
        /\ purger = "list" => Crossing' = Crossing
        /\ Doomed' = Doomed /\ Straight' = Straight
    BY DEF Still, files, listing, Doomed, Straight, Crossing
  <1>2. Taken(disk)' = Taken(disk) /\ Links(disk)' = Links(disk)
    BY <1>1 DEF Taken, Links
  <1> QED
    BY <1>1, <1>2 DEF Purging, OneIf

LEMMA OpenDirPurging == ASSUME IInv, Purging, OpenDir PROVE Purging'
  <1>1. /\ disk' = disk /\ doomed' = doomed /\ DOMAIN entries' = DOMAIN entries
        /\ purger = "woken" /\ unread' = Links(disk)
    BY DEF OpenDir, files
  <1>2. DOMAIN entries = {} /\ doomed = {}
    BY <1>1 DEF IInv, Listed
  <1>3. Cardinality(Links(disk)) <= Cardinality(Taken(disk))
    <2> DEFINE link == [name \in Taken(disk) |-> <<name, disk[name]>>]
    <2>1. Links(disk) = {link[name] : name \in Taken(disk)}
      BY DEF Links
    <2>2. link \in Surjection(Taken(disk), Links(disk))
      BY <2>1 DEF Surjection
    <2> HIDE DEF link
    <2> QED
      BY <2>2, LinksFinite, FS_Surjection
  <1>4. Cardinality({}) = 0 /\ Cardinality(Taken(disk)) \in Nat /\ Cardinality(Links(disk)) \in Nat
    <2>1. IsFiniteSet(Links(disk))
      <3>1. IsFiniteSet(Names \X (1 .. created))
        <4>1. IsFiniteSet(1 .. created)
          BY Bounds, FS_Interval
        <4> QED
          BY <4>1, LinksFinite, FS_Product
      <3>2. Links(disk) \subseteq Names \X (1 .. created)
        BY Bounds DEF Links, Taken, IInv, Typed
      <3> QED
        BY <3>1, <3>2, FS_Subset
    <2> QED
      BY <2>1, LinksFinite, FS_CardinalityType, FS_EmptySet
  <1>5. Cardinality(DOMAIN entries') + Cardinality(unread') <= Cardinality(Taken(disk')) + OneIf(Crossing)'
    BY <1>1, <1>2, <1>3, <1>4 DEF OneIf
  <1>6. doomed' = {} /\ Doomed' = {}
    BY <1>1, <1>2 DEF Doomed
  <1> QED
    BY <1>5, <1>6 DEF Purging

LEMMA ReadEntryPurging == ASSUME IInv, Purging, ReadEntry PROVE Purging'
  <1>1. /\ UNCHANGED <<disk, doomed, replaced, crossed, writer, restarts, nameChanges>>
        /\ purger = "list" /\ purger' = "list"
        /\ Doomed' = Doomed /\ Straight' = Straight /\ Crossing' = Crossing
    BY DEF ReadEntry, files, memory, history, Doomed, Straight, Crossing
  <1>2. PICK link \in unread :
           /\ unread' = unread \ {link}
           /\ entries' = [l \in DOMAIN entries \cup {link} |->
                             IF l = link THEN TimeOf(link[1]) ELSE entries[l]]
    BY DEF ReadEntry
  <1>3. DOMAIN entries' = DOMAIN entries \cup {link}
    BY <1>2
  <1>4. /\ Cardinality(DOMAIN entries') <= Cardinality(DOMAIN entries) + 1
        /\ Cardinality(DOMAIN entries') \in Nat /\ Cardinality(DOMAIN entries) \in Nat
    BY <1>3, LinksFinite, AtMostOneMore
  <1>5. /\ Cardinality(unread') = Cardinality(unread) - 1 /\ Cardinality(unread) \in Nat
    BY <1>2, LinksFinite, FS_RemoveElement
  <1>6. Taken(disk') = Taken(disk) /\ Links(disk') = Links(disk)
    BY <1>1
  <1>7. Cardinality(Taken(disk)) \in Nat /\ OneIf(Crossing) \in Nat
    BY LinksFinite DEF OneIf
  <1> QED
    BY <1>1, <1>4, <1>5, <1>6, <1>7 DEF Purging, OneIf

LEMMA ListDonePurging == ASSUME IInv, Ordered, Purging, ListDone PROVE Purging'
  <1>1. /\ UNCHANGED <<disk, replaced, crossed, restarts, nameChanges>>
        /\ purger = "list" /\ purger' = "delete" /\ unread = {}
        /\ doomed' \subseteq DOMAIN entries /\ Straight' = Straight
    BY OldestDoes DEF ListDone, files, memory, history, Straight
  <1>2. Taken(disk') = Taken(disk) /\ Links(disk') = Links(disk)
    BY <1>1
  <1>3. ASSUME ~ replaced, doomed' # {}
        PROVE  Cardinality(Taken(disk)) + OneIf(crossed = "now") >= MaxFileNum + Cardinality(doomed')
    <2>1. Cardinality(DOMAIN entries) <= Cardinality(Taken(disk)) + OneIf(Crossing)
      <3>1. Cardinality(unread) = 0 /\ Cardinality(DOMAIN entries) \in Nat
        BY <1>1, LinksFinite, FS_EmptySet
      <3>2. Cardinality(DOMAIN entries) + Cardinality(unread) <= Cardinality(Taken(disk)) + OneIf(Crossing)
        BY <1>1, <1>3 DEF Purging
      <3> QED
        BY <3>1, <3>2
    <2>2. m_iMaxFileNum = MaxFileNum /\ MaxFileNum \in Nat
      BY <1>1, Bounds DEF IInv, Kept
    <2>3. Cardinality(doomed') # 0
      <3>1. IsFiniteSet(doomed')
        BY <1>1, LinksFinite, FS_Subset
      <3> QED
        BY <3>1, <1>3, FS_EmptySet
    <2>4. Cardinality(doomed') = Cardinality(DOMAIN entries) - MaxFileNum
      BY <2>2, <2>3, OldestDoes
    <2>5. OneIf(Crossing) <= OneIf(crossed = "now") /\ OneIf(Crossing) \in Nat
          /\ OneIf(crossed = "now") \in Nat
      BY DEF OneIf, Crossing
    <2> QED
      BY <2>1, <2>2, <2>4, <2>5, LinksFinite
  <1>4. ASSUME crossed # "now", Straight
        PROVE  /\ doomed' \subseteq Links(disk)
               /\ \A link \in doomed', name \in Taken(disk) \ Doomed' : link[2] <= disk[name]
    <2>1. DOMAIN entries = Links(disk) /\ \A link \in DOMAIN entries : entries[link] \in 1 .. mtime[link[2]]
      BY <1>1, <1>4 DEF IInv, Listed
    <2>2. ASSUME NEW link \in doomed', NEW name \in Taken(disk) \ Doomed' PROVE link[2] <= disk[name]
      <3> DEFINE other == <<name, disk[name]>>
      <3>1. other \in DOMAIN entries /\ other \notin doomed'
        BY <2>1 DEF Links, Doomed
      <3>2. entries[link] <= entries[other]
        BY <1>4, <3>1, OldestDoes
      <3>3. link \in DOMAIN entries /\ link[2] \in 1 .. created /\ disk[name] \in 1 .. created
        BY <1>1, <3>1 DEF IInv, Listed
      <3>4. entries[other] \in 1 .. mtime[disk[name]] /\ entries[link] \in 1 .. mtime[link[2]]
        BY <2>1, <3>1, <3>3
      <3>5. disk[name] < link[2] => mtime[disk[name]] < entries[link]
        BY <1>1, <1>4, <3>3 DEF Ordered
      <3>6. mtime[disk[name]] \in Nat /\ mtime[link[2]] \in Nat
        BY <3>3, Bounds
      <3> HIDE DEF other
      <3>7. ~ (disk[name] < link[2])
        BY <3>2, <3>4, <3>5, <3>6
      <3> QED
        BY <3>3, <3>7, Bounds
    <2> QED
      BY <1>1, <2>1, <2>2
  <1>5. /\ ~ replaced' /\ doomed' # {} =>
              Cardinality(Taken(disk')) + OneIf(crossed' = "now") >= MaxFileNum + Cardinality(doomed')
        /\ crossed' # "now" /\ Straight' =>
              /\ doomed' \subseteq Links(disk')
              /\ \A link \in doomed', name \in Taken(disk') \ Doomed' : link[2] <= disk'[name]
    BY <1>1, <1>2, <1>3, <1>4
  <1> QED
    BY <1>1, <1>5 DEF Purging

LEMMA DeletePurging == ASSUME IInv, Purging, DeleteFile PROVE Purging'
  <1>1. /\ UNCHANGED <<replaced, restarts, nameChanges, purger, crossed>>
        /\ purger = "delete" /\ Straight' = Straight
    BY DeleteDoes DEF Straight
  <1>2. PICK gone \in doomed :
           /\ doomed' = doomed \ {gone}
           /\ \A name \in Names : disk'[name] = IF name = gone[1] THEN 0 ELSE disk[name]
    BY DeleteDoes
  <1>3. Taken(disk') = Taken(disk) \ {gone[1]}
    BY <1>2 DEF Taken
  <1>4. ASSUME ~ replaced
        PROVE  Cardinality(Taken(disk')) + OneIf(crossed = "now") >= MaxFileNum + Cardinality(doomed')
    <2>1. Cardinality(Taken(disk)) + OneIf(crossed = "now") >= MaxFileNum + Cardinality(doomed)
      BY <1>4 DEF Purging
    <2>2. Cardinality(Taken(disk)) <= Cardinality(Taken(disk')) + 1
      <3>1. Taken(disk) \subseteq Taken(disk') \cup {gone[1]} /\ IsFiniteSet(Taken(disk'))
        BY <1>3, TakenFinite
      <3> QED
        BY <3>1, AtMostOneMore
    <2>3. Cardinality(doomed') = Cardinality(doomed) - 1 /\ Cardinality(doomed) \in Nat
      BY <1>2, LinksFinite, FS_RemoveElement
    <2>4. Cardinality(Taken(disk')) \in Nat /\ Cardinality(Taken(disk)) \in Nat
          /\ OneIf(crossed = "now") \in Nat
      BY TakenFinite DEF OneIf
    <2> QED
      BY <2>1, <2>2, <2>3, <2>4, Bounds
  <1>5. ASSUME ~ replaced, crossed # "now", Straight
        PROVE  /\ doomed' \subseteq Links(disk')
               /\ \A link \in doomed', name \in Taken(disk') \ Doomed' : link[2] <= disk'[name]
    <2>1. /\ doomed \subseteq Links(disk)
          /\ \A link \in doomed, name \in Taken(disk) \ Doomed : link[2] <= disk[name]
      BY <1>5 DEF Purging
    <2>2. ASSUME NEW link \in doomed' PROVE link \in Links(disk')
      <3>1. link \in Links(disk) /\ gone \in Links(disk) /\ link # gone
        BY <2>1, <1>2
      <3>2. link[1] \in Names /\ link = <<link[1], disk[link[1]]>> /\ disk[link[1]] # 0
            /\ gone = <<gone[1], disk[gone[1]]>>
        BY <3>1, LinkOf
      <3>3. link[1] # gone[1]
        BY <3>1, <3>2
      <3>4. disk'[link[1]] = disk[link[1]]
        BY <3>2, <3>3, <1>2
      <3> QED
        BY <3>2, <3>4 DEF Links, Taken
    <2>3. ASSUME NEW link \in doomed', NEW name \in Taken(disk') \ Doomed' PROVE link[2] <= disk'[name]
      <3>1. name \in Taken(disk) /\ name # gone[1] /\ name \in Names
        BY <1>3 DEF Taken
      <3>2. name \notin Doomed
        BY <3>1, <1>2 DEF Doomed
      <3>3. disk'[name] = disk[name]
        BY <3>1, <1>2
      <3> QED
        BY <3>1, <3>2, <3>3, <2>1, <1>2
    <2> QED
      BY <2>2, <2>3
  <1> QED
    BY <1>1, <1>4, <1>5 DEF Purging

LEMMA OpenExistingPurging == ASSUME IInv, Purging, OpenFirst \/ OpenNext, OpenExisting PROVE Purging'
  <1>1. /\ UNCHANGED <<disk, unread, entries, doomed, crossed, purger, replaced, restarts, nameChanges>>
        /\ Doomed' = Doomed /\ Straight' = Straight
    BY OpenStays DEF OpenExisting, listing, Straight
  <1>2. ~ Crossing
    <2>1. writer.at = "check"
      BY OpenStays DEF OpenFirst, OpenNext
    <2> QED
      BY <2>1 DEF Crossing
  <1>3. OneIf(Crossing) <= OneIf(Crossing)'
    BY <1>2 DEF OneIf
  <1>4. Cardinality(Taken(disk)) \in Nat /\ OneIf(Crossing) \in Nat /\ OneIf(Crossing)' \in Nat
        /\ Cardinality(unread) \in Nat /\ Cardinality(DOMAIN entries) \in Nat
    BY LinksFinite DEF OneIf
  <1>5. Taken(disk') = Taken(disk) /\ Links(disk') = Links(disk)
    BY <1>1
  <1> QED
    BY <1>1, <1>3, <1>4, <1>5 DEF Purging, OneIf

LEMMA CreatePurging == ASSUME IInv, Ordered, Purging, OpenFirst \/ OpenNext, CreateFile PROVE Purging'
  <1>1. /\ UNCHANGED <<doomed, entries, purger, replaced, restarts, nameChanges>>
        /\ Base' = Base /\ Doomed' = Doomed /\ Straight' = Straight
    BY OpenStays DEF Straight
  <1>2. /\ disk[Base] = 0 /\ created' = created + 1
        /\ disk'[Base] = created' /\ \A name \in Names \ {Base} : disk'[name] = disk[name]
        /\ unread' \subseteq unread \cup {<<Base, created'>>}
        /\ purger # "list" => unread' = unread /\ crossed' = crossed
        /\ purger = "list" => crossed' = "now"
    BY CreateDoes
  <1>3. Base \in Names /\ created \in Nat /\ created' # 0
    BY <1>2, Bounds
  <1>4. Taken(disk') = Taken(disk) \cup {Base} /\ Base \notin Taken(disk)
    BY <1>2, <1>3 DEF Taken
  <1>5. /\ Cardinality(Taken(disk')) = Cardinality(Taken(disk)) + 1
        /\ Cardinality(Taken(disk')) \in Nat /\ Cardinality(Taken(disk)) \in Nat
    BY <1>4, TakenFinite, FS_AddElement
  <1>6. /\ Cardinality(unread') <= Cardinality(unread) + 1
        /\ Cardinality(unread') \in Nat /\ Cardinality(unread) \in Nat
        /\ Cardinality(DOMAIN entries) \in Nat /\ Cardinality(doomed) \in Nat
    BY <1>2, LinksFinite, AtMostOneMore
  <1>7. ASSUME purger = "list" PROVE OneIf(Crossing) <= OneIf(Crossing)'
    <2>1. crossed' = "now"
      BY <1>2, <1>7
    <2>2. writer.at \in {"open", "notify"} => writer'.at \in {"open", "notify"}
      <3>1. CASE OpenFirst
        BY <3>1 DEF OpenFirst
      <3>2. CASE OpenNext
        <4>1. writer' \in [at : {"notify"}, msg : MsgSizes]
          BY <3>2 DEF OpenNext, IInv, Typed, Idle
        <4> QED
          BY <4>1
      <3> QED
        BY <3>1, <3>2
    <2> QED
      BY <2>1, <2>2 DEF OneIf, Crossing
  <1>8. OneIf(Crossing) \in Nat /\ OneIf(Crossing)' \in Nat
    BY DEF OneIf
  <1>9. ASSUME ~ replaced, purger = "list"
        PROVE  Cardinality(DOMAIN entries) + Cardinality(unread') <= Cardinality(Taken(disk')) + OneIf(Crossing)'
    <2>1. Cardinality(DOMAIN entries) + Cardinality(unread) <= Cardinality(Taken(disk)) + OneIf(Crossing)
      BY <1>9 DEF Purging
    <2> QED
      BY <2>1, <1>5, <1>6, <1>7, <1>8, <1>9
  <1>10. ASSUME ~ replaced, doomed # {}
         PROVE  Cardinality(Taken(disk')) + OneIf(crossed' = "now") >= MaxFileNum + Cardinality(doomed)
    <2>1. Cardinality(Taken(disk)) + OneIf(crossed = "now") >= MaxFileNum + Cardinality(doomed)
      BY <1>10 DEF Purging
    <2>2. crossed' = crossed
      BY <1>2, <1>10 DEF IInv, Listed
    <2>3. OneIf(crossed = "now") \in Nat
      BY DEF OneIf
    <2> QED
      BY <2>1, <2>2, <2>3, <1>5, <1>6, Bounds
  <1>11. ASSUME ~ replaced, crossed' # "now", Straight
         PROVE  /\ doomed \subseteq Links(disk')
                /\ \A link \in doomed, name \in Taken(disk') \ Doomed : link[2] <= disk'[name]
    <2>1. crossed # "now"
      BY <1>2, <1>11
    <2>2. /\ doomed \subseteq Links(disk) /\ Base \notin Doomed
          /\ \A link \in doomed, name \in Taken(disk) \ Doomed : link[2] <= disk[name]
      BY <2>1, <1>11 DEF Purging, Ordered
    <2>3. ASSUME NEW link \in doomed PROVE link \in Links(disk')
      <3>1. link[1] \in Names /\ link = <<link[1], disk[link[1]]>> /\ disk[link[1]] # 0
        BY <2>2, LinkOf
      <3>2. disk'[link[1]] = disk[link[1]]
        BY <3>1, <1>2
      <3> QED
        BY <3>1, <3>2 DEF Links, Taken
    <2>4. ASSUME NEW link \in doomed, NEW name \in Taken(disk') \ Doomed PROVE link[2] <= disk'[name]
      <3>1. CASE name = Base
        <4>1. link[2] \in 1 .. created
          BY DEF IInv, Listed
        <4> QED
          BY <4>1, <3>1, <1>2, Bounds
      <3>2. CASE name # Base
        <4>1. name \in Taken(disk) /\ disk'[name] = disk[name]
          BY <3>2, <1>2, <1>4 DEF Taken
        <4> QED
          BY <4>1, <2>2
      <3> QED
        BY <3>1, <3>2
    <2> QED
      BY <2>3, <2>4
  <1> QED
    BY <1>1, <1>9, <1>10, <1>11 DEF Purging

(* A file that is moved to a free index keeps all the others.              *)
LEMMA MoveTakes ==
    ASSUME IInv, Rename, MoveFile, ~ replaced'
    PROVE  LET next == Numbered(m_strBaseName, NextIndex) IN
           /\ ~ replaced /\ disk[next] = 0 /\ next \in Names /\ next # Base
           /\ Taken(disk') = (Taken(disk) \ {Base}) \cup {next}
           /\ Base \in Taken(disk) /\ next \notin Taken(disk)
           /\ Cardinality(Taken(disk')) = Cardinality(Taken(disk))
  <1> DEFINE next == Numbered(m_strBaseName, NextIndex)
  <1>1. /\ next \in Names /\ next # Base
        /\ disk[Base] \in 1 .. created
        /\ disk'[Base] = 0 /\ disk'[next] = disk[Base]
        /\ \A name \in Names \ {Base, next} : disk'[name] = disk[name]
        /\ replaced' = (replaced \/ disk[next] # 0)
    BY MoveDoes
  <1> HIDE DEF next
  <1>2. disk[next] = 0 /\ disk[Base] # 0 /\ Base \in Names /\ ~ replaced
    <2>1. ~ (replaced \/ disk[next] # 0)
      BY <1>1, Zenon
    <2>2. disk[Base] # 0 /\ Base \in Names
      BY <1>1, Bounds
    <2> QED
      BY <2>1, <2>2, Zenon
  <1>3. /\ Taken(disk') = (Taken(disk) \ {Base}) \cup {next}
        /\ Base \in Taken(disk) /\ next \notin Taken(disk)
    BY <1>1, <1>2 DEF Taken
  <1>4. Cardinality(Taken(disk')) = Cardinality(Taken(disk))
    <2>1. IsFiniteSet(Taken(disk) \ {Base}) /\ Cardinality(Taken(disk) \ {Base}) = Cardinality(Taken(disk)) - 1
      BY <1>3, LinksFinite, FS_RemoveElement
    <2>2. Cardinality((Taken(disk) \ {Base}) \cup {next}) = Cardinality(Taken(disk) \ {Base}) + 1
      BY <2>1, <1>3, FS_AddElement
    <2> QED
      BY <2>1, <2>2, <1>3, LinksFinite
  <1> QED
    BY <1>1, <1>2, <1>3, <1>4 DEF next

LEMMA MovePurging == ASSUME IInv, Ordered, Purging, Rename, MoveFile PROVE Purging'
  <1> SUFFICES ASSUME ~ replaced' PROVE Purging'
    BY DEF Purging
  <1> DEFINE next == Numbered(m_strBaseName, NextIndex)
  <1>1. /\ UNCHANGED <<created, doomed, entries, purger, restarts, nameChanges>>
        /\ Base' = Base /\ Doomed' = Doomed /\ Straight' = Straight
        /\ writer' \in [at : {"open"}, msg : MsgSizes] /\ writer.at = "check"
    BY RenameStays DEF Straight
  <1>2. /\ disk'[Base] = 0 /\ disk'[next] = disk[Base]
        /\ \A name \in Names \ {Base, next} : disk'[name] = disk[name]
        /\ unread' \subseteq unread \cup {<<next, disk[Base]>>}
        /\ purger # "list" => unread' = unread /\ crossed' = crossed
        /\ purger = "list" => crossed' = "now"
    BY MoveDoes
  <1>3. /\ ~ replaced /\ disk[next] = 0 /\ next \in Names /\ next # Base
        /\ Taken(disk') = (Taken(disk) \ {Base}) \cup {next}
        /\ Base \in Taken(disk) /\ next \notin Taken(disk)
        /\ Cardinality(Taken(disk')) = Cardinality(Taken(disk))
    BY MoveTakes
  <1> HIDE DEF next
  <1>4. /\ Cardinality(unread') <= Cardinality(unread) + 1
        /\ Cardinality(unread') \in Nat /\ Cardinality(unread) \in Nat
        /\ Cardinality(DOMAIN entries) \in Nat /\ Cardinality(Taken(disk)) \in Nat
    BY <1>2, LinksFinite, AtMostOneMore
  <1>5. ASSUME purger = "list"
        PROVE  Cardinality(DOMAIN entries) + Cardinality(unread') <= Cardinality(Taken(disk')) + OneIf(Crossing)'
    <2>1. Cardinality(DOMAIN entries) + Cardinality(unread) <= Cardinality(Taken(disk)) + OneIf(Crossing)
      BY <1>3, <1>5 DEF Purging
    <2>2. OneIf(Crossing) = 0 /\ OneIf(Crossing)' = 1
      BY <1>1, <1>2, <1>5 DEF OneIf, Crossing
    <2> QED
      BY <2>1, <2>2, <1>3, <1>4
  <1>6. ASSUME doomed # {}
        PROVE  Cardinality(Taken(disk')) + OneIf(crossed' = "now") >= MaxFileNum + Cardinality(doomed)
    <2>1. Cardinality(Taken(disk)) + OneIf(crossed = "now") >= MaxFileNum + Cardinality(doomed)
      BY <1>3, <1>6 DEF Purging
    <2>2. crossed' = crossed
      BY <1>2, <1>6 DEF IInv, Listed
    <2> QED
      BY <2>1, <2>2, <1>3
  <1>7. ASSUME crossed' # "now", Straight
        PROVE  /\ doomed \subseteq Links(disk')
               /\ \A link \in doomed, name \in Taken(disk') \ Doomed : link[2] <= disk'[name]
    <2>1. crossed # "now"
      BY <1>2, <1>7
    <2>2. /\ doomed \subseteq Links(disk) /\ Base \notin Doomed
          /\ \A link \in doomed, name \in Taken(disk) \ Doomed : link[2] <= disk[name]
      BY <2>1, <1>3, <1>7 DEF Purging, Ordered
    <2>3. ASSUME NEW link \in doomed PROVE link \in Links(disk')
      <3>1. link[1] \in Names /\ link = <<link[1], disk[link[1]]>> /\ disk[link[1]] # 0
        BY <2>2, LinkOf
      <3>2. link[1] # Base /\ link[1] # next
        BY <3>1, <2>2, <1>3 DEF Doomed
      <3>3. disk'[link[1]] = disk[link[1]]
        BY <3>1, <3>2, <1>2
      <3> QED
        BY <3>1, <3>3 DEF Links, Taken
    <2>4. ASSUME NEW link \in doomed, NEW name \in Taken(disk') \ Doomed PROVE link[2] <= disk'[name]
      <3>1. CASE name = next
        BY <3>1, <2>2, <1>2, <1>3
      <3>2. CASE name # next
        <4>1. name \in Taken(disk) /\ disk'[name] = disk[name]
          BY <3>2, <1>2, <1>3 DEF Taken
        <4> QED
          BY <4>1, <2>2
      <3> QED
        BY <3>1, <3>2
    <2> QED
      BY <2>3, <2>4
  <1> QED
    BY <1>1, <1>5, <1>6, <1>7 DEF Purging

LEMMA NothingToMovePurging == ASSUME IInv, Purging, Rename, NothingToMove PROVE Purging'
  <1>1. /\ UNCHANGED <<disk, doomed, unread, entries, crossed, purger, replaced, restarts, nameChanges>>
        /\ Doomed' = Doomed /\ Straight' = Straight /\ writer.at = "check"
    BY RenameStays DEF NothingToMove, Straight
  <1>2. OneIf(Crossing) <= OneIf(Crossing)' /\ OneIf(Crossing) \in Nat /\ OneIf(Crossing)' \in Nat
    BY <1>1 DEF OneIf, Crossing
  <1>3. Cardinality(Taken(disk)) \in Nat /\ Cardinality(unread) \in Nat /\ Cardinality(DOMAIN entries) \in Nat
    BY LinksFinite
  <1>4. Taken(disk') = Taken(disk) /\ Links(disk') = Links(disk)
    BY <1>1
  <1> QED
    BY <1>1, <1>2, <1>3, <1>4 DEF Purging, OneIf

LEMMA SetNamePurging == ASSUME IInv, Ordered, Purging, NEW base \in BaseNames, setLogFileName(base) PROVE Purging'
  <1>1. /\ nameChanges' = nameChanges + 1 /\ writer' = writer
        /\ UNCHANGED <<disk, doomed, unread, entries, crossed, purger, replaced, restarts>>
        /\ Doomed' = Doomed /\ Crossing' = Crossing
    BY DEF setLogFileName, files, purging, listing, Doomed, Crossing
  <1>2. Straight' => Straight
    BY <1>1 DEF Straight, IInv, Typed
  <1>3. Taken(disk') = Taken(disk) /\ Links(disk') = Links(disk)
    BY <1>1
  <1> QED
    BY <1>1, <1>2, <1>3 DEF Purging, OneIf

LEMMA RestartPurging == ASSUME Restart PROVE Purging'
  <1>1. purger' = "start" /\ doomed' = {}
    BY DEF Restart
  <1> QED
    BY <1>1 DEF Purging

LEMMA StepPurging == ASSUME IInv, Ordered, Purging, [Next]_vars PROVE Purging'
  <1>1. ASSUME OpenFirst \/ OpenNext PROVE Purging'
    BY <1>1, OpenStays, OpenExistingPurging, CreatePurging
  <1>2. ASSUME Rename PROVE Purging'
    BY <1>2, RenameStays, MovePurging, NothingToMovePurging
  <1>3. ASSUME AppendAtOnce \/ AppendAfterRotation PROVE Purging'
    <2>1. /\ UNCHANGED <<disk, doomed, unread, entries, crossed, purger, replaced, restarts, nameChanges>>
          /\ Doomed' = Doomed /\ Straight' = Straight
          /\ writer.at \in {"check", "append"}
      BY <1>3, WriteDoes DEF Straight
    <2>2. OneIf(Crossing) = 0 /\ OneIf(Crossing)' \in Nat
      BY <2>1 DEF OneIf, Crossing
    <2>3. Cardinality(Taken(disk)) \in Nat /\ Cardinality(unread) \in Nat /\ Cardinality(DOMAIN entries) \in Nat
      BY LinksFinite
    <2>4. Taken(disk') = Taken(disk) /\ Links(disk') = Links(disk)
      BY <2>1
    <2> QED
      BY <2>1, <2>2, <2>3, <2>4 DEF Purging, OneIf
  <1>4. CASE WriterStep
    BY <1>1, <1>2, <1>3, <1>4, QuietIsStill, StillPurging DEF WriterStep
  <1>5. CASE PurgerStep
    BY <1>5, QuietIsStill, StillPurging, OpenDirPurging, ReadEntryPurging, ListDonePurging, DeletePurging
       DEF PurgerStep
  <1> QED
    BY <1>4, <1>5, QuietIsStill, StillPurging, SetNamePurging, RestartPurging DEF Next

-----------------------------------------------------------------------------
(* Which indices have files, as long as the base name stays: the index goes*)
(* on from the youngest rotated file, either from the one that an earlier  *)
(* program left with the largest index, or from index 0 with no more       *)
(* rotations behind it than files were created.                            *)
RotatedFile(i) == disk[Numbered(Configured, i)]
Rotations == IF m_frLog = 0 /\ disk[Base] = 0 THEN created ELSE created - 1
LastIndex == IndexMod - 1

FromLast ==
    /\ m_iCurrentIndex = LastIndex /\ Rotations >= 1 /\ ~ hasExt
    /\ \A i \in Indices : RotatedFile(i) # 0 => i = LastIndex

FromFirst ==
    /\ m_iCurrentIndex <= Rotations
    /\ \A i \in Indices : RotatedFile(i) # 0 => i = LastIndex \/ i <= m_iCurrentIndex
    /\ RotatedFile(0) # 0 => m_iCurrentIndex <= Rotations - 2 /\ ~ hasExt
    /\ RotatedFile(LastIndex) # 0 /\ m_iCurrentIndex # LastIndex =>
          /\ m_iCurrentIndex <= Rotations - 2
          /\ \A i \in Indices \ {LastIndex} :
                RotatedFile(i) # 0 => RotatedFile(i) > RotatedFile(LastIndex)

Indexed ==
    /\ hasExt \in BOOLEAN
    /\ nameChanges = 0 /\ resumed =>
          /\ created <= IndexMod => ~ replaced
          /\ Rotations < IndexMod => FromLast \/ FromFirst

LEMMA IndexBounds ==
    ASSUME IInv
    PROVE  /\ IndexMod \in Nat /\ IndexMod >= 1 /\ LastIndex \in Nat /\ LastIndex \in Indices
           /\ 0 \in Indices /\ LastIndex = IndexMod - 1
           /\ m_iCurrentIndex \in Indices /\ m_iCurrentIndex \in Nat
           /\ \A i \in Indices : i \in Nat /\ i < IndexMod
           /\ \A i \in Indices : Numbered(Configured, i) \in Names /\ Numbered(Configured, i) # Base
           /\ \A i \in Indices : RotatedFile(i) \in 0 .. created /\ RotatedFile(i) \in Nat
           /\ created \in Nat /\ Rotations \in Nat /\ disk[Base] \in 0 .. created /\ created >= Rotations
  <1>1. /\ IndexMod \in Nat /\ IndexMod >= 1 /\ LastIndex \in Nat /\ LastIndex \in Indices
        /\ 0 \in Indices /\ LastIndex = IndexMod - 1
        /\ \A i \in Indices : i \in Nat /\ i < IndexMod
    BY LogRotationAssumption DEF LastIndex, Indices
  <1>2. ASSUME NEW i \in Indices
        PROVE  /\ Numbered(Configured, i) \in Names /\ Numbered(Configured, i) # Base
               /\ RotatedFile(i) \in 0 .. created /\ RotatedFile(i) \in Nat
    <2>1. Numbered(Configured, i) \in Names /\ Numbered(Configured, i) # Base
      BY <1>1, LogRotationAssumption DEF Numbered, Names, Base, NoIndex
    <2>2. RotatedFile(i) \in 0 .. created /\ created \in Nat
      BY <2>1, Bounds DEF IInv, Typed, RotatedFile
    <2> QED
      BY <2>1, <2>2
  <1>3. created \in Nat /\ disk[Base] \in 0 .. created /\ m_frLog \in 0 .. created
    BY Bounds DEF IInv, Typed
  <1>4. Rotations \in Nat /\ created >= Rotations
    BY <1>3 DEF Rotations
  <1>5. m_iCurrentIndex \in Indices
    BY DEF IInv, Typed
  <1> QED
    BY <1>1, <1>2, <1>3, <1>4, <1>5

(* The file of the base name is younger than all the rotated ones.         *)
LEMMA BaseIsYoungest ==
    ASSUME IInv, Ordered, nameChanges = 0, disk[Base] # 0, NEW i \in Indices
    PROVE  RotatedFile(i) < disk[Base]
  <1>1. disk[Base] = created /\ Base \in Names
    BY Bounds DEF Ordered, Straight
  <1>2. RotatedFile(i) \in 0 .. created /\ Numbered(Configured, i) \in Names
        /\ Numbered(Configured, i) # Base /\ created \in Nat
    BY IndexBounds
  <1>3. RotatedFile(i) # 0 => RotatedFile(i) # disk[Base]
    BY <1>1, <1>2 DEF RotatedFile, IInv, Dated
  <1> QED
    BY <1>1, <1>2, <1>3

LEMMA InitIndexed == ASSUME Init, IInv PROVE Indexed
  <1>1. /\ hasExt \in BOOLEAN /\ nameChanges = 0 /\ ~ replaced /\ m_frLog = 0
        /\ m_iCurrentIndex = FindMaxFileIndex(disk, hasExt)
        /\ resumed = Resumes(disk, Configured, m_iCurrentIndex)
        /\ m_strBaseName = Configured
    BY LogRotationAssumption DEF Init
  <1>2. Base = Numbered(Configured, NoIndex)
    BY <1>1 DEF Base
  <1>3. CASE created = 0
    <2>1. \A name \in Names : disk[name] = 0
      BY <1>3 DEF Init
    <2>2. \A i \in Indices : RotatedFile(i) = 0
      BY <2>1, IndexBounds DEF RotatedFile
    <2>3. Rotations = 0
      BY <1>3, <1>1, <2>1, Bounds DEF Rotations
    <2>4. FoundIndices(disk, hasExt) = {}
      BY <2>1, LogRotationAssumption DEF FoundIndices, Rotated, Numbered, Names
    <2>5. m_iCurrentIndex = 0
      BY <1>1, <2>4 DEF FindMaxFileIndex
    <2>6. FromFirst
      BY <2>2, <2>3, <2>5, IndexBounds DEF FromFirst
    <2> QED
      BY <1>1, <2>3, <2>6 DEF Indexed
  <1>4. CASE created # 0
    <2>1. created = 1 /\ \A name \in Names : disk[name] = IF name = <<Configured, LastIndex>> THEN 1 ELSE 0
      BY <1>4 DEF Init, Numbered, LastIndex
    <2>2. \A i \in Indices : RotatedFile(i) = IF i = LastIndex THEN 1 ELSE 0
      BY <2>1, IndexBounds DEF RotatedFile, Numbered
    <2>3. Rotations = 1
      BY <2>1, <1>1, <1>2, IndexBounds, Bounds DEF Rotations, Numbered, NoIndex
    <2>4. CASE hasExt
      <3>1. m_iCurrentIndex = 0
        BY <1>1, <2>4 DEF FindMaxFileIndex, FoundIndices
      <3>2. ASSUME resumed PROVE LastIndex = 0
        <4>1. LastIndex \in Rotated(disk, Configured)
          BY <2>2, IndexBounds DEF Rotated, RotatedFile
        <4>2. PICK b \in BaseNames : \A c \in BaseNames : \A j \in Rotated(disk, c) :
                 disk[Numbered(b, 0)] # 0
          BY <1>1, <3>1, <3>2, <4>1 DEF Resumes
        <4>3. disk[Numbered(b, 0)] # 0
          BY <4>1, <4>2, LogRotationAssumption
        <4>4. Numbered(b, 0) \in Names
          BY IndexBounds DEF Numbered, Names
        <4> QED
          BY <4>3, <4>4, <2>1 DEF Numbered
      <3>3. LastIndex = 0 => IndexMod = 1
        BY IndexBounds
      <3>4. resumed => ~ (Rotations < IndexMod)
        BY <2>3, <3>2, <3>3
      <3> QED
        BY <1>1, <3>4 DEF Indexed
    <2>5. CASE ~ hasExt
      <3>1. Rotated(disk, Configured) = {LastIndex}
        BY <2>2, IndexBounds DEF Rotated, RotatedFile
      <3>2. \A base \in BaseNames \ {Configured} : Rotated(disk, base) = {}
        BY <2>1 DEF Rotated, Numbered, Names
      <3>3. FoundIndices(disk, hasExt) = {LastIndex}
        BY <2>5, <3>1, <3>2, LogRotationAssumption DEF FoundIndices
      <3>4. m_iCurrentIndex = LastIndex
        <4>1. m_iCurrentIndex = Max({LastIndex})
          BY <1>1, <3>3 DEF FindMaxFileIndex
        <4> QED
          BY <4>1, IndexBounds DEF Max
      <3>5. FromLast
        BY <2>2, <2>3, <2>5, <3>4 DEF FromLast
      <3> QED
        BY <1>1, <3>5 DEF Indexed
    <2> QED
      BY <2>4, <2>5
  <1> QED
    BY <1>3, <1>4

LEMMA StaysBelow ==
    ASSUME NEW i \in Nat, NEW m \in Nat, NEW n \in Nat, m <= n, i <= m - 2 PROVE i <= n - 2
  OBVIOUS

LEMMA FirstStays ==
    ASSUME IInv, FromFirst,
           UNCHANGED <<hasExt, m_iCurrentIndex>>,
           \A i \in Indices : RotatedFile(i)' = 0 \/ RotatedFile(i)' = RotatedFile(i),
           Rotations' \in Nat, Rotations' >= Rotations
    PROVE  FromFirst'
  <1>1. /\ LastIndex \in Indices /\ 0 \in Indices
        /\ Rotations \in Nat /\ Rotations' \in Nat /\ Rotations' >= Rotations /\ m_iCurrentIndex \in Nat
    BY IndexBounds
  <1>2. m_iCurrentIndex' <= Rotations'
    BY <1>1 DEF FromFirst
  <1>3. \A i \in Indices : RotatedFile(i)' # 0 => i = LastIndex \/ i <= m_iCurrentIndex'
    BY DEF FromFirst
  <1>4. m_iCurrentIndex <= Rotations - 2 => m_iCurrentIndex' <= Rotations' - 2
    BY <1>1, StaysBelow
  <1>5. RotatedFile(0)' # 0 => m_iCurrentIndex' <= Rotations' - 2 /\ ~ hasExt'
    <2>1. RotatedFile(0)' # 0 => RotatedFile(0) # 0
      BY <1>1
    <2> QED
      BY <2>1, <1>4 DEF FromFirst
  <1>6. ASSUME RotatedFile(LastIndex)' # 0, m_iCurrentIndex' # LastIndex
        PROVE  /\ m_iCurrentIndex' <= Rotations' - 2
               /\ \A i \in Indices \ {LastIndex} :
                     RotatedFile(i)' # 0 => RotatedFile(i)' > RotatedFile(LastIndex)'
    <2>1. RotatedFile(LastIndex)' = RotatedFile(LastIndex) /\ RotatedFile(LastIndex) # 0
      BY <1>1, <1>6
    <2>2. /\ m_iCurrentIndex <= Rotations - 2
          /\ \A i \in Indices \ {LastIndex} :
                RotatedFile(i) # 0 => RotatedFile(i) > RotatedFile(LastIndex)
      BY <2>1, <1>6 DEF FromFirst
    <2>3. ASSUME NEW i \in Indices \ {LastIndex}, RotatedFile(i)' # 0
          PROVE  RotatedFile(i)' > RotatedFile(LastIndex)'
      <3>1. RotatedFile(i)' = RotatedFile(i) /\ RotatedFile(i) # 0
        BY <2>3
      <3> QED
        BY <2>1, <2>2, <3>1
    <2>4. m_iCurrentIndex' <= Rotations' - 2
      BY <1>4, <2>2
    <2> QED
      BY <2>3, <2>4
  <1> QED
    BY <1>2, <1>3, <1>5, <1>6 DEF FromFirst

(* Steps that give no file an index, and read no index again.              *)
LEMMA StillIndexed ==
    ASSUME IInv, Indexed,
           UNCHANGED <<hasExt, m_iCurrentIndex, replaced, resumed, nameChanges>>,
           nameChanges = 0 =>
               /\ \A i \in Indices : RotatedFile(i)' = 0 \/ RotatedFile(i)' = RotatedFile(i)
               /\ created' \in Nat /\ created' >= created /\ Rotations' \in Nat /\ Rotations' >= Rotations
    PROVE  Indexed'
  <1> SUFFICES ASSUME nameChanges = 0, resumed
               PROVE  /\ created' <= IndexMod => ~ replaced
                      /\ Rotations' < IndexMod => FromLast' \/ FromFirst'
    BY DEF Indexed
  <1>1. LastIndex \in Indices /\ 0 \in Indices /\ Rotations \in Nat /\ Rotations' \in Nat
        /\ Rotations' >= Rotations /\ m_iCurrentIndex \in Nat
    BY IndexBounds
  <1>2. FromLast => FromLast'
    BY <1>1 DEF FromLast
  <1>3. FromFirst => FromFirst'
    BY <1>1, FirstStays
  <1>4. created' <= IndexMod => created <= IndexMod
    BY IndexBounds
  <1>5. Rotations' < IndexMod => Rotations < IndexMod
    BY <1>1, IndexBounds
  <1> QED
    BY <1>2, <1>3, <1>4, <1>5 DEF Indexed

LEMMA SameFilesIndexed ==
    ASSUME IInv, Indexed,
           UNCHANGED <<disk, created, hasExt, m_strBaseName, m_frLog, m_iCurrentIndex, replaced, resumed,
                       nameChanges>>
    PROVE  Indexed'
  <1>1. Base' = Base /\ Rotations' = Rotations /\ \A i \in Indices : RotatedFile(i)' = RotatedFile(i)
    BY DEF Base, Rotations, RotatedFile
  <1>2. created' \in Nat /\ created' >= created /\ Rotations \in Nat /\ Rotations' >= Rotations
    BY <1>1, IndexBounds
  <1> QED
    BY <1>1, <1>2, StillIndexed

LEMMA OpenIndexed == ASSUME IInv, Indexed, OpenFirst \/ OpenNext PROVE Indexed'
  <1>1. UNCHANGED <<hasExt, m_iCurrentIndex, replaced, resumed, nameChanges>> /\ Base' = Base /\ m_frLog = 0
    <2>1. m_frLog = 0
      BY DEF OpenFirst, OpenNext, IInv, Counted
    <2> QED
      BY <2>1, OpenStays
  <1>2. CASE OpenExisting
    <2>1. disk' = disk /\ created' = created /\ disk[Base] # 0 /\ m_frLog' = disk[Base]
      BY <1>2 DEF OpenExisting
    <2>2. Rotations' = Rotations /\ \A i \in Indices : RotatedFile(i)' = RotatedFile(i)
      BY <1>1, <2>1 DEF Rotations, RotatedFile
    <2>3. created' \in Nat /\ created' >= created /\ Rotations \in Nat /\ Rotations' >= Rotations
      BY <2>1, <2>2, IndexBounds
    <2> QED
      BY <1>1, <2>2, <2>3, StillIndexed
  <1>3. CASE CreateFile
    <2>1. /\ disk[Base] = 0 /\ created' = created + 1 /\ m_frLog' = created'
          /\ \A name \in Names \ {Base} : disk'[name] = disk[name]
      BY <1>3, CreateDoes
    <2>2. \A i \in Indices : RotatedFile(i)' = RotatedFile(i)
      BY <2>1, IndexBounds DEF RotatedFile
    <2>3. Rotations = created /\ created \in Nat /\ m_frLog' # 0
      BY <1>1, <2>1, Bounds DEF Rotations
    <2>4. Rotations' = created' - 1
      BY <2>3 DEF Rotations
    <2>5. created' \in Nat /\ created' >= created /\ Rotations' \in Nat /\ Rotations' >= Rotations
      BY <2>1, <2>3, <2>4
    <2> QED
      BY <1>1, <2>2, <2>5, StillIndexed
  <1> QED
    BY <1>2, <1>3, OpenStays

LEMMA DeleteIndexed == ASSUME IInv, Indexed, DeleteFile PROVE Indexed'
  <1>1. UNCHANGED <<created, hasExt, m_frLog, m_iCurrentIndex, replaced, resumed, nameChanges>> /\ Base' = Base
    BY DeleteDoes
  <1>2. PICK gone \in doomed :
           \A name \in Names : disk'[name] = IF name = gone[1] THEN 0 ELSE disk[name]
    BY DeleteDoes
  <1>3. \A i \in Indices : RotatedFile(i)' = 0 \/ RotatedFile(i)' = RotatedFile(i)
    BY <1>2, IndexBounds DEF RotatedFile
  <1>4. disk'[Base] \in {0, disk[Base]}
    BY <1>2, Bounds
  <1>5. created' \in Nat /\ created' >= created /\ Rotations \in Nat
    BY <1>1, IndexBounds
  <1>6. Rotations' \in {Rotations, created}
    BY <1>1, <1>4 DEF Rotations
  <1>7. Rotations' \in Nat /\ Rotations' >= Rotations
    BY <1>5, <1>6, IndexBounds
  <1> QED
    BY <1>1, <1>3, <1>5, <1>7, StillIndexed

(* The next index is free, until all of them were used.                    *)
LEMMA NextIsFree ==
    ASSUME IInv, Indexed,
           nameChanges = 0, resumed, Rotations < IndexMod
    PROVE  RotatedFile(NextIndex) = 0
  <1>1. /\ NextIndex \in Indices
        /\ m_iCurrentIndex = LastIndex => NextIndex = 0
        /\ m_iCurrentIndex # LastIndex => NextIndex = m_iCurrentIndex + 1
    BY IndexBounds, NextIsIndex DEF LastIndex
  <1>2. /\ LastIndex = IndexMod - 1 /\ LastIndex \in Indices /\ 0 \in Indices
        /\ Rotations \in Nat /\ IndexMod \in Nat /\ m_iCurrentIndex \in Nat /\ m_iCurrentIndex < IndexMod
    BY IndexBounds
  <1>3. CASE FromLast
    BY <1>1, <1>2, <1>3 DEF FromLast
  <1>4. CASE FromFirst
    <2>1. CASE m_iCurrentIndex = LastIndex
      BY <2>1, <1>1, <1>2, <1>4 DEF FromFirst
    <2>2. CASE m_iCurrentIndex # LastIndex
      <3>1. NextIndex = LastIndex => m_iCurrentIndex = IndexMod - 2
        BY <2>2, <1>1, <1>2
      <3>2. NextIndex = LastIndex => RotatedFile(LastIndex) = 0
        BY <2>2, <3>1, <1>2, <1>4 DEF FromFirst
      <3>3. NextIndex # LastIndex => RotatedFile(NextIndex) = 0
        BY <2>2, <1>1, <1>2, <1>4 DEF FromFirst
      <3> QED
        BY <3>2, <3>3
    <2> QED
      BY <2>1, <2>2
  <1> QED
    BY <1>3, <1>4 DEF Indexed

LEMMA RenameIndexed == ASSUME IInv, Ordered, Indexed, Rename PROVE Indexed'
  <1>1. /\ UNCHANGED <<created, hasExt, m_strBaseName, resumed, nameChanges>>
        /\ Base' = Base /\ m_frLog # 0 /\ m_frLog' = 0 /\ m_iCurrentIndex' = NextIndex
    BY RenameStays
  <1> SUFFICES ASSUME nameChanges = 0, resumed
               PROVE  /\ created <= IndexMod => ~ replaced'
                      /\ Rotations' < IndexMod => FromLast' \/ FromFirst'
    BY <1>1 DEF Indexed
  <1>2. m_strBaseName = Configured /\ disk[Base] \in 0 .. created
    BY Bounds DEF IInv, Kept
  <1>3. /\ disk[Base] = 0 => \A i \in Indices : RotatedFile(i)' = RotatedFile(i)
        /\ disk[Base] # 0 =>
              \A i \in Indices : RotatedFile(i)' = IF i = NextIndex THEN disk[Base] ELSE RotatedFile(i)
        /\ replaced' => replaced \/ RotatedFile(NextIndex) # 0
        /\ disk'[Base] = 0
    <2>1. CASE MoveFile
      <3> DEFINE next == Numbered(m_strBaseName, NextIndex)
      <3>1. /\ disk[Base] # 0 /\ disk'[Base] = 0 /\ disk'[next] = disk[Base]
            /\ \A name \in Names \ {Base, next} : disk'[name] = disk[name]
            /\ replaced' = (replaced \/ disk[next] # 0)
        BY <2>1, MoveDoes DEF MoveFile
      <3>2. disk[next] = RotatedFile(NextIndex)
        BY <1>2 DEF RotatedFile
      <3>3. ASSUME NEW i \in Indices
            PROVE  RotatedFile(i)' = IF i = NextIndex THEN disk[Base] ELSE RotatedFile(i)
        <4>1. Numbered(Configured, i) \in Names \ {Base}
          BY IndexBounds
        <4>2. Numbered(Configured, i) = next <=> i = NextIndex
          BY <1>2 DEF Numbered
        <4> HIDE DEF next
        <4> QED
          BY <3>1, <4>1, <4>2 DEF RotatedFile
      <3>4. replaced' => replaced \/ RotatedFile(NextIndex) # 0
        BY <3>1, <3>2, Zenon
      <3> HIDE DEF next
      <3> QED
        BY <3>1, <3>3, <3>4
    <2>2. CASE NothingToMove
      <3>1. disk[Base] = 0 /\ disk' = disk /\ replaced' = replaced
        BY <2>2 DEF NothingToMove
      <3>2. \A i \in Indices : RotatedFile(i)' = RotatedFile(i)
        BY <3>1 DEF RotatedFile
      <3> QED
        BY <3>1, <3>2
    <2> QED
      BY <2>1, <2>2, RenameStays
  <1>4. /\ Rotations' = Rotations + 1 /\ Rotations \in Nat /\ created = Rotations + 1
        /\ LastIndex = IndexMod - 1 /\ LastIndex \in Indices /\ 0 \in Indices
        /\ IndexMod \in Nat /\ IndexMod >= 1
        /\ \A i \in Indices : i \in Nat /\ i < IndexMod
    <2>1. Rotations = created - 1 /\ Rotations' = created /\ created \in Nat /\ Rotations \in Nat
      BY <1>1, <1>3, IndexBounds DEF Rotations
    <2> QED
      BY <2>1, IndexBounds
  <1>5. /\ m_iCurrentIndex \in Indices /\ NextIndex \in Indices
        /\ m_iCurrentIndex = LastIndex => NextIndex = 0
        /\ m_iCurrentIndex # LastIndex => NextIndex = m_iCurrentIndex + 1
    BY IndexBounds, NextIsIndex
  <1>6. ASSUME created <= IndexMod PROVE ~ replaced'
    <2>1. Rotations < IndexMod
      BY <1>4, <1>6
    <2>2. RotatedFile(NextIndex) = 0
      BY <2>1, NextIsFree
    <2>3. ~ replaced
      BY <1>6 DEF Indexed
    <2> QED
      BY <2>2, <2>3, <1>3
  <1>7. ASSUME Rotations' < IndexMod PROVE FromFirst'
    <2>1. Rotations < IndexMod /\ Rotations + 1 < IndexMod
      BY <1>4, <1>7
    <2>0. \A i \in Indices : RotatedFile(i)' = IF i = NextIndex THEN disk[Base] ELSE RotatedFile(i)
      <3>1. RotatedFile(NextIndex) = 0
        BY <2>1, NextIsFree
      <3> QED
        BY <3>1, <1>3
    <2>2. FromLast \/ FromFirst
      BY <2>1, <1>7 DEF Indexed
    <2>3. CASE FromLast
      <3>1. m_iCurrentIndex = LastIndex /\ NextIndex = 0 /\ Rotations >= 1 /\ ~ hasExt
            /\ \A i \in Indices : RotatedFile(i) # 0 => i = LastIndex
        BY <2>3, <1>5 DEF FromLast
      <3>2. LastIndex # 0
        BY <2>1, <3>1, <1>4
      <3>3. \A i \in Indices : RotatedFile(i)' # 0 => i = LastIndex \/ i = 0
        BY <3>1, <2>0
      <3>4. m_iCurrentIndex' = 0 /\ m_iCurrentIndex' <= Rotations' - 2
        BY <3>1, <1>1, <1>4
      <3>5. ASSUME NEW i \in Indices \ {LastIndex}, RotatedFile(i)' # 0
            PROVE  RotatedFile(i)' > RotatedFile(LastIndex)'
        <4>1. i = 0
          BY <3>3, <3>5
        <4>2. RotatedFile(i)' = disk[Base] /\ RotatedFile(LastIndex)' = RotatedFile(LastIndex)
          BY <4>1, <3>1, <3>2, <2>0, <1>4
        <4>3. RotatedFile(LastIndex) < disk[Base] /\ RotatedFile(LastIndex) \in Nat /\ disk[Base] \in Nat
          BY <3>5, <4>2, <1>4, IndexBounds, BaseIsYoungest
        <4> QED
          BY <4>2, <4>3
      <3>6. \A i \in Indices : RotatedFile(i)' # 0 => i = LastIndex \/ i <= m_iCurrentIndex'
        BY <3>3, <3>4
      <3>7. m_iCurrentIndex' <= Rotations' /\ ~ hasExt'
        BY <3>1, <3>4, <1>1, <1>4
      <3> QED
        BY <3>4, <3>5, <3>6, <3>7 DEF FromFirst
    <2>4. CASE FromFirst
      <3>1. m_iCurrentIndex <= Rotations /\ m_iCurrentIndex # LastIndex
            /\ m_iCurrentIndex' = m_iCurrentIndex + 1 /\ m_iCurrentIndex \in Nat
            /\ NextIndex = m_iCurrentIndex + 1
        <4>1. m_iCurrentIndex <= Rotations
          BY <2>4 DEF FromFirst
        <4> QED
          BY <4>1, <2>1, <1>1, <1>4, <1>5
      <3>2. \A i \in Indices : RotatedFile(i)' # 0 => i = LastIndex \/ i <= m_iCurrentIndex'
        <4> SUFFICES ASSUME NEW i \in Indices, RotatedFile(i)' # 0, i # LastIndex
                     PROVE  i <= m_iCurrentIndex + 1
          BY <3>1
        <4>1. CASE i = NextIndex
          BY <4>1, <3>1
        <4>2. CASE i # NextIndex
          <5>1. i <= m_iCurrentIndex
            BY <4>2, <2>0, <2>4 DEF FromFirst
          <5> QED
            BY <5>1, <3>1, <1>4
        <4> QED
          BY <4>1, <4>2
      <3>3. ASSUME RotatedFile(0)' # 0 PROVE m_iCurrentIndex' <= Rotations' - 2 /\ ~ hasExt'
        <4>1. RotatedFile(0) # 0
          BY <3>1, <3>3, <2>0, <1>4
        <4>2. m_iCurrentIndex <= Rotations - 2 /\ ~ hasExt
          BY <4>1, <2>4 DEF FromFirst
        <4> QED
          BY <4>2, <3>1, <1>1, <1>4
      <3>4. ASSUME RotatedFile(LastIndex)' # 0, m_iCurrentIndex' # LastIndex
            PROVE  /\ m_iCurrentIndex' <= Rotations' - 2
                   /\ \A i \in Indices \ {LastIndex} :
                         RotatedFile(i)' # 0 => RotatedFile(i)' > RotatedFile(LastIndex)'
        <4>1. NextIndex # LastIndex /\ RotatedFile(LastIndex)' = RotatedFile(LastIndex)
          BY <3>1, <3>4, <1>1, <2>0, <1>4
        <4>2. /\ m_iCurrentIndex <= Rotations - 2
              /\ \A i \in Indices \ {LastIndex} :
                    RotatedFile(i) # 0 => RotatedFile(i) > RotatedFile(LastIndex)
          BY <4>1, <3>1, <3>4, <2>4 DEF FromFirst
        <4>3. ASSUME NEW i \in Indices \ {LastIndex}, RotatedFile(i)' # 0
              PROVE  RotatedFile(i)' > RotatedFile(LastIndex)'
          <5>1. CASE i = NextIndex
            <6>1. RotatedFile(LastIndex) < disk[Base] /\ RotatedFile(LastIndex) \in Nat /\ disk[Base] \in Nat
              BY <4>3, <5>1, <2>0, <1>4, IndexBounds, BaseIsYoungest
            <6> QED
              BY <5>1, <6>1, <4>1, <2>0
          <5>2. CASE i # NextIndex
            BY <5>2, <4>1, <4>2, <4>3, <2>0
          <5> QED
            BY <5>1, <5>2
        <4> QED
          BY <4>2, <4>3, <3>1, <1>4
      <3>5. m_iCurrentIndex' <= Rotations'
        BY <3>1, <1>4
      <3> QED
        BY <3>2, <3>3, <3>4, <3>5 DEF FromFirst
    <2> QED
      BY <2>2, <2>3, <2>4
  <1> QED
    BY <1>6, <1>7

(* What a start of the program that resumes finds.                         *)
LEMMA ResumesFromYoungest ==
    ASSUME IInv, Ordered, nameChanges = 0, NEW i \in Indices, Resumes(disk, Configured, i),
           NEW j \in Indices, RotatedFile(j) # 0
    PROVE  RotatedFile(i) # 0 /\ RotatedFile(i) >= RotatedFile(j)
  <1>1. j \in Rotated(disk, Configured)
    BY DEF Rotated, RotatedFile
  <1>2. PICK b \in BaseNames : \A c \in BaseNames : \A k \in Rotated(disk, c) :
           /\ disk[Numbered(b, i)] # 0
           /\ mtime[disk[Numbered(b, i)]] >= mtime[disk[Numbered(c, k)]]
    BY <1>1 DEF Resumes
  <1>3. disk[Numbered(b, i)] # 0 /\ mtime[disk[Numbered(b, i)]] >= mtime[RotatedFile(j)]
    BY <1>1, <1>2, LogRotationAssumption DEF RotatedFile
  <1>4. b = Configured
    <2>1. Numbered(b, i) \in Names /\ Numbered(b, i)[1] = b
      BY DEF Numbered, Names
    <2> QED
      BY <2>1, <1>3 DEF Ordered
  <1>5. RotatedFile(i) # 0 /\ mtime[RotatedFile(i)] >= mtime[RotatedFile(j)]
    BY <1>3, <1>4 DEF RotatedFile
  <1>6. RotatedFile(i) \in 1 .. created /\ RotatedFile(j) \in 1 .. created
    BY <1>5, IndexBounds
  <1>7. RotatedFile(i) < RotatedFile(j) => mtime[RotatedFile(i)] < mtime[RotatedFile(j)]
    BY <1>6 DEF Ordered, Straight
  <1>8. mtime[RotatedFile(i)] \in Nat /\ mtime[RotatedFile(j)] \in Nat
    BY <1>6, Bounds
  <1>9. ~ (RotatedFile(i) < RotatedFile(j))
    BY <1>5, <1>7, <1>8
  <1> QED
    BY <1>5, <1>6, <1>9, Bounds

LEMMA RestartIndexed == ASSUME IInv, Ordered, Indexed, Restart PROVE Indexed'
  <1> DEFINE i0 == FindMaxFileIndex(disk, hasExt)
  <1>1. /\ m_strBaseName' = Configured /\ m_iCurrentIndex' = i0 /\ m_frLog' = 0
        /\ resumed' = (resumed /\ Resumes(disk, Configured, i0))
        /\ UNCHANGED <<disk, created, hasExt, replaced, nameChanges>>
    BY DEF Restart, files
  <1> SUFFICES ASSUME nameChanges = 0, resumed'
               PROVE  /\ created <= IndexMod => ~ replaced
                      /\ Rotations' < IndexMod => FromLast' \/ FromFirst'
    BY <1>1 DEF Indexed
  <1>0. resumed /\ Resumes(disk, Configured, i0)
    BY <1>1
  <1>2. Base' = Base /\ \A i \in Indices : RotatedFile(i)' = RotatedFile(i)
    BY <1>1 DEF Base, IInv, Kept, RotatedFile
  <1>3. i0 \in Indices
    BY FoundIndex
  <1>4. i0 = IF hasExt \/ Rotated(disk, Configured) = {} THEN 0 ELSE Max(Rotated(disk, Configured))
    <2>1. \A base \in BaseNames \ {Configured} : Rotated(disk, base) = {}
      <3> TAKE base \in BaseNames \ {Configured}
      <3>1. \A i \in Indices : Numbered(base, i) \in Names /\ Numbered(base, i)[1] # Configured
        BY DEF Numbered, Names
      <3> QED
        BY <3>1 DEF Ordered, Rotated
    <2>2. UNION {Rotated(disk, base) : base \in BaseNames} = Rotated(disk, Configured)
      BY <2>1, LogRotationAssumption
    <2> QED
      BY <2>2 DEF FindMaxFileIndex, FoundIndices
  <1>5. /\ LastIndex \in Indices /\ 0 \in Indices /\ LastIndex = IndexMod - 1 /\ IndexMod \in Nat
        /\ Rotations \in Nat /\ \A i \in Indices : i \in Nat /\ i < IndexMod
        /\ m_iCurrentIndex \in Nat /\ i0 \in Nat
        /\ Rotations' \in Nat /\ Rotations' >= Rotations
    <2>1. Rotations' \in {Rotations, created}
      BY <1>1, <1>2 DEF Rotations
    <2> HIDE DEF i0
    <2> QED
      BY <2>1, <1>3, IndexBounds
  <1>6. Rotated(disk, Configured) = {i \in Indices : RotatedFile(i) # 0}
    BY DEF Rotated, RotatedFile
  <1>7. ASSUME Rotated(disk, Configured) # {}, ~ hasExt
        PROVE  RotatedFile(i0) # 0 /\ \A i \in Indices : RotatedFile(i) # 0 => i <= i0
    <2>1. Rotated(disk, Configured) \subseteq 0 .. LastIndex /\ LastIndex \in Nat
      BY <1>5 DEF Rotated, Indices
    <2>2. i0 \in Rotated(disk, Configured) /\ \A i \in Rotated(disk, Configured) : i0 >= i
      BY <2>1, <1>4, <1>7, MaxIn
    <2> HIDE DEF i0
    <2> QED
      BY <2>2, <1>3, <1>5, <1>6
  <1> HIDE DEF i0
  <1>8. ASSUME Rotations' < IndexMod PROVE FromLast' \/ FromFirst'
    <2>1. resumed /\ Resumes(disk, Configured, i0) /\ (FromLast \/ FromFirst)
      <3>1. Rotations < IndexMod
        BY <1>5, <1>8
      <3> QED
        BY <3>1, <1>0 DEF Indexed
    <2>2. \A j \in Indices : RotatedFile(j) # 0 => RotatedFile(i0) # 0 /\ RotatedFile(i0) >= RotatedFile(j)
      BY <1>3, <2>1, ResumesFromYoungest
    <2>3. CASE Rotated(disk, Configured) = {}
      <3>1. i0 = 0 /\ \A i \in Indices : RotatedFile(i) = 0
        BY <2>3, <1>4, <1>6
      <3>2. m_iCurrentIndex' <= Rotations' /\ \A i \in Indices : RotatedFile(i)' = 0
        BY <3>1, <1>1, <1>2, <1>5
      <3> QED
        BY <3>2, <1>5 DEF FromFirst
    <2>4. CASE Rotated(disk, Configured) # {}
      <3>1. PICK j \in Indices : RotatedFile(j) # 0
        BY <2>4, <1>6
      <3>2. ~ hasExt
        <4> SUFFICES ASSUME hasExt PROVE FALSE
          OBVIOUS
        <4>1. RotatedFile(0) # 0
          BY <3>1, <2>2, <1>4
        <4> QED
          BY <4>1, <2>1 DEF FromLast, FromFirst
      <3>3. RotatedFile(i0) # 0 /\ \A i \in Indices : RotatedFile(i) # 0 => i <= i0
        BY <2>4, <3>2, <1>7
      <3>4. CASE FromLast
        <4>1. i0 = LastIndex
          BY <3>3, <3>4, <1>3 DEF FromLast
        <4>2. FromLast'
          BY <3>4, <4>1, <1>1, <1>2, <1>5 DEF FromLast
        <4> QED
          BY <4>2
      <3>5. CASE FromFirst /\ RotatedFile(LastIndex) = 0
        <4>1. i0 # LastIndex /\ i0 <= m_iCurrentIndex
          BY <3>3, <3>5, <1>3 DEF FromFirst
        <4>2. m_iCurrentIndex \in Nat /\ i0 \in Nat
          BY <1>5
        <4>3. m_iCurrentIndex' <= Rotations'
          BY <4>1, <4>2, <3>5, <1>1, <1>2, <1>5 DEF FromFirst
        <4>4. RotatedFile(0)' # 0 => m_iCurrentIndex' <= Rotations' - 2 /\ ~ hasExt'
          <5>1. RotatedFile(0) # 0 => m_iCurrentIndex <= Rotations - 2
            BY <3>5 DEF FromFirst
          <5>2. RotatedFile(0) # 0 => i0 <= Rotations - 2
            BY <5>1, <4>1, <4>2, <1>5
          <5>3. RotatedFile(0) # 0 => i0 <= Rotations' - 2
            BY <5>2, <1>5, StaysBelow
          <5> QED
            BY <5>3, <3>2, <1>1, <1>2, <1>5
        <4>5. RotatedFile(LastIndex)' = 0
          BY <3>5, <1>2, <1>5
        <4>6. \A i \in Indices : RotatedFile(i)' # 0 => i = LastIndex \/ i <= m_iCurrentIndex'
          BY <3>3, <1>1, <1>2
        <4>7. FromFirst'
          BY <4>3, <4>4, <4>5, <4>6 DEF FromFirst
        <4> QED
          BY <4>7
      <3>6. CASE FromFirst /\ RotatedFile(LastIndex) # 0
        <4>1. i0 = LastIndex
          BY <3>3, <3>6, <1>3, <1>5
        <4>2. CASE m_iCurrentIndex = LastIndex
          <5>1. FromFirst'
            <6>1. m_iCurrentIndex' = m_iCurrentIndex
              BY <4>1, <4>2, <1>1
            <6> QED
              BY <6>1, <3>6, <1>1, <1>2, <1>5, FirstStays
          <5> QED
            BY <5>1
        <4>3. CASE m_iCurrentIndex # LastIndex
          <5>1. /\ m_iCurrentIndex <= Rotations - 2
                /\ \A i \in Indices \ {LastIndex} :
                      RotatedFile(i) # 0 => RotatedFile(i) > RotatedFile(LastIndex)
            BY <3>6, <4>3 DEF FromFirst
          <5>2. Rotations >= 1
            BY <5>1, <1>5
          <5>3. ASSUME NEW i \in Indices, RotatedFile(i) # 0 PROVE i = LastIndex
            <6>1. RotatedFile(LastIndex) >= RotatedFile(i)
              BY <2>2, <4>1, <5>3
            <6>2. RotatedFile(i) \in Nat /\ RotatedFile(LastIndex) \in Nat
              BY <1>5, IndexBounds
            <6> QED
              BY <5>1, <5>3, <6>1, <6>2
          <5>4. FromLast'
            BY <4>1, <5>2, <5>3, <3>2, <1>1, <1>2, <1>5 DEF FromLast
          <5> QED
            BY <5>4
        <4> QED
          BY <4>2, <4>3
      <3> QED
        BY <2>1, <3>4, <3>5, <3>6
    <2> QED
      BY <2>3, <2>4
  <1>9. created <= IndexMod => ~ replaced
    BY <1>0 DEF Indexed
  <1> QED
    BY <1>8, <1>9

LEMMA StepIndexed == ASSUME IInv, Ordered, Indexed, [Next]_vars PROVE Indexed'
  <1>1. ASSUME NEW base \in BaseNames, setLogFileName(base) PROVE Indexed'
    <2>1. nameChanges' = nameChanges + 1 /\ hasExt' = hasExt
      BY <1>1 DEF setLogFileName
    <2>2. nameChanges' # 0
      BY <2>1 DEF IInv, Typed
    <2> QED
      BY <2>1, <2>2 DEF Indexed
  <1>2. ASSUME Still PROVE Indexed'
    BY <1>2, SameFilesIndexed DEF Still, files, naming
  <1>3. ASSUME AppendAtOnce \/ AppendAfterRotation PROVE Indexed'
    BY <1>3, WriteDoes, SameFilesIndexed
  <1>4. ASSUME OpenDir \/ ReadEntry \/ ListDone PROVE Indexed'
    <2>1. UNCHANGED <<disk, created, hasExt, m_strBaseName, m_frLog, m_iCurrentIndex, replaced, resumed,
                      nameChanges>>
      BY <1>4 DEF OpenDir, ReadEntry, ListDone, files, memory, naming, history
    <2> QED
      BY <2>1, SameFilesIndexed
  <1>5. CASE WriterStep
    BY <1>2, <1>3, <1>5, QuietIsStill, OpenIndexed, RenameIndexed DEF WriterStep
  <1>6. CASE PurgerStep
    BY <1>2, <1>4, <1>6, QuietIsStill, DeleteIndexed DEF PurgerStep
  <1> QED
    BY <1>1, <1>2, <1>5, <1>6, QuietIsStill, RestartIndexed DEF Next

-----------------------------------------------------------------------------
Always == IInv /\ Ordered /\ Purging /\ Indexed

LEMMA AlwaysHolds == Spec => []Always
  <1>1. Init => Always
    BY InitIInv, InitOrdered, InitPurging, InitIndexed DEF Always
  <1>2. Always /\ [Next]_vars => Always'
    BY StepIInv, StepOrdered, StepPurging, StepIndexed DEF Always
  <1> QED
    BY <1>1, <1>2, PTL DEF Spec

(* Only deletion makes a file go, unless a rotation replaces it.           *)
LEMMA OnlyDeletionLoses ==
    ASSUME Always, [Next]_vars, Goes, ~ replaced'
    PROVE  DeleteFile
  <1> USE DEF Always
  <1>1. ASSUME disk' = disk PROVE FALSE
    BY <1>1 DEF Goes, Present, Taken
  <1>2. ASSUME OpenFirst \/ OpenNext PROVE FALSE
    <2>1. CASE OpenExisting
      BY <2>1, <1>1 DEF OpenExisting
    <2>2. CASE CreateFile
      <3>1. disk[Base] = 0 /\ \A name \in Names \ {Base} : disk'[name] = disk[name]
        BY <2>2, CreateDoes
      <3>2. ASSUME NEW name \in Names, disk[name] # 0 PROVE disk[name] \in Present(disk')
        BY <3>1, <3>2 DEF Present, Taken
      <3> QED
        BY <3>2 DEF Goes, Present, Taken
    <2> QED
      BY <1>2, <2>1, <2>2, OpenStays
  <1>3. ASSUME Rename PROVE FALSE
    <2> DEFINE next == Numbered(m_strBaseName, NextIndex)
    <2>1. MoveFile
      BY <1>1, <1>3, RenameStays DEF NothingToMove
    <2>2. /\ disk'[next] = disk[Base]
          /\ \A name \in Names \ {Base, next} : disk'[name] = disk[name]
      BY <2>1, MoveDoes
    <2>3. disk[next] = 0 /\ next \in Names
      BY <1>3, <2>1, MoveTakes
    <2> HIDE DEF next
    <2>4. ASSUME NEW name \in Names, disk[name] # 0 PROVE disk[name] \in Present(disk')
      <3>1. CASE name = Base
        BY <3>1, <2>2, <2>3, <2>4 DEF Present, Taken
      <3>2. CASE name # Base
        <4>1. disk'[name] = disk[name]
          BY <3>2, <2>2, <2>3, <2>4
        <4> QED
          BY <4>1, <2>4 DEF Present, Taken
      <3> QED
        BY <3>1, <3>2
    <2> QED
      BY <2>4 DEF Goes, Present, Taken
  <1>4. ASSUME NEW base \in BaseNames, setLogFileName(base) PROVE FALSE
    BY <1>1, <1>4 DEF setLogFileName, files
  <1>5. ASSUME AppendAtOnce \/ AppendAfterRotation \/ OpenDir \/ ReadEntry \/ ListDone \/ Restart PROVE FALSE
    BY <1>1, <1>5, WriteDoes DEF OpenDir, ReadEntry, ListDone, Restart, files
  <1>6. ASSUME Still PROVE FALSE
    BY <1>1, <1>6 DEF Still, files
  <1>7. CASE WriterStep
    BY <1>2, <1>3, <1>5, <1>6, <1>7, QuietIsStill DEF WriterStep
  <1>8. CASE PurgerStep
    BY <1>5, <1>6, <1>8, QuietIsStill DEF PurgerStep
  <1> QED
    BY <1>4, <1>5, <1>6, <1>7, <1>8, QuietIsStill DEF Next

LEMMA StepSurplus ==
    Always /\ [Next]_vars =>
        (Goes /\ ~ replaced' =>
            \/ Cardinality(Taken(disk)) > MaxFileNum
            \/ crossed = "now" /\ Cardinality(Taken(disk)) = MaxFileNum)
  <1> SUFFICES ASSUME Always, [Next]_vars, Goes, ~ replaced'
               PROVE  \/ Cardinality(Taken(disk)) > MaxFileNum
                      \/ crossed = "now" /\ Cardinality(Taken(disk)) = MaxFileNum
    OBVIOUS
  <1>1. DeleteFile
    BY OnlyDeletionLoses
  <1>2. ~ replaced /\ doomed # {}
    BY <1>1, DeleteDoes DEF Always
  <1>3. Cardinality(Taken(disk)) + OneIf(crossed = "now") >= MaxFileNum + Cardinality(doomed)
    BY <1>2 DEF Always, Purging
  <1>4. /\ Cardinality(doomed) \in Nat /\ Cardinality(doomed) # 0
        /\ Cardinality(Taken(disk)) \in Nat /\ MaxFileNum \in Nat
    BY <1>2, LinksFinite, FS_EmptySet, Bounds DEF Always
  <1> QED
    BY <1>3, <1>4 DEF OneIf

LEMMA StepOldest ==
    Always /\ [Next]_vars =>
        (~ replaced' /\ crossed # "now" /\ Straight =>
            \A f \in Present(disk) \ Present(disk'), name \in Taken(disk') \ Doomed' :
                mtime[f] <= mtime[disk'[name]])
  <1> SUFFICES ASSUME Always, [Next]_vars, ~ replaced', crossed # "now", Straight,
                      NEW f \in Present(disk) \ Present(disk'), NEW name \in Taken(disk') \ Doomed'
               PROVE  mtime[f] <= mtime[disk'[name]]
    OBVIOUS
  <1>1. DeleteFile
    BY OnlyDeletionLoses DEF Goes
  <1>2. ~ replaced
    BY <1>1, DeleteDoes DEF Always
  <1>3. PICK gone \in doomed :
           /\ doomed' = doomed \ {gone}
           /\ \A other \in Names : disk'[other] = IF other = gone[1] THEN 0 ELSE disk[other]
    BY <1>1, DeleteDoes DEF Always
  <1>4. /\ doomed \subseteq Links(disk)
        /\ \A link \in doomed, other \in Taken(disk) \ Doomed : link[2] <= disk[other]
    BY <1>2 DEF Always, Purging
  <1>5. f = gone[2]
    <2>1. PICK old \in Names : f = disk[old] /\ f # 0
      BY DEF Present, Taken
    <2>2. disk'[old] # disk[old]
      BY <2>1 DEF Present, Taken
    <2>3. old = gone[1]
      BY <2>2, <1>3
    <2>4. disk[gone[1]] = gone[2]
      BY <1>4, LinkOf
    <2> QED
      BY <2>1, <2>3, <2>4
  <1>6. name \in Names /\ disk'[name] # 0 /\ name # gone[1] /\ disk'[name] = disk[name]
    BY <1>3 DEF Taken
  <1>7. name \in Taken(disk) \ Doomed
    BY <1>3, <1>6 DEF Taken, Doomed
  <1>8. f <= disk[name]
    BY <1>4, <1>5, <1>7
  <1>9. f \in 1 .. created /\ disk[name] \in 1 .. created
    <2>1. gone \in Names \X (1 .. created)
      BY DEF Always, IInv, Listed
    <2>2. disk[name] \in 0 .. created
      BY <1>6 DEF Always, IInv, Typed
    <2> QED
      BY <1>5, <1>6, <2>1, <2>2, Bounds DEF Always
  <1>10. mtime[f] \in Nat /\ mtime[disk[name]] \in Nat /\ created \in Nat
    BY <1>9, Bounds DEF Always
  <1>11. f # disk[name] => mtime[f] < mtime[disk[name]]
    <2>1. f # disk[name] => f < disk[name]
      BY <1>8, <1>9, <1>10
    <2> QED
      BY <2>1, <1>9 DEF Always, Ordered
  <1> QED
    BY <1>6, <1>10, <1>11

(* purgeOldFiles, which deletes by name what it listed some time ago, and  *)
(* changeNextFiles, which renames and creates files in the meantime, even  *)
(* while the directory is read: a file only goes when there are more than  *)
(* max_files, or as many when a rotation crossed the listing, unless a     *)
(* rotation has replaced a file.                                           *)
THEOREM OnlySurplus == Spec => OnlySurplusGoesUnlessReplaced
  BY AlwaysHolds, StepSurplus, PTL DEF Spec, OnlySurplusGoesUnlessReplaced

(* purgeOldFiles: no file that it deletes is younger than one that it      *)
(* leaves, unless a rotation crossed the listing.                          *)
THEOREM OldestFirst == Spec => OldestGoFirst
  BY AlwaysHolds, StepOldest, PTL DEF Spec, OldestGoFirst

(* writeData and changeNextFiles: the file that lines go to is the one with*)
(* the base name, as long as nobody changes that and no rotation crosses a *)
(* listing of the purging thread, which deletes by name; no file outgrows  *)
(* max_size, unless it holds a single line; and no rotation replaces a file*)
(* before every index was used, if each start of the program resumes from  *)
(* the youngest file.                                                      *)
THEOREM Sound == Spec => []FilesSound
  <1>1. Always => FilesSound
    <2>1. IInv => WritesReachBase /\ SizeKept
      BY DEF IInv, Kept, WritesReachBase
    <2>2. Always => IndexSound
      <3>1. IInv => created \in Nat /\ IndexMod \in Nat
        BY IndexBounds
      <3> QED
        BY <3>1 DEF Always, Indexed, IndexSound
    <2> QED
      BY <2>1, <2>2 DEF Always, FilesSound
  <1> QED
    BY <1>1, AlwaysHolds, PTL

-----------------------------------------------------------------------------
(* The front end of the logger.                                            *)

Issuers == Threads \cup {"logger"}
Line == [from : Issuers, number : Nat]

(* Lines in a sequence; lines carried by those in S, in the records f.     *)
Has(s, line) == \E i \in DOMAIN s : s[i] = line
NoRepeat(s) == \A i, j \in DOMAIN s : s[i] = s[j] => i = j
Carried(f, S, line) == \E x \in S : f[x].line = line
NoSharing(f, S) == \A x, y \in S : f[x].line = f[y].line => x = y

InHand(line) == Carried(writers, Hands, line)
InCall(line) == Carried(at, Putting, line)
Issued(line) == 1 <= line.number /\ line.number <= lines[line.from]

Earlier(l, m) == l.from = m.from /\ l.from \in Threads => l.number < m.number
Increasing(s) == \A i, j \in DOMAIN s : i < j => Earlier(s[i], s[j])

Calling == [pc : {"put", "holding"}, line : Line]
WriterPlaces == {Outside} \cup [pc : {"pop", "test", "flush"}] \cup [pc : {"write"}, line : Line]
ControlPlaces ==
    {Outside, [pc |-> "greet"]}
      \cup [pc : {"delete", "closed"}, next : {"none", "sync", "async", "default"}]

LoggerTypeOK ==
    /\ m_emLogLevel \in {Info, Error}
    /\ m_bSync \in BOOLEAN /\ m_pOutputMode \in BOOLEAN /\ broken \in BOOLEAN
    /\ m_ctxQueue \in Seq(Line) /\ written \in Seq(Line)
    /\ m_Mutex \in Threads \cup {Nobody}
    /\ at \in [Threads -> {Outside} \cup Calling]
    /\ control \in ControlPlaces
    /\ writers \in [Writers -> WriterPlaces]
    /\ flushed \in Nat /\ inits \in Nat /\ changes \in Nat
    /\ lines \in [Issuers -> Nat]

(* A line is somewhere exactly if it was issued.                           *)
Accounted ==
    \A l \in Line :
        Has(written, l) \/ Has(m_ctxQueue, l) \/ InHand(l) \/ InCall(l) <=> Issued(l)

(* No two places have the same line.                                       *)
Unshared ==
    /\ NoRepeat(written) /\ NoRepeat(m_ctxQueue)
    /\ NoSharing(writers, Hands) /\ NoSharing(at, Putting)
    /\ \A l \in Line :
          /\ Has(written, l) => ~ Has(m_ctxQueue, l) /\ ~ InHand(l) /\ ~ InCall(l)
          /\ Has(m_ctxQueue, l) => ~ InHand(l) /\ ~ InCall(l)
          /\ InHand(l) => ~ InCall(l)

(* The line of a call is the last one of its thread, or the logger's own.  *)
Latest ==
    \A t \in Threads :
        /\ at[t].pc = "put" => at[t].line = [from |-> t, number |-> lines[t]]
        /\ at[t].pc = "holding" => at[t].line.from = "logger"

(* Before the first set-up there is nothing; until the second one is about *)
(* to greet, a synchronous logger has nothing on the way to a writer.      *)
Staged ==
    /\ \A w \in Writers : writers[w] # Outside => w <= inits
    /\ inits = 0 => /\ m_ctxQueue = <<>> /\ written = <<>>
                    /\ m_pOutputMode => control.pc = "greet"
                    /\ control.pc # "delete"
                    /\ control = Outside => Putting = {}
    /\ inits = 1 /\ m_bSync /\ control.pc # "greet" => m_ctxQueue = <<>> /\ Hands = {}

(* With one writer: written, in its hand, in the queue.                    *)
Sorted ==
    inits <= 1 =>
        /\ Increasing(written) /\ Increasing(m_ctxQueue)
        /\ \A l, m \in Line :
              /\ Has(written, l) /\ (InHand(m) \/ Has(m_ctxQueue, m)) => Earlier(l, m)
              /\ InHand(l) /\ Has(m_ctxQueue, m) => Earlier(l, m)

LoggerIInv == LoggerTypeOK /\ Accounted /\ Unshared /\ Latest /\ Staged /\ Sorted

-----------------------------------------------------------------------------
(* What sequences and carriers hold after one line comes or goes.          *)

(* A line is appended.                                                     *)
LEMMA HasAppend ==
    ASSUME NEW s \in Seq(Line), NEW x \in Line
    PROVE  /\ Append(s, x) \in Seq(Line)
           /\ \A l : Has(Append(s, x), l) <=> Has(s, l) \/ l = x
           /\ NoRepeat(s) /\ ~ Has(s, x) => NoRepeat(Append(s, x))
           /\ Increasing(s) /\ (\A l \in Line : Has(s, l) => Earlier(l, x))
                => Increasing(Append(s, x))
<1> DEFINE r == Append(s, x)
<1>1. /\ r \in Seq(Line) /\ Len(s) \in Nat /\ Len(r) = Len(s) + 1
      /\ DOMAIN s = 1 .. Len(s) /\ DOMAIN r = 1 .. Len(r)
      /\ \A i \in 1 .. Len(s) : r[i] = s[i] /\ s[i] \in Line
      /\ r[Len(s) + 1] = x
  OBVIOUS
<1> HIDE DEF r
<1>2. \A i \in DOMAIN r : i \in DOMAIN s \/ i = Len(s) + 1
  BY <1>1
<1>3. \A i \in DOMAIN s : i \in DOMAIN r /\ i # Len(s) + 1 /\ i < Len(s) + 1
  BY <1>1
<1>4. Len(s) + 1 \in DOMAIN r
  BY <1>1
<1>5. \A l : Has(r, l) <=> Has(s, l) \/ l = x
  BY <1>1, <1>2, <1>3, <1>4, Zenon DEF Has
<1>6. ASSUME NoRepeat(s), ~ Has(s, x) PROVE NoRepeat(r)
  BY <1>1, <1>2, <1>6, Zenon DEF NoRepeat, Has
<1>7. ASSUME Increasing(s), \A l \in Line : Has(s, l) => Earlier(l, x) PROVE Increasing(r)
  <2> SUFFICES ASSUME NEW i \in DOMAIN r, NEW j \in DOMAIN r, i < j
               PROVE  Earlier(r[i], r[j])
    BY DEF Increasing
  <2>1. i \in DOMAIN s
    BY <1>1
  <2>2. CASE j \in DOMAIN s
    BY <1>1, <1>7, <2>1, <2>2 DEF Increasing
  <2>3. CASE j = Len(s) + 1
    <3>1. Has(s, s[i]) /\ s[i] \in Line
      BY <1>1, <2>1 DEF Has
    <3> QED
      BY <1>1, <1>7, <2>1, <2>3, <3>1
  <2> QED
    BY <1>2, <2>2, <2>3
<1> QED
  BY <1>1, <1>5, <1>6, <1>7 DEF r

(* The first line is taken off.                                            *)
LEMMA HasTail ==
    ASSUME NEW s \in Seq(Line), s # <<>>
    PROVE  /\ Tail(s) \in Seq(Line) /\ Head(s) \in Line /\ Has(s, Head(s))
           /\ NoRepeat(s) => NoRepeat(Tail(s))
           /\ NoRepeat(s) => \A l : Has(Tail(s), l) <=> Has(s, l) /\ l # Head(s)
           /\ Increasing(s) => /\ Increasing(Tail(s))
                               /\ \A l : Has(Tail(s), l) => Earlier(Head(s), l)
<1> DEFINE r == Tail(s)
<1>1. /\ r \in Seq(Line) /\ Head(s) \in Line /\ Head(s) = s[1]
      /\ Len(s) \in Nat /\ Len(s) >= 1 /\ Len(r) = Len(s) - 1
      /\ DOMAIN s = 1 .. Len(s) /\ DOMAIN r = 1 .. Len(r)
      /\ \A i \in 1 .. Len(r) : r[i] = s[i + 1]
  OBVIOUS
<1> HIDE DEF r
<1>2. \A i \in DOMAIN r : i + 1 \in DOMAIN s /\ r[i] = s[i + 1] /\ 1 < i + 1 /\ i \in Int
  BY <1>1
<1>3. \A i \in DOMAIN s : i = 1 \/ (i - 1 \in DOMAIN r /\ r[i - 1] = s[i])
  BY <1>1
<1>4. 1 \in DOMAIN s /\ s[1] = Head(s)
  BY <1>1
<1>5. ASSUME NoRepeat(s) PROVE NoRepeat(r)
  <2> SUFFICES ASSUME NEW i \in DOMAIN r, NEW j \in DOMAIN r, r[i] = r[j] PROVE i = j
    BY DEF NoRepeat
  <2>1. i + 1 = j + 1
    BY <1>2, <1>5 DEF NoRepeat
  <2> QED
    BY <1>2, <2>1
<1>6. ASSUME NoRepeat(s), NEW l PROVE Has(r, l) <=> Has(s, l) /\ l # Head(s)
  <2>1. ASSUME Has(r, l) PROVE Has(s, l) /\ l # Head(s)
    <3>1. PICK i \in DOMAIN r : r[i] = l
      BY <2>1 DEF Has
    <3>2. i + 1 \in DOMAIN s /\ s[i + 1] = l /\ i + 1 # 1
      BY <1>2, <3>1
    <3> QED
      BY <1>4, <1>6, <3>2 DEF Has, NoRepeat
  <2>2. ASSUME Has(s, l), l # Head(s) PROVE Has(r, l)
    BY <1>3, <1>4, <2>2 DEF Has
  <2> QED
    BY <2>1, <2>2
<1>7. ASSUME Increasing(s) PROVE Increasing(r)
  <2> SUFFICES ASSUME NEW i \in DOMAIN r, NEW j \in DOMAIN r, i < j
               PROVE  Earlier(r[i], r[j])
    BY DEF Increasing
  <2>1. i + 1 < j + 1
    BY <1>2
  <2> QED
    BY <1>2, <1>7, <2>1 DEF Increasing
<1>8. ASSUME Increasing(s), NEW l, Has(r, l) PROVE Earlier(Head(s), l)
  <2>1. PICK i \in DOMAIN r : r[i] = l
    BY <1>8 DEF Has
  <2> QED
    BY <1>2, <1>4, <1>8, <2>1 DEF Increasing
<1> QED
  BY <1>1, <1>4, <1>5, <1>6, <1>7, <1>8 DEF r, Has

(* Somebody comes to carry line x.                                         *)
LEMMA CarriedGains ==
    ASSUME NEW f, NEW S, NEW g, NEW t, NEW x, t \notin S,
           g[t].line = x, \A y \in S : g[y].line = f[y].line, NEW l
    PROVE  Carried(g, S \cup {t}, l) <=> Carried(f, S, l) \/ l = x
  BY Zenon DEF Carried

LEMMA SharingGains ==
    ASSUME NEW f, NEW S, NEW g, NEW t, NEW x, t \notin S,
           g[t].line = x, \A y \in S : g[y].line = f[y].line,
           NoSharing(f, S), ~ Carried(f, S, x)
    PROVE  NoSharing(g, S \cup {t})
  BY Zenon DEF Carried, NoSharing

(* Somebody carries a line no more.                                        *)
LEMMA CarriedLoses ==
    ASSUME NEW f, NEW S, NEW g, NEW t \in S, NoSharing(f, S),
           \A y \in S : y # t => g[y].line = f[y].line, NEW l
    PROVE  Carried(g, S \ {t}, l) <=> Carried(f, S, l) /\ l # f[t].line
  BY Zenon DEF Carried, NoSharing

LEMMA SharingLoses ==
    ASSUME NEW f, NEW S, NEW g, NEW t \in S, NoSharing(f, S),
           \A y \in S : y # t => g[y].line = f[y].line
    PROVE  NoSharing(g, S \ {t})
  BY Zenon DEF NoSharing

(* A line is issued.                                                       *)
NewLine(f) == [from |-> f, number |-> lines[f] + 1]

LEMMA IssuedGains ==
    ASSUME LoggerTypeOK, NEW f \in Issuers, lines' = [lines EXCEPT ![f] = @ + 1]
    PROVE  /\ NewLine(f) \in Line /\ ~ Issued(NewLine(f))
           /\ \A l \in Line : Issued(l)' <=> Issued(l) \/ l = NewLine(f)
           /\ lines' \in [Issuers -> Nat]
<1>1. lines \in [Issuers -> Nat]
  BY DEF LoggerTypeOK
<1>2. NewLine(f) \in Line /\ NewLine(f).from = f /\ NewLine(f).number = lines[f] + 1
  BY <1>1 DEF NewLine, Line
<1>3. ~ Issued(NewLine(f))
  BY <1>1, <1>2 DEF Issued
<1>4. ASSUME NEW l \in Line PROVE Issued(l)' <=> Issued(l) \/ l = NewLine(f)
  <2>1. l.from \in Issuers /\ l.number \in Nat
        /\ l = [from |-> l.from, number |-> l.number]
    BY DEF Line
  <2>2. l = NewLine(f) <=> l.from = f /\ l.number = lines[f] + 1
    BY <1>2, <2>1 DEF NewLine
  <2>3. lines'[l.from] = IF l.from = f THEN lines[f] + 1 ELSE lines[l.from]
    BY <1>1, <2>1
  <2> QED
    BY <1>1, <2>1, <2>2, <2>3 DEF Issued
<1> QED
  BY <1>1, <1>2, <1>3, <1>4

-----------------------------------------------------------------------------
(* The states of calls and writers.                                        *)
LEMMA CallStates ==
    ASSUME LoggerTypeOK, NEW t \in Threads
    PROVE  /\ at[t] = Outside => at[t].pc = "idle"
           /\ at[t] # Outside => at[t] \in Calling
           /\ at[t].pc \in {"put", "holding"} => at[t] \in Calling /\ at[t] # Outside
           /\ at[t] \in Calling => /\ at[t].pc \in {"put", "holding"} /\ at[t] # Outside
                                   /\ at[t].line \in Line
           /\ t \in Putting <=> at[t] # Outside
<1>1. at[t] \in {Outside} \cup Calling
  BY DEF LoggerTypeOK, Calling
<1>2. Outside.pc = "idle"
  BY DEF Outside
<1>3. \A r \in Calling : r.pc \in {"put", "holding"} /\ r.line \in Line
  BY DEF Calling
<1>4. \A r \in Calling : r # Outside
  BY <1>2, <1>3
<1> QED
  BY <1>1, <1>2, <1>3, <1>4 DEF Putting

LEMMA WriterStates ==
    ASSUME LoggerTypeOK, NEW w \in Writers
    PROVE  /\ writers[w].pc = "write" => writers[w].line \in Line
           /\ writers[w].pc \in {"pop", "write", "test", "flush"} => writers[w] # Outside
           /\ w \in Hands <=> writers[w].pc = "write"
<1>1. \/ writers[w] = Outside
      \/ writers[w] \in [pc : {"pop", "test", "flush"}]
      \/ writers[w] \in [pc : {"write"}, line : Line]
  BY DEF LoggerTypeOK, WriterPlaces
<1>2. Outside.pc = "idle"
  BY DEF Outside
<1>3. \A r \in [pc : {"pop", "test", "flush"}] : r.pc # "write"
  OBVIOUS
<1>4. \A r \in [pc : {"write"}, line : Line] : r.line \in Line
  OBVIOUS
<1> QED
  BY <1>1, <1>2, <1>3, <1>4 DEF Hands

LEMMA ControlStates ==
    /\ Outside.pc = "idle"
    /\ [pc |-> "greet"] # Outside
    /\ \A n : [pc |-> "closed", next |-> n] # Outside /\ [pc |-> "delete", next |-> n] # Outside
  BY DEF Outside

-----------------------------------------------------------------------------
(* The books are kept when every line stays where it was, or is issued and *)
(* in one place.                                                           *)
Unmoved(l) ==
    /\ Has(written, l)' <=> Has(written, l)
    /\ Has(m_ctxQueue, l)' <=> Has(m_ctxQueue, l)
    /\ InHand(l)' <=> InHand(l)
    /\ InCall(l)' <=> InCall(l)
    /\ Issued(l)' <=> Issued(l)

InOnePlace(l) ==
    \/ Has(written, l) /\ ~ Has(m_ctxQueue, l) /\ ~ InHand(l) /\ ~ InCall(l)
    \/ ~ Has(written, l) /\ Has(m_ctxQueue, l) /\ ~ InHand(l) /\ ~ InCall(l)
    \/ ~ Has(written, l) /\ ~ Has(m_ctxQueue, l) /\ InHand(l) /\ ~ InCall(l)
    \/ ~ Has(written, l) /\ ~ Has(m_ctxQueue, l) /\ ~ InHand(l) /\ InCall(l)

LEMMA BooksKept ==
    ASSUME Accounted, Unshared,
           NoRepeat(written)', NoRepeat(m_ctxQueue)',
           NoSharing(writers, Hands)', NoSharing(at, Putting)',
           \A l \in Line : Unmoved(l) \/ (Issued(l)' /\ InOnePlace(l)')
    PROVE  Accounted' /\ Unshared'
<1>1. ASSUME NEW l \in Line
      PROVE  /\ Has(written, l)' \/ Has(m_ctxQueue, l)' \/ InHand(l)' \/ InCall(l)' <=> Issued(l)'
             /\ Has(written, l)' => ~ Has(m_ctxQueue, l)' /\ ~ InHand(l)' /\ ~ InCall(l)'
             /\ Has(m_ctxQueue, l)' => ~ InHand(l)' /\ ~ InCall(l)'
             /\ InHand(l)' => ~ InCall(l)'
  <2>1. CASE Unmoved(l)
    BY <1>1, <2>1, Zenon DEF Accounted, Unshared, Unmoved
  <2>2. CASE Issued(l)' /\ InOnePlace(l)'
    BY <1>1, <2>2, Zenon DEF InOnePlace
  <2> QED
    BY <1>1, <2>1, <2>2
<1>2. Accounted'
  BY <1>1, Zenon DEF Accounted
<1>3. Unshared'
  BY <1>1, Zenon DEF Unshared
<1> QED
  BY <1>2, <1>3

(* A line that is put: it is younger than those of its thread on the way.  *)
Newest(x) ==
    \A l \in Line : Has(written, l) \/ Has(m_ctxQueue, l) \/ InHand(l) => Earlier(l, x)

SameHands == Hands' = Hands /\ \A w \in Hands : writers'[w].line = writers[w].line

(* In a synchronous logger with one writer nothing is on the way.          *)
NoneAhead == m_bSync /\ inits' <= 1 => m_ctxQueue = <<>> /\ Hands = {}

LEMMA HandsStay ==
    ASSUME SameHands, NoSharing(writers, Hands)
    PROVE  /\ NoSharing(writers, Hands)'
           /\ \A l : InHand(l)' <=> InHand(l)
<1>1. Hands' = Hands /\ \A w \in Hands : writers'[w].line = writers[w].line
  BY DEF SameHands
<1>2. NoSharing(writers, Hands)'
  BY <1>1 DEF NoSharing
<1>3. ASSUME NEW l PROVE InHand(l)' <=> InHand(l)
  BY <1>1 DEF InHand, Carried
<1> QED
  BY <1>2, <1>3

LEMMA Puts ==
    ASSUME LoggerIInv, NEW x \in Line, Put(x), Newest(x), SameHands, NoneAhead,
           inits <= inits', inits \in Nat, inits' \in Nat,
           ~ Has(written, x), ~ Has(m_ctxQueue, x), ~ InHand(x)
    PROVE  /\ written' \in Seq(Line) /\ m_ctxQueue' \in Seq(Line)
           /\ NoRepeat(written)' /\ NoRepeat(m_ctxQueue)' /\ NoSharing(writers, Hands)'
           /\ \A l \in Line : l # x => /\ Has(written, l)' <=> Has(written, l)
                                       /\ Has(m_ctxQueue, l)' <=> Has(m_ctxQueue, l)
                                       /\ InHand(l)' <=> InHand(l)
           /\ ~ InHand(x)'
           /\ Has(written, x)' <=> ~ Has(m_ctxQueue, x)'
           /\ Sorted'
<1>1. /\ written \in Seq(Line) /\ m_ctxQueue \in Seq(Line)
      /\ NoRepeat(written) /\ NoRepeat(m_ctxQueue) /\ NoSharing(writers, Hands)
  BY DEF LoggerIInv, LoggerTypeOK, Unshared
<1>2. /\ NoSharing(writers, Hands)'
      /\ \A l : InHand(l)' <=> InHand(l)
  BY <1>1, HandsStay
<1>3. inits' <= 1 => inits <= 1
  OBVIOUS
<1>4. CASE m_ctxQueue' = Append(m_ctxQueue, x) /\ written' = written
  <2>1. /\ m_ctxQueue' \in Seq(Line)
        /\ \A l : Has(m_ctxQueue', l) <=> Has(m_ctxQueue, l) \/ l = x
        /\ NoRepeat(m_ctxQueue')
        /\ Increasing(m_ctxQueue) => Increasing(m_ctxQueue')
    BY <1>1, <1>4, HasAppend DEF Newest
  <2>2. \A l : Has(written', l) <=> Has(written, l)
    BY <1>4
  <2>3. NoRepeat(written') /\ written' \in Seq(Line) /\ (Increasing(written) => Increasing(written'))
    BY <1>1, <1>4
  <2>4. Sorted'
    <3> SUFFICES ASSUME inits' <= 1
                 PROVE  /\ Increasing(written') /\ Increasing(m_ctxQueue')
                        /\ \A l, m \in Line :
                              /\ Has(written', l) /\ (InHand(m)' \/ Has(m_ctxQueue', m)) => Earlier(l, m)
                              /\ InHand(l)' /\ Has(m_ctxQueue', m) => Earlier(l, m)
      BY Zenon DEF Sorted
    <3>1. /\ Increasing(written) /\ Increasing(m_ctxQueue)
          /\ \A l, m \in Line :
                /\ Has(written, l) /\ (InHand(m) \/ Has(m_ctxQueue, m)) => Earlier(l, m)
                /\ InHand(l) /\ Has(m_ctxQueue, m) => Earlier(l, m)
      BY <1>3, Zenon DEF LoggerIInv, Sorted
    <3> QED
      BY <1>2, <2>1, <2>2, <2>3, <3>1, Zenon DEF Newest
  <2> QED
    BY <1>2, <2>1, <2>2, <2>3, <2>4, Zenon
<1>5. CASE m_bSync /\ written' = Append(written, x) /\ m_ctxQueue' = m_ctxQueue
  <2>1. /\ written' \in Seq(Line)
        /\ \A l : Has(written', l) <=> Has(written, l) \/ l = x
        /\ NoRepeat(written')
        /\ Increasing(written) => Increasing(written')
    BY <1>1, <1>5, HasAppend DEF Newest
  <2>2. \A l : Has(m_ctxQueue', l) <=> Has(m_ctxQueue, l)
    BY <1>5
  <2>3. /\ NoRepeat(m_ctxQueue') /\ m_ctxQueue' \in Seq(Line)
        /\ Increasing(m_ctxQueue) => Increasing(m_ctxQueue')
    BY <1>1, <1>5
  <2>4. Sorted'
    <3> SUFFICES ASSUME inits' <= 1
                 PROVE  /\ Increasing(written') /\ Increasing(m_ctxQueue')
                        /\ \A l, m \in Line :
                              /\ Has(written', l) /\ (InHand(m)' \/ Has(m_ctxQueue', m)) => Earlier(l, m)
                              /\ InHand(l)' /\ Has(m_ctxQueue', m) => Earlier(l, m)
      BY Zenon DEF Sorted
    <3>1. Increasing(written) /\ Increasing(m_ctxQueue)
      BY <1>3, Zenon DEF LoggerIInv, Sorted
    <3>2. m_ctxQueue = <<>> /\ Hands = {}
      BY <1>5 DEF NoneAhead
    <3>3. \A l : ~ Has(m_ctxQueue, l) /\ ~ InHand(l)
      BY <3>2 DEF Has, InHand, Carried
    <3> QED
      BY <1>2, <2>1, <2>2, <2>3, <3>1, <3>3, Zenon
  <2> QED
    BY <1>2, <2>1, <2>2, <2>3, <2>4, Zenon
<1> QED
  BY <1>4, <1>5 DEF Put, PutInQueue

(* Nothing in the queue, the output and the hands changes.                 *)
LEMMA Stays ==
    ASSUME LoggerIInv, UNCHANGED <<written, m_ctxQueue>>, SameHands,
           inits \in Nat, inits' \in Nat, inits <= inits'
    PROVE  /\ written' \in Seq(Line) /\ m_ctxQueue' \in Seq(Line)
           /\ NoRepeat(written)' /\ NoRepeat(m_ctxQueue)' /\ NoSharing(writers, Hands)'
           /\ \A l : /\ Has(written, l)' <=> Has(written, l)
                     /\ Has(m_ctxQueue, l)' <=> Has(m_ctxQueue, l)
                     /\ InHand(l)' <=> InHand(l)
           /\ Sorted'
<1>1. /\ written \in Seq(Line) /\ m_ctxQueue \in Seq(Line)
      /\ NoRepeat(written) /\ NoRepeat(m_ctxQueue) /\ NoSharing(writers, Hands)
  BY DEF LoggerIInv, LoggerTypeOK, Unshared
<1>2. /\ NoSharing(writers, Hands)'
      /\ \A l : InHand(l)' <=> InHand(l)
  BY <1>1, HandsStay
<1>3. \A l : /\ Has(written', l) <=> Has(written, l)
             /\ Has(m_ctxQueue', l) <=> Has(m_ctxQueue, l)
  OBVIOUS
<1>4. Sorted'
  <2> SUFFICES ASSUME inits' <= 1
               PROVE  /\ Increasing(written') /\ Increasing(m_ctxQueue')
                      /\ \A l, m \in Line :
                            /\ Has(written', l) /\ (InHand(m)' \/ Has(m_ctxQueue', m)) => Earlier(l, m)
                            /\ InHand(l)' /\ Has(m_ctxQueue', m) => Earlier(l, m)
    BY Zenon DEF Sorted
  <2>1. inits <= 1
    OBVIOUS
  <2>2. /\ Increasing(written) /\ Increasing(m_ctxQueue)
        /\ \A l, m \in Line :
              /\ Has(written, l) /\ (InHand(m) \/ Has(m_ctxQueue, m)) => Earlier(l, m)
              /\ InHand(l) /\ Has(m_ctxQueue, m) => Earlier(l, m)
    BY <2>1, Zenon DEF LoggerIInv, Sorted
  <2>3. Increasing(written') /\ Increasing(m_ctxQueue')
    BY <2>2
  <2> QED
    BY <1>2, <1>3, <2>2, <2>3, Zenon
<1> QED
  BY <1>1, <1>2, <1>3, <1>4

(* What stays the same when the calls do too.                              *)
LEMMA CallsStay ==
    ASSUME LoggerIInv, UNCHANGED at
    PROVE  /\ NoSharing(at, Putting)'
           /\ \A l : InCall(l)' <=> InCall(l)
<1>1. NoSharing(at, Putting) /\ Putting' = Putting
  BY DEF LoggerIInv, Unshared, Putting
<1>2. NoSharing(at, Putting)'
  BY <1>1 DEF NoSharing
<1>3. ASSUME NEW l PROVE InCall(l)' <=> InCall(l)
  BY <1>1 DEF InCall, Carried
<1> QED
  BY <1>2, <1>3

(* No line moves.                                                          *)
LEMMA Rests ==
    ASSUME LoggerIInv, UNCHANGED <<written, m_ctxQueue, at, lines>>, SameHands,
           inits \in Nat, inits' \in Nat, inits <= inits'
    PROVE  Accounted' /\ Unshared' /\ Latest' /\ Sorted'
<1>1. \A l : Unmoved(l)
  <2> SUFFICES ASSUME NEW l PROVE Unmoved(l)
    OBVIOUS
  <2>1. Issued(l)' <=> Issued(l)
    BY DEF Issued
  <2> QED
    BY <2>1, Stays, CallsStay, Zenon DEF Unmoved
<1>2. Accounted' /\ Unshared'
  <2>1. Accounted /\ Unshared
    BY DEF LoggerIInv
  <2>2. /\ NoRepeat(written)' /\ NoRepeat(m_ctxQueue)' /\ NoSharing(writers, Hands)'
        /\ NoSharing(at, Putting)'
    BY Stays, CallsStay
  <2> QED
    BY <1>1, <2>1, <2>2, BooksKept
<1>3. Latest'
  BY DEF LoggerIInv, Latest
<1> QED
  BY <1>2, <1>3, Stays

(* A line that was not issued is nowhere.                                  *)
LEMMA FreshIsNowhere ==
    ASSUME LoggerIInv, NEW l \in Line, ~ Issued(l)
    PROVE  ~ Has(written, l) /\ ~ Has(m_ctxQueue, l) /\ ~ InHand(l) /\ ~ InCall(l)
  BY Zenon DEF LoggerIInv, Accounted

(* A thread has a new line to put.                                         *)
LEMMA Issues ==
    ASSUME LoggerIInv, NEW t \in Threads, NEW f \in Issuers, NEW p \in {"put", "holding"},
           at[t] = Outside, p = "put" => f = t, p = "holding" => f = "logger",
           lines' = [lines EXCEPT ![f] = @ + 1],
           at' = [at EXCEPT ![t] = [pc |-> p, line |-> NewLine(f)]],
           UNCHANGED <<written, m_ctxQueue, writers, inits>>
    PROVE  /\ Accounted' /\ Unshared' /\ Latest' /\ Sorted'
           /\ lines' \in [Issuers -> Nat]
           /\ at' \in [Threads -> {Outside} \cup Calling]
<1> DEFINE x == NewLine(f)
<1>1. /\ LoggerTypeOK /\ Accounted /\ Unshared
      /\ inits \in Nat /\ at \in [Threads -> {Outside} \cup Calling]
      /\ lines \in [Issuers -> Nat]
  BY DEF LoggerIInv, LoggerTypeOK, Calling
<1>2. /\ x \in Line /\ ~ Issued(x)
      /\ \A l \in Line : Issued(l)' <=> Issued(l) \/ l = x
      /\ lines' \in [Issuers -> Nat]
  BY <1>1, IssuedGains
<1>3. x.from = f /\ x.number = lines[f] + 1
  BY DEF NewLine
<1>4. ~ Has(written, x) /\ ~ Has(m_ctxQueue, x) /\ ~ InHand(x) /\ ~ InCall(x)
  BY <1>2, FreshIsNowhere
<1>5. x = [from |-> f, number |-> lines[f] + 1]
  BY DEF NewLine
<1> HIDE DEF x
<1>6. PICK r : r = [pc |-> p, line |-> x]
  OBVIOUS
<1>7. r \in Calling /\ r.pc = p /\ r.line = x /\ r # Outside
  BY <1>2, <1>6 DEF Calling, Outside
<1>8. /\ at' \in [Threads -> {Outside} \cup Calling]
      /\ at'[t] = r /\ \A u \in Threads : u # t => at'[u] = at[u]
  <2>1. at' = [at EXCEPT ![t] = r]
    BY <1>6 DEF x
  <2> QED
    BY <1>1, <1>7, <2>1
<1>9. Putting' = Putting \cup {t} /\ t \notin Putting
  BY <1>7, <1>8 DEF Putting
<1>10. /\ \A l : Carried(at', Putting \cup {t}, l) <=> Carried(at, Putting, l) \/ l = x
       /\ NoSharing(at, Putting) /\ ~ Carried(at, Putting, x) => NoSharing(at', Putting \cup {t})
  <2>1. at'[t].line = x
    BY <1>7, <1>8
  <2>2. \A y \in Putting : at'[y].line = at[y].line
    BY <1>8, <1>9 DEF Putting
  <2>3. PICK old, new, who : old = at /\ new = at' /\ who = Putting
    OBVIOUS
  <2>4. t \notin who /\ new[t].line = x /\ \A y \in who : new[y].line = old[y].line
    BY <1>9, <2>1, <2>2, <2>3
  <2>5. \A l : Carried(new, who \cup {t}, l) <=> Carried(old, who, l) \/ l = x
    BY <2>4, CarriedGains
  <2>6. NoSharing(old, who) /\ ~ Carried(old, who, x) => NoSharing(new, who \cup {t})
    BY <2>4, SharingGains
  <2> QED
    BY <2>3, <2>5, <2>6
<1>11. /\ \A l : InCall(l)' <=> InCall(l) \/ l = x
       /\ NoSharing(at, Putting)'
  <2>1. NoSharing(at, Putting)
    BY <1>1 DEF Unshared
  <2>2. NoSharing(at', Putting')
    BY <1>4, <1>9, <1>10, <2>1 DEF InCall
  <2>3. \A l : Carried(at', Putting', l) <=> Carried(at, Putting, l) \/ l = x
    BY <1>9, <1>10
  <2> QED
    BY <2>2, <2>3 DEF InCall
<1>12. SameHands
  BY DEF SameHands, Hands
<1>13. /\ NoRepeat(written)' /\ NoRepeat(m_ctxQueue)' /\ NoSharing(writers, Hands)'
       /\ \A l : /\ Has(written, l)' <=> Has(written, l)
                 /\ Has(m_ctxQueue, l)' <=> Has(m_ctxQueue, l)
                 /\ InHand(l)' <=> InHand(l)
       /\ Sorted'
  BY <1>1, <1>12, Stays
<1>14. ASSUME NEW l \in Line PROVE Unmoved(l) \/ (Issued(l)' /\ InOnePlace(l)')
  <2>1. CASE l = x
    BY <1>2, <1>4, <1>11, <1>13, <2>1, Zenon DEF InOnePlace
  <2>2. CASE l # x
    BY <1>2, <1>11, <1>13, <2>2, Zenon DEF Unmoved
  <2> QED
    BY <2>1, <2>2
<1>15. Accounted' /\ Unshared'
  BY <1>1, <1>11, <1>13, <1>14, BooksKept
<1>16. Latest'
  <2> SUFFICES ASSUME NEW u \in Threads
               PROVE  /\ at'[u].pc = "put" => at'[u].line = [from |-> u, number |-> lines'[u]]
                      /\ at'[u].pc = "holding" => at'[u].line.from = "logger"
    BY DEF Latest
  <2>1. CASE u = t
    BY <1>1, <1>3, <1>5, <1>7, <1>8, <2>1 DEF Issuers
  <2>2. CASE u # t
    <3>1. at'[u] = at[u]
      BY <1>8, <2>2
    <3>2. lines'[u] = lines[u]
      BY <1>1, <2>2, LoggerAssumption DEF Issuers
    <3> QED
      BY <3>1, <3>2 DEF LoggerIInv, Latest
  <2> QED
    BY <2>1, <2>2
<1> QED
  BY <1>2, <1>8, <1>13, <1>15, <1>16

(* A call puts its line and is over.                                       *)
LEMMA Delivers ==
    ASSUME LoggerIInv, NEW t \in Threads, at[t] \in Calling, control = Outside,
           Put(at[t].line), at' = [at EXCEPT ![t] = Outside],
           UNCHANGED <<writers, inits, lines>>
    PROVE  /\ Accounted' /\ Unshared' /\ Latest' /\ Sorted'
           /\ at' \in [Threads -> {Outside} \cup Calling]
           /\ written' \in Seq(Line) /\ m_ctxQueue' \in Seq(Line)
           /\ inits # 0
<1> PICK x : x = at[t].line
  OBVIOUS
<1>1. /\ LoggerTypeOK /\ Accounted /\ Unshared /\ Latest /\ Staged
      /\ inits \in Nat /\ at \in [Threads -> {Outside} \cup Calling]
      /\ NoSharing(at, Putting)
  BY DEF LoggerIInv, LoggerTypeOK, Calling, Unshared
<1>2. x \in Line /\ at[t] # Outside /\ at[t].pc \in {"put", "holding"} /\ t \in Putting
  BY <1>1, CallStates
<1>3. InCall(x)
  BY <1>2 DEF InCall, Carried
<1>4. Issued(x) /\ ~ Has(written, x) /\ ~ Has(m_ctxQueue, x) /\ ~ InHand(x)
  BY <1>1, <1>2, <1>3, Zenon DEF Accounted, Unshared
<1>5. inits # 0
  BY <1>1, <1>2 DEF Staged
<1>6. Newest(x)
  <2> SUFFICES ASSUME NEW l \in Line, Has(written, l) \/ Has(m_ctxQueue, l) \/ InHand(l)
               PROVE  Earlier(l, x)
    BY DEF Newest
  <2>1. Issued(l) /\ l # x
    BY <1>1, <1>4, Zenon DEF Accounted
  <2>2. CASE at[t].pc = "holding"
    BY <1>1, <2>2, LoggerAssumption DEF Latest, Earlier
  <2>3. CASE at[t].pc = "put"
    <3>1. x = [from |-> t, number |-> lines[t]]
      BY <1>1, <2>3 DEF Latest
    <3>2. /\ l = [from |-> l.from, number |-> l.number] /\ l.number \in Nat
          /\ lines[t] \in Nat
      BY <1>1 DEF Line, LoggerTypeOK, Issuers
    <3>3. l.from = t => l.number <= lines[t] /\ l.number # lines[t]
      BY <2>1, <3>1, <3>2 DEF Issued
    <3>4. x.from = t /\ x.number = lines[t]
      BY <3>1
    <3> QED
      BY <3>2, <3>3, <3>4 DEF Earlier
  <2> QED
    BY <1>2, <2>2, <2>3
<1>7. SameHands
  BY DEF SameHands, Hands
<1>8. NoneAhead
  <2>1. control.pc # "greet"
    BY DEF Outside
  <2> QED
    BY <1>1, <1>5, <2>1 DEF Staged, NoneAhead
<1>9. /\ at' \in [Threads -> {Outside} \cup Calling]
      /\ at'[t] = Outside /\ \A u \in Threads : u # t => at'[u] = at[u]
  BY <1>1
<1>10. Put(x) /\ inits <= inits' /\ inits' \in Nat
  BY <1>1
<1>11. /\ written' \in Seq(Line) /\ m_ctxQueue' \in Seq(Line)
       /\ NoRepeat(written)' /\ NoRepeat(m_ctxQueue)' /\ NoSharing(writers, Hands)'
       /\ \A l \in Line : l # x => /\ Has(written, l)' <=> Has(written, l)
                                   /\ Has(m_ctxQueue, l)' <=> Has(m_ctxQueue, l)
                                   /\ InHand(l)' <=> InHand(l)
       /\ ~ InHand(x)'
       /\ Has(written, x)' <=> ~ Has(m_ctxQueue, x)'
       /\ Sorted'
  BY <1>1, <1>2, <1>4, <1>6, <1>7, <1>8, <1>10, Puts
<1>12. Putting' = Putting \ {t}
  BY <1>9 DEF Putting
<1>13. /\ \A l : InCall(l)' <=> InCall(l) /\ l # x
       /\ NoSharing(at, Putting)'
  <2>1. \A y \in Putting : y # t => at'[y].line = at[y].line
    BY <1>9 DEF Putting
  <2>2. PICK old, new, who : old = at /\ new = at' /\ who = Putting
    OBVIOUS
  <2>3. /\ t \in who /\ old[t].line = x /\ NoSharing(old, who)
        /\ \A y \in who : y # t => new[y].line = old[y].line
    BY <1>1, <1>2, <2>1, <2>2
  <2>4. \A l : Carried(new, who \ {t}, l) <=> Carried(old, who, l) /\ l # x
    BY <2>3, CarriedLoses
  <2>5. NoSharing(new, who \ {t})
    BY <2>3, SharingLoses
  <2> QED
    BY <1>12, <2>2, <2>4, <2>5 DEF InCall
<1>14. \A l \in Line : Issued(l)' <=> Issued(l)
  BY DEF Issued
<1>15. ASSUME NEW l \in Line PROVE Unmoved(l) \/ (Issued(l)' /\ InOnePlace(l)')
  <2>1. CASE l = x
    BY <1>2, <1>4, <1>11, <1>13, <1>14, <2>1, Zenon DEF InOnePlace
  <2>2. CASE l # x
    BY <1>11, <1>13, <1>14, <2>2, Zenon DEF Unmoved
  <2> QED
    BY <2>1, <2>2
<1>16. Accounted' /\ Unshared'
  BY <1>1, <1>11, <1>13, <1>15, BooksKept
<1>17. Latest'
  <2> SUFFICES ASSUME NEW u \in Threads
               PROVE  /\ at'[u].pc = "put" => at'[u].line = [from |-> u, number |-> lines'[u]]
                      /\ at'[u].pc = "holding" => at'[u].line.from = "logger"
    BY DEF Latest
  <2>1. CASE u = t
    BY <1>9, <2>1 DEF Outside
  <2>2. CASE u # t
    BY <1>1, <1>9, <2>2 DEF Latest
  <2> QED
    BY <2>1, <2>2
<1> QED
  BY <1>5, <1>9, <1>11, <1>16, <1>17

(* initLog and closeLog put a line of the logger's own, or none.           *)
LEMMA OwnPuts ==
    ASSUME LoggerIInv, OwnPut, UNCHANGED at, SameHands, NoneAhead,
           inits \in Nat, inits' \in Nat, inits <= inits'
    PROVE  /\ Accounted' /\ Unshared' /\ Latest' /\ Sorted'
           /\ written' \in Seq(Line) /\ m_ctxQueue' \in Seq(Line)
           /\ lines' \in [Issuers -> Nat]
<1>1. CASE UNCHANGED <<lines, m_ctxQueue, written>>
  <2>1. lines \in [Issuers -> Nat]
    BY DEF LoggerIInv, LoggerTypeOK
  <2> QED
    BY <1>1, <2>1, Rests, Stays
<1>2. CASE /\ lines' = [lines EXCEPT !["logger"] = @ + 1]
           /\ Put(OwnLine(lines["logger"] + 1))
  <2> PICK x : x = NewLine("logger")
    OBVIOUS
  <2>1. LoggerTypeOK /\ Accounted /\ Unshared /\ Latest /\ "logger" \in Issuers
        /\ lines \in [Issuers -> Nat]
    BY DEF LoggerIInv, Issuers, LoggerTypeOK
  <2>2. /\ x \in Line /\ ~ Issued(x)
        /\ \A l \in Line : Issued(l)' <=> Issued(l) \/ l = x
        /\ lines' \in [Issuers -> Nat]
    BY <1>2, <2>1, IssuedGains
  <2>3. Put(x)
    BY <1>2 DEF OwnLine, NewLine
  <2>4. x.from \notin Threads
    BY LoggerAssumption DEF NewLine
  <2>5. ~ Has(written, x) /\ ~ Has(m_ctxQueue, x) /\ ~ InHand(x) /\ ~ InCall(x)
    BY <2>2, FreshIsNowhere
  <2>6. Newest(x)
    BY <2>4 DEF Newest, Earlier
  <2>7. /\ written' \in Seq(Line) /\ m_ctxQueue' \in Seq(Line)
        /\ NoRepeat(written)' /\ NoRepeat(m_ctxQueue)' /\ NoSharing(writers, Hands)'
        /\ \A l \in Line : l # x => /\ Has(written, l)' <=> Has(written, l)
                                    /\ Has(m_ctxQueue, l)' <=> Has(m_ctxQueue, l)
                                    /\ InHand(l)' <=> InHand(l)
        /\ ~ InHand(x)'
        /\ Has(written, x)' <=> ~ Has(m_ctxQueue, x)'
        /\ Sorted'
    BY <2>2, <2>3, <2>5, <2>6, Puts
  <2>8. /\ NoSharing(at, Putting)'
        /\ \A l : InCall(l)' <=> InCall(l)
    BY CallsStay
  <2>9. ASSUME NEW l \in Line PROVE Unmoved(l) \/ (Issued(l)' /\ InOnePlace(l)')
    <3>1. CASE l = x
      BY <2>2, <2>5, <2>7, <2>8, <3>1, Zenon DEF InOnePlace
    <3>2. CASE l # x
      BY <2>2, <2>7, <2>8, <3>2, Zenon DEF Unmoved
    <3> QED
      BY <3>1, <3>2
  <2>10. Accounted' /\ Unshared'
    BY <2>1, <2>7, <2>8, <2>9, BooksKept
  <2>11. Latest'
    <3>1. \A u \in Threads : lines'[u] = lines[u]
      BY <1>2, <2>1, LoggerAssumption DEF Issuers
    <3> QED
      BY <2>1, <3>1 DEF Latest
  <2> QED
    BY <2>2, <2>7, <2>10, <2>11
<1> QED
  BY <1>1, <1>2 DEF OwnPut

(* With one writer at most, one hand at most.                              *)
LEMMA OneHand ==
    ASSUME LoggerIInv, inits <= 1, NEW v \in Writers, NEW w \in Writers,
           writers[v] # Outside, writers[w] # Outside
    PROVE  v = w
<1>1. inits \in Nat /\ MaxInits \in Nat
  BY LoggerAssumption DEF LoggerIInv, LoggerTypeOK
<1>2. v <= inits /\ w <= inits
  BY DEF LoggerIInv, Staged
<1> QED
  BY <1>1, <1>2 DEF Writers

(* A writer takes the first line out of the queue.                         *)
LEMMA Pops ==
    ASSUME LoggerIInv, NEW w \in Writers, Pop(w)
    PROVE  /\ Accounted' /\ Unshared' /\ Latest' /\ Sorted'
           /\ m_ctxQueue' \in Seq(Line)
           /\ writers' \in [Writers -> WriterPlaces]
           /\ writers[w] # Outside
<1> PICK x : x = Head(m_ctxQueue)
  OBVIOUS
<1>1. /\ LoggerTypeOK /\ Accounted /\ Unshared /\ Latest /\ Staged /\ Sorted
      /\ inits \in Nat /\ m_ctxQueue \in Seq(Line)
      /\ NoSharing(writers, Hands) /\ NoRepeat(written) /\ NoRepeat(m_ctxQueue)
  BY DEF LoggerIInv, LoggerTypeOK, Unshared
<1>2. /\ writers[w].pc = "pop" /\ m_ctxQueue # <<>> /\ m_ctxQueue' = Tail(m_ctxQueue)
      /\ writers' = [writers EXCEPT ![w] = [pc |-> "write", line |-> x]]
      /\ UNCHANGED <<written, inits, at, lines>>
  BY DEF Pop, writerUnchanged, setup
<1>3. /\ m_ctxQueue' \in Seq(Line) /\ x \in Line /\ Has(m_ctxQueue, x)
      /\ NoRepeat(m_ctxQueue')
      /\ \A l : Has(m_ctxQueue', l) <=> Has(m_ctxQueue, l) /\ l # x
      /\ Increasing(m_ctxQueue) => /\ Increasing(m_ctxQueue')
                                   /\ \A l : Has(m_ctxQueue', l) => Earlier(x, l)
  BY <1>1, <1>2, HasTail
<1>4. writers[w] # Outside /\ w \notin Hands
  BY <1>1, <1>2, WriterStates
<1>5. PICK r : r = [pc |-> "write", line |-> x]
  OBVIOUS
<1>6. r.pc = "write" /\ r.line = x /\ r \in [pc : {"write"}, line : Line]
  BY <1>3, <1>5
<1>7. /\ writers' \in [Writers -> WriterPlaces]
      /\ writers'[w] = r /\ \A v \in Writers : v # w => writers'[v] = writers[v]
  <2>1. writers' = [writers EXCEPT ![w] = r]
    BY <1>2, <1>5
  <2>2. writers \in [Writers -> WriterPlaces]
    BY <1>1 DEF LoggerTypeOK
  <2> QED
    BY <1>6, <2>1, <2>2 DEF WriterPlaces
<1>8. Hands' = Hands \cup {w}
  BY <1>4, <1>6, <1>7 DEF Hands
<1>9. ~ Has(written, x) /\ ~ InHand(x) /\ ~ InCall(x) /\ Issued(x)
  BY <1>1, <1>3, Zenon DEF Unshared, Accounted
<1>10. /\ \A l : InHand(l)' <=> InHand(l) \/ l = x
       /\ NoSharing(writers, Hands)'
  <2>1. \A y \in Hands : writers'[y].line = writers[y].line
    BY <1>4, <1>7 DEF Hands
  <2>2. PICK old, new, who : old = writers /\ new = writers' /\ who = Hands
    OBVIOUS
  <2>3. /\ w \notin who /\ new[w].line = x /\ NoSharing(old, who) /\ ~ Carried(old, who, x)
        /\ \A y \in who : new[y].line = old[y].line
    BY <1>1, <1>4, <1>6, <1>7, <1>9, <2>1, <2>2 DEF InHand
  <2>4. \A l : Carried(new, who \cup {w}, l) <=> Carried(old, who, l) \/ l = x
    BY <2>3, CarriedGains
  <2>5. NoSharing(new, who \cup {w})
    BY <2>3, SharingGains
  <2> QED
    BY <1>8, <2>2, <2>4, <2>5 DEF InHand
<1>11. /\ NoSharing(at, Putting)'
       /\ \A l : InCall(l)' <=> InCall(l)
  BY <1>2, CallsStay
<1>12. /\ \A l \in Line : Issued(l)' <=> Issued(l)
       /\ \A l : Has(written, l)' <=> Has(written, l)
       /\ NoRepeat(written)'
  <2>1. \A l \in Line : Issued(l)' <=> Issued(l)
    BY <1>2 DEF Issued
  <2>2. \A l : Has(written', l) <=> Has(written, l)
    BY <1>2
  <2>3. NoRepeat(written')
    BY <1>1, <1>2
  <2> QED
    BY <2>1, <2>2, <2>3
<1>13. ASSUME NEW l \in Line PROVE Unmoved(l) \/ (Issued(l)' /\ InOnePlace(l)')
  <2>1. CASE l = x
    BY <1>3, <1>9, <1>10, <1>11, <1>12, <2>1, Zenon DEF InOnePlace
  <2>2. CASE l # x
    BY <1>3, <1>10, <1>11, <1>12, <2>2, Zenon DEF Unmoved
  <2> QED
    BY <2>1, <2>2
<1>14. Accounted' /\ Unshared'
  BY <1>1, <1>3, <1>10, <1>11, <1>12, <1>13, BooksKept
<1>15. Latest'
  BY <1>1, <1>2 DEF Latest
<1>16. Sorted'
  <2> SUFFICES ASSUME inits <= 1
               PROVE  /\ Increasing(written') /\ Increasing(m_ctxQueue')
                      /\ \A l, m \in Line :
                            /\ Has(written', l) /\ (InHand(m)' \/ Has(m_ctxQueue', m)) => Earlier(l, m)
                            /\ InHand(l)' /\ Has(m_ctxQueue', m) => Earlier(l, m)
    BY <1>2, Zenon DEF Sorted
  <2>1. /\ Increasing(written) /\ Increasing(m_ctxQueue)
        /\ \A l, m \in Line :
              Has(written, l) /\ (InHand(m) \/ Has(m_ctxQueue, m)) => Earlier(l, m)
    BY <1>1, Zenon DEF Sorted
  <2>2. \A l : ~ InHand(l)
    <3>1. Hands = {}
      BY <1>4, OneHand, WriterStates, <1>1 DEF Hands
    <3> QED
      BY <3>1 DEF InHand, Carried
  <2>3. Increasing(written')
    BY <1>2, <2>1
  <2> QED
    BY <1>3, <1>10, <1>12, <2>1, <2>2, <2>3, Zenon
<1> QED
  BY <1>3, <1>4, <1>7, <1>14, <1>15, <1>16

(* A writer writes the line in its hand.                                   *)
LEMMA Writes ==
    ASSUME LoggerIInv, NEW w \in Writers, WriteLine(w)
    PROVE  /\ Accounted' /\ Unshared' /\ Latest' /\ Sorted'
           /\ written' \in Seq(Line)
           /\ writers' \in [Writers -> WriterPlaces]
           /\ writers[w] # Outside /\ Hands' = Hands \ {w}
<1> PICK x : x = writers[w].line
  OBVIOUS
<1>1. /\ LoggerTypeOK /\ Accounted /\ Unshared /\ Latest /\ Staged /\ Sorted
      /\ inits \in Nat /\ written \in Seq(Line)
      /\ NoSharing(writers, Hands) /\ NoRepeat(written) /\ NoRepeat(m_ctxQueue)
  BY DEF LoggerIInv, LoggerTypeOK, Unshared
<1>2. /\ writers[w].pc = "write" /\ written' = Append(written, x)
      /\ writers' = [writers EXCEPT ![w] = [pc |-> "test"]]
      /\ UNCHANGED <<m_ctxQueue, inits, at, lines>>
  BY DEF WriteLine, writerUnchanged, setup
<1>3. writers[w] # Outside /\ w \in Hands /\ x \in Line
  BY <1>1, <1>2, WriterStates
<1>4. InHand(x)
  BY <1>3 DEF InHand, Carried
<1>5. ~ Has(written, x) /\ ~ Has(m_ctxQueue, x) /\ ~ InCall(x) /\ Issued(x)
  BY <1>1, <1>3, <1>4, Zenon DEF Unshared, Accounted
<1>6. /\ written' \in Seq(Line)
      /\ \A l : Has(written', l) <=> Has(written, l) \/ l = x
      /\ NoRepeat(written')
      /\ Increasing(written) /\ (\A l \in Line : Has(written, l) => Earlier(l, x))
           => Increasing(written')
  BY <1>1, <1>2, <1>3, <1>5, HasAppend
<1>7. PICK r : r = [pc |-> "test"]
  OBVIOUS
<1>8. r.pc = "test" /\ r \in [pc : {"pop", "test", "flush"}]
  BY <1>7
<1>9. /\ writers' \in [Writers -> WriterPlaces]
      /\ writers'[w] = r /\ \A v \in Writers : v # w => writers'[v] = writers[v]
  <2>1. writers' = [writers EXCEPT ![w] = r]
    BY <1>2, <1>7
  <2>2. writers \in [Writers -> WriterPlaces]
    BY <1>1 DEF LoggerTypeOK
  <2> QED
    BY <1>8, <2>1, <2>2 DEF WriterPlaces
<1>10. Hands' = Hands \ {w}
  BY <1>8, <1>9 DEF Hands
<1>11. /\ \A l : InHand(l)' <=> InHand(l) /\ l # x
       /\ NoSharing(writers, Hands)'
  <2>1. \A y \in Hands : y # w => writers'[y].line = writers[y].line
    BY <1>9 DEF Hands
  <2>2. PICK old, new, who : old = writers /\ new = writers' /\ who = Hands
    OBVIOUS
  <2>3. /\ w \in who /\ old[w].line = x /\ NoSharing(old, who)
        /\ \A y \in who : y # w => new[y].line = old[y].line
    BY <1>1, <1>3, <2>1, <2>2
  <2>4. \A l : Carried(new, who \ {w}, l) <=> Carried(old, who, l) /\ l # x
    BY <2>3, CarriedLoses
  <2>5. NoSharing(new, who \ {w})
    BY <2>3, SharingLoses
  <2> QED
    BY <1>10, <2>2, <2>4, <2>5 DEF InHand
<1>12. /\ NoSharing(at, Putting)'
       /\ \A l : InCall(l)' <=> InCall(l)
  BY <1>2, CallsStay
<1>13. /\ \A l \in Line : Issued(l)' <=> Issued(l)
       /\ \A l : Has(m_ctxQueue, l)' <=> Has(m_ctxQueue, l)
       /\ NoRepeat(m_ctxQueue)'
  <2>1. \A l \in Line : Issued(l)' <=> Issued(l)
    BY <1>2 DEF Issued
  <2>2. \A l : Has(m_ctxQueue', l) <=> Has(m_ctxQueue, l)
    BY <1>2
  <2>3. NoRepeat(m_ctxQueue')
    BY <1>1, <1>2
  <2> QED
    BY <2>1, <2>2, <2>3
<1>14. ASSUME NEW l \in Line PROVE Unmoved(l) \/ (Issued(l)' /\ InOnePlace(l)')
  <2>1. CASE l = x
    BY <1>5, <1>6, <1>11, <1>12, <1>13, <2>1, Zenon DEF InOnePlace
  <2>2. CASE l # x
    BY <1>6, <1>11, <1>12, <1>13, <2>2, Zenon DEF Unmoved
  <2> QED
    BY <2>1, <2>2
<1>15. Accounted' /\ Unshared'
  BY <1>1, <1>6, <1>11, <1>12, <1>13, <1>14, BooksKept
<1>16. Latest'
  BY <1>1, <1>2 DEF Latest
<1>17. Sorted'
  <2> SUFFICES ASSUME inits <= 1
               PROVE  /\ Increasing(written') /\ Increasing(m_ctxQueue')
                      /\ \A l, m \in Line :
                            /\ Has(written', l) /\ (InHand(m)' \/ Has(m_ctxQueue', m)) => Earlier(l, m)
                            /\ InHand(l)' /\ Has(m_ctxQueue', m) => Earlier(l, m)
    BY <1>2, Zenon DEF Sorted
  <2>1. /\ Increasing(written) /\ Increasing(m_ctxQueue)
        /\ \A l, m \in Line :
              /\ Has(written, l) /\ (InHand(m) \/ Has(m_ctxQueue, m)) => Earlier(l, m)
              /\ InHand(l) /\ Has(m_ctxQueue, m) => Earlier(l, m)
    BY <1>1, Zenon DEF Sorted
  <2>2. \A l : ~ InHand(l)'
    <3>1. Hands' = {}
      <4>1. \A v \in Hands : v = w
        BY <1>1, <1>3, OneHand, WriterStates DEF Hands
      <4> QED
        BY <1>10, <4>1
    <3> QED
      BY <3>1 DEF InHand, Carried
  <2>3. Increasing(m_ctxQueue')
    BY <1>2, <2>1
  <2>4. Increasing(written')
    BY <1>3, <1>4, <1>6, <2>1
  <2> QED
    BY <1>3, <1>4, <1>6, <1>13, <2>1, <2>2, <2>3, <2>4, Zenon
<1> QED
  BY <1>3, <1>6, <1>9, <1>10, <1>15, <1>16, <1>17

-----------------------------------------------------------------------------
(* The steps.                                                              *)

(* A call of log.                                                          *)
LEMMA LogStep ==
    ASSUME LoggerIInv, NEW t \in Threads, NEW level \in {Info, Error}, log(t, level), UNCHANGED broken
    PROVE  LoggerIInv'
<1>1. LoggerTypeOK /\ Staged /\ inits \in Nat
  BY DEF LoggerIInv, LoggerTypeOK
<1>2. /\ at[t] = Outside /\ control = Outside /\ SetUp
      /\ lines' = [lines EXCEPT ![t] = @ + 1]
      /\ at' = [at EXCEPT ![t] = [pc |-> "put", line |-> NewLine(t)]]
      /\ UNCHANGED <<m_bSync, m_pOutputMode, inits, m_emLogLevel, m_ctxQueue, m_Mutex,
                     writers, written, flushed, changes, broken>>
  BY DEF log, NewLine
<1>3. /\ Accounted' /\ Unshared' /\ Latest' /\ Sorted'
      /\ lines' \in [Issuers -> Nat]
      /\ at' \in [Threads -> {Outside} \cup Calling]
  BY <1>2, Issues DEF Issuers
<1>4. \/ m_pOutputMode /\ control' = control
      \/ ~ m_pOutputMode /\ control' = [pc |-> "closed", next |-> "default"]
  BY <1>2 DEF SetUp
<1>5. control.pc # "greet"
  BY <1>2 DEF Outside
<1>6. LoggerTypeOK'
  <2>1. control' \in ControlPlaces
    BY <1>2, <1>4 DEF ControlPlaces
  <2> QED
    BY <1>1, <1>2, <1>3, <2>1 DEF LoggerTypeOK, Calling, ControlPlaces
<1>7. Staged'
  <2>1. inits = 0 => /\ ~ m_pOutputMode /\ control'.pc = "closed" /\ control' # Outside
                     /\ m_ctxQueue = <<>> /\ written = <<>>
    BY <1>1, <1>4, <1>5, ControlStates DEF Staged
  <2>2. inits = 1 /\ m_bSync => m_ctxQueue = <<>> /\ Hands = {}
    BY <1>1, <1>5 DEF Staged
  <2>3. Hands' = Hands
    BY <1>2 DEF Hands
  <2>4. \A w \in Writers : writers'[w] # Outside => w <= inits'
    BY <1>1, <1>2 DEF Staged
  <2> QED
    BY <1>2, <2>1, <2>2, <2>3, <2>4 DEF Staged
<1> QED
  BY <1>3, <1>6, <1>7 DEF LoggerIInv

(* The end of a call: of log, or of setLogLevel and setLogFileName.        *)
LEMMA DeliverStep ==
    ASSUME LoggerIInv, NEW t \in Threads, writeToOutPut(t) \/ FinishChange(t), UNCHANGED broken
    PROVE  LoggerIInv'
<1>1. LoggerTypeOK /\ Staged /\ inits \in Nat
  BY DEF LoggerIInv, LoggerTypeOK
<1>2. /\ at[t].pc \in {"put", "holding"} /\ control = Outside
      /\ Put(at[t].line) /\ at' = [at EXCEPT ![t] = Outside]
      /\ m_Mutex' \in {m_Mutex, Nobody}
      /\ UNCHANGED <<m_bSync, m_pOutputMode, control, inits, m_emLogLevel, writers, flushed,
                     lines, changes, broken>>
  BY DEF writeToOutPut, FinishChange, Put, setup
<1>3. at[t] \in Calling
  BY <1>1, <1>2, CallStates
<1>4. /\ Accounted' /\ Unshared' /\ Latest' /\ Sorted'
      /\ at' \in [Threads -> {Outside} \cup Calling]
      /\ written' \in Seq(Line) /\ m_ctxQueue' \in Seq(Line)
      /\ inits # 0
  BY <1>2, <1>3, Delivers
<1>5. LoggerTypeOK'
  BY <1>1, <1>2, <1>4 DEF LoggerTypeOK, Calling
<1>6. Staged'
  <2>1. inits = 1 /\ m_bSync => m_ctxQueue' = <<>> /\ Hands' = {}
    <3>1. control.pc # "greet"
      BY <1>2 DEF Outside
    <3>2. m_bSync => m_ctxQueue' = m_ctxQueue
      BY <1>2 DEF Put, PutInQueue
    <3>3. Hands' = Hands
      BY <1>2 DEF Hands
    <3> QED
      BY <1>1, <3>1, <3>2, <3>3 DEF Staged
  <2>2. \A w \in Writers : writers'[w] # Outside => w <= inits'
    BY <1>1, <1>2 DEF Staged
  <2> QED
    BY <1>2, <1>4, <2>1, <2>2 DEF Staged
<1> QED
  BY <1>4, <1>5, <1>6 DEF LoggerIInv

(* A change of level or file name.                                         *)
LEMMA ChangeStep ==
    ASSUME LoggerIInv, NEW t \in Threads, NEW level \in {Info, Error}, Change(t, level), UNCHANGED broken
    PROVE  LoggerIInv'
<1>1. LoggerTypeOK /\ Staged /\ inits \in Nat /\ changes \in Nat
  BY DEF LoggerIInv, LoggerTypeOK
<1>2. /\ at[t] = Outside /\ control = Outside
      /\ changes' = changes + 1 /\ m_emLogLevel' = level
      /\ UNCHANGED <<m_bSync, m_pOutputMode, inits, m_ctxQueue, writers, written, flushed, broken>>
  BY DEF Change
<1>3. control.pc # "greet"
  BY <1>2 DEF Outside
<1>4. \A w \in Writers : writers'[w] # Outside => w <= inits'
  BY <1>1, <1>2 DEF Staged
<1>5. Hands' = Hands
  BY <1>2 DEF Hands
<1>6. inits = 1 /\ m_bSync => m_ctxQueue = <<>> /\ Hands = {}
  BY <1>1, <1>3 DEF Staged
<1>7. CASE UNCHANGED <<m_Mutex, at, lines, control>>
  <2>1. SameHands
    BY <1>2, <1>5 DEF SameHands
  <2>2. Accounted' /\ Unshared' /\ Latest' /\ Sorted'
    BY <1>1, <1>2, <1>7, <2>1, Rests
  <2>3. LoggerTypeOK'
    BY <1>1, <1>2, <1>7 DEF LoggerTypeOK
  <2>4. Staged'
    <3>1. Putting' = Putting
      BY <1>7 DEF Putting
    <3>2. inits = 0 => /\ m_ctxQueue = <<>> /\ written = <<>>
                       /\ m_pOutputMode => control.pc = "greet"
                       /\ control.pc # "delete"
                       /\ control = Outside => Putting = {}
      BY <1>1 DEF Staged
    <3> QED
      BY <1>2, <1>3, <1>4, <1>5, <1>6, <1>7, <3>1, <3>2 DEF Staged
  <2> QED
    BY <2>2, <2>3, <2>4 DEF LoggerIInv
<1>8. CASE /\ SetUp /\ m_Mutex' = t
           /\ lines' = [lines EXCEPT !["logger"] = @ + 1]
           /\ at' = [at EXCEPT ![t] = [pc |-> "holding",
                                       line |-> OwnLine(lines["logger"] + 1)]]
  <2>1. at' = [at EXCEPT ![t] = [pc |-> "holding", line |-> NewLine("logger")]]
    BY <1>8 DEF OwnLine, NewLine
  <2>2. /\ Accounted' /\ Unshared' /\ Latest' /\ Sorted'
        /\ lines' \in [Issuers -> Nat]
        /\ at' \in [Threads -> {Outside} \cup Calling]
    BY <1>2, <1>8, <2>1, Issues DEF Issuers
  <2>3. \/ m_pOutputMode /\ control' = control
        \/ ~ m_pOutputMode /\ control' = [pc |-> "closed", next |-> "default"]
    BY <1>8 DEF SetUp
  <2>4. LoggerTypeOK'
    <3>1. control' \in ControlPlaces
      BY <1>2, <2>3 DEF ControlPlaces
    <3> QED
      BY <1>1, <1>2, <1>8, <2>2, <3>1 DEF LoggerTypeOK, Calling, ControlPlaces
  <2>5. Staged'
    <3>1. inits = 0 => /\ ~ m_pOutputMode /\ control'.pc = "closed" /\ control' # Outside
                       /\ m_ctxQueue = <<>> /\ written = <<>>
      BY <1>1, <1>3, <2>3, ControlStates DEF Staged
    <3> QED
      BY <1>2, <1>4, <1>5, <1>6, <3>1 DEF Staged
  <2> QED
    BY <2>2, <2>4, <2>5 DEF LoggerIInv
<1> QED
  BY <1>7, <1>8 DEF Change

(* initLog or closeLog begins.                                             *)
LEMMA CloseStep ==
    ASSUME LoggerIInv, NEW next \in {"none", "sync", "async", "default"},
           next = "none" => m_pOutputMode, BeginClose(next), UNCHANGED broken
    PROVE  LoggerIInv'
<1>1. /\ LoggerTypeOK /\ Staged /\ inits \in Nat /\ lines \in [Issuers -> Nat]
      /\ written \in Seq(Line) /\ m_ctxQueue \in Seq(Line)
  BY DEF LoggerIInv, LoggerTypeOK
<1>2. /\ control = Outside /\ \A t \in Threads : at[t] = Outside
      /\ \/ /\ m_pOutputMode /\ OwnPut /\ control' = [pc |-> "delete", next |-> next]
         \/ /\ ~ m_pOutputMode /\ control' = [pc |-> "closed", next |-> next]
            /\ UNCHANGED <<lines, m_ctxQueue, written>>
      /\ UNCHANGED <<m_emLogLevel, m_bSync, m_pOutputMode, m_Mutex, at, writers, flushed, inits,
                     changes, broken>>
  BY DEF BeginClose, Quiet
<1>3. control.pc # "greet" /\ control' \in ControlPlaces /\ control'.pc # "greet"
  BY <1>2, ControlStates DEF ControlPlaces
<1>4. SameHands /\ Hands' = Hands
  BY <1>2 DEF SameHands, Hands
<1>5. inits = 0 => ~ m_pOutputMode
  BY <1>1, <1>3 DEF Staged
<1>6. inits = 1 /\ m_bSync => m_ctxQueue = <<>> /\ Hands = {}
  BY <1>1, <1>3 DEF Staged
<1>7. /\ Accounted' /\ Unshared' /\ Latest' /\ Sorted'
      /\ written' \in Seq(Line) /\ m_ctxQueue' \in Seq(Line)
      /\ lines' \in [Issuers -> Nat]
      /\ m_bSync => m_ctxQueue' = m_ctxQueue
  <2>1. CASE m_pOutputMode /\ OwnPut
    <3>1. NoneAhead
      BY <1>1, <1>2, <1>5, <1>6, <2>1 DEF NoneAhead
    <3>2. m_bSync => m_ctxQueue' = m_ctxQueue
      BY <2>1 DEF OwnPut, Put, PutInQueue
    <3> QED
      BY <1>1, <1>2, <1>4, <2>1, <3>1, <3>2, OwnPuts
  <2>2. CASE UNCHANGED <<lines, m_ctxQueue, written>>
    BY <1>1, <1>2, <1>4, <2>2, Rests
  <2> QED
    BY <1>2, <2>1, <2>2
<1>8. LoggerTypeOK'
  BY <1>1, <1>2, <1>3, <1>7 DEF LoggerTypeOK, ControlPlaces
<1>9. Staged'
  <2>1. inits = 0 => /\ ~ m_pOutputMode /\ control'.pc = "closed" /\ control' # Outside
                     /\ m_ctxQueue' = <<>> /\ written' = <<>>
    BY <1>1, <1>2, <1>5, ControlStates DEF Staged
  <2>2. \A w \in Writers : writers'[w] # Outside => w <= inits'
    BY <1>1, <1>2 DEF Staged
  <2> QED
    BY <1>2, <1>4, <1>6, <1>7, <2>1, <2>2 DEF Staged
<1> QED
  BY <1>7, <1>8, <1>9 DEF LoggerIInv

(* The output is deleted.                                                  *)
LEMMA DeleteStep ==
    ASSUME LoggerIInv, DeleteOutput, UNCHANGED broken
    PROVE  LoggerIInv'
<1>1. /\ LoggerTypeOK /\ Staged /\ inits \in Nat /\ written \in Seq(Line)
      /\ control \in ControlPlaces
  BY DEF LoggerIInv, LoggerTypeOK, ControlPlaces
<1>2. /\ control.pc = "delete" /\ m_pOutputMode' = FALSE /\ flushed' = Len(written)
      /\ UNCHANGED <<m_emLogLevel, m_bSync, m_ctxQueue, m_Mutex, at, writers, written, lines,
                     inits, changes, broken>>
  BY DEF DeleteOutput
<1>3. control' \in ControlPlaces /\ control'.pc # "greet"
  <2>1. control \in [pc : {"delete", "closed"}, next : {"none", "sync", "async", "default"}]
    BY <1>1, <1>2, ControlStates DEF ControlPlaces
  <2>2. PICK n \in {"none", "sync", "async", "default"} :
              \E p \in {"delete", "closed"} : control = [pc |-> p, next |-> n]
    BY <2>1
  <2>3. [control EXCEPT !.pc = "closed"] = [pc |-> "closed", next |-> n]
    BY <2>2
  <2>4. control' = Outside \/ control' = [pc |-> "closed", next |-> n]
    BY <2>3 DEF DeleteOutput
  <2> QED
    BY <2>4, ControlStates DEF ControlPlaces
<1>4. SameHands /\ Hands' = Hands /\ Putting' = Putting
  BY <1>2 DEF SameHands, Hands, Putting
<1>5. Accounted' /\ Unshared' /\ Latest' /\ Sorted'
  BY <1>1, <1>2, <1>4, Rests
<1>6. LoggerTypeOK'
  <2>1. flushed' \in Nat
    BY <1>1, <1>2
  <2>2. m_pOutputMode' \in BOOLEAN
    BY <1>2, Zenon
  <2>3. /\ m_emLogLevel \in {Info, Error} /\ m_bSync \in BOOLEAN /\ broken \in BOOLEAN
        /\ m_ctxQueue \in Seq(Line) /\ m_Mutex \in Threads \cup {Nobody}
        /\ at \in [Threads -> {Outside} \cup Calling]
        /\ writers \in [Writers -> WriterPlaces]
        /\ changes \in Nat /\ lines \in [Issuers -> Nat]
    BY <1>1 DEF LoggerTypeOK
  <2> QED
    BY <1>1, <1>2, <1>3, <2>1, <2>2, <2>3 DEF LoggerTypeOK, ControlPlaces
<1>7. Staged'
  <2>1. inits # 0
    BY <1>1, <1>2 DEF Staged
  <2>2. inits = 1 /\ m_bSync => m_ctxQueue = <<>> /\ Hands = {}
    BY <1>1, <1>2 DEF Staged
  <2>3. \A w \in Writers : writers'[w] # Outside => w <= inits'
    BY <1>1, <1>2 DEF Staged
  <2> QED
    BY <1>2, <1>4, <2>1, <2>2, <2>3 DEF Staged
<1> QED
  BY <1>5, <1>6, <1>7 DEF LoggerIInv

(* The new output is made.                                                 *)
LEMMA NewOutputStep ==
    ASSUME LoggerIInv, NewOutput, UNCHANGED broken
    PROVE  LoggerIInv'
<1>1. /\ LoggerTypeOK /\ Staged /\ inits \in Nat
      /\ m_emLogLevel \in {Info, Error} /\ m_bSync \in BOOLEAN
  BY DEF LoggerIInv, LoggerTypeOK
<1>2. /\ m_emLogLevel' \in {Info, Error} /\ m_bSync' \in BOOLEAN
      /\ m_pOutputMode' = TRUE /\ control' = [pc |-> "greet"]
      /\ UNCHANGED <<m_ctxQueue, m_Mutex, at, writers, written, flushed, lines, inits, changes, broken>>
  BY <1>1 DEF NewOutput
<1>3. SameHands
  BY <1>2 DEF SameHands, Hands
<1>4. Accounted' /\ Unshared' /\ Latest' /\ Sorted'
  BY <1>1, <1>2, <1>3, Rests
<1>5. LoggerTypeOK'
  BY <1>1, <1>2 DEF LoggerTypeOK, ControlPlaces
<1>6. Staged'
  <2>1. inits = 0 => m_ctxQueue = <<>> /\ written = <<>>
    BY <1>1 DEF Staged
  <2>2. \A w \in Writers : writers'[w] # Outside => w <= inits'
    BY <1>1, <1>2 DEF Staged
  <2>3. control'.pc = "greet" /\ control' # Outside
    BY <1>2, ControlStates
  <2> QED
    BY <1>2, <2>1, <2>2, <2>3 DEF Staged
<1> QED
  BY <1>4, <1>5, <1>6 DEF LoggerIInv

(* The set-up ends with a line, and in the asynchronous mode a new writer. *)
LEMMA StartStep ==
    ASSUME LoggerIInv, StartWriter, UNCHANGED broken
    PROVE  LoggerIInv'
<1>1. /\ LoggerTypeOK /\ Staged /\ inits \in Nat
      /\ writers \in [Writers -> WriterPlaces]
  BY DEF LoggerIInv, LoggerTypeOK, WriterPlaces
<1>2. /\ OwnPut /\ inits' = inits + 1 /\ writers' = NewWriter /\ control' = Outside
      /\ UNCHANGED <<m_emLogLevel, m_bSync, m_pOutputMode, m_Mutex, at, flushed, changes, broken>>
  BY DEF StartWriter
<1>3. inits + 1 \in Writers => writers[inits + 1] = Outside
  BY <1>1 DEF Staged
<1>4. /\ writers' \in [Writers -> WriterPlaces]
      /\ \A w \in Writers : w # inits + 1 => writers'[w] = writers[w]
      /\ inits + 1 \in Writers => writers'[inits + 1] \in {Outside, [pc |-> "pop"]}
  <2>1. CASE writers' = writers
    BY <1>1, <1>3, <2>1
  <2>2. CASE writers' = [writers EXCEPT ![inits + 1] = [pc |-> "pop"]]
    BY <1>1, <2>2 DEF WriterPlaces
  <2> QED
    BY <1>2, <2>1, <2>2 DEF NewWriter
<1>5. SameHands /\ Hands' = Hands
  <2>1. Outside.pc # "write" /\ [pc |-> "pop"].pc # "write"
    BY DEF Outside
  <2>2. \A w \in Writers : w = inits + 1 => w \notin Hands /\ w \notin Hands'
    BY <1>3, <1>4, <2>1 DEF Hands
  <2>3. Hands' = Hands
    BY <1>4, <2>2 DEF Hands
  <2> QED
    BY <1>4, <2>2, <2>3 DEF SameHands, Hands
<1>6. inits = 0 => m_ctxQueue = <<>> /\ Hands = {}
  <2>1. inits = 0 => m_ctxQueue = <<>>
    BY <1>1 DEF Staged
  <2>2. inits = 0 => \A w \in Writers : writers[w] = Outside
    BY <1>1 DEF Staged, Writers
  <2> QED
    BY <2>1, <2>2 DEF Hands, Outside
<1>7. NoneAhead
  BY <1>1, <1>2, <1>6 DEF NoneAhead
<1>8. /\ Accounted' /\ Unshared' /\ Latest' /\ Sorted'
      /\ written' \in Seq(Line) /\ m_ctxQueue' \in Seq(Line)
      /\ lines' \in [Issuers -> Nat]
  BY <1>1, <1>2, <1>5, <1>7, OwnPuts
<1>9. LoggerTypeOK'
  BY <1>1, <1>2, <1>4, <1>8 DEF LoggerTypeOK, WriterPlaces, ControlPlaces
<1>10. Staged'
  <2>1. m_bSync => m_ctxQueue' = m_ctxQueue
    BY <1>2 DEF OwnPut, Put, PutInQueue
  <2>2. \A w \in Writers : writers'[w] # Outside => w <= inits'
    BY <1>1, <1>2, <1>4 DEF Staged, Writers
  <2>3. inits' # 0 /\ (inits' = 1 => inits = 0)
    BY <1>1, <1>2
  <2> QED
    BY <1>2, <1>5, <1>6, <2>1, <2>2, <2>3 DEF Staged
<1> QED
  BY <1>8, <1>9, <1>10 DEF LoggerIInv

(* A step of a writer.                                                     *)
LEMMA LinesWritten ==
    ASSUME LoggerIInv, NEW w \in Writers, Writer(w)
    PROVE  LoggerIInv'
<1>1. /\ LoggerTypeOK /\ Staged /\ inits \in Nat /\ flushed \in Nat
      /\ written \in Seq(Line) /\ m_ctxQueue \in Seq(Line)
      /\ writers \in [Writers -> WriterPlaces]
  BY DEF LoggerIInv, LoggerTypeOK, WriterPlaces
<1>2. /\ \A v \in Writers : v # w => writers'[v] = writers[v]
      /\ UNCHANGED <<m_bSync, m_pOutputMode, control, inits, m_emLogLevel, m_Mutex, at, lines,
                     changes, broken>>
  BY <1>1 DEF Writer, Pop, WriteLine, TestEmpty, FlushFile, writerUnchanged, setup
<1>3. ASSUME writers[w] # Outside
      PROVE  \A v \in Writers : writers'[v] # Outside => v <= inits'
  BY <1>1, <1>2, <1>3 DEF Staged
<1>4. Putting' = Putting
  BY <1>2 DEF Putting
<1>5. inits # 0 \/ writers[w] = Outside
  BY <1>1 DEF Staged, Writers
<1>6. CASE Pop(w)
  <2>1. /\ Accounted' /\ Unshared' /\ Latest' /\ Sorted' /\ m_ctxQueue' \in Seq(Line)
        /\ writers' \in [Writers -> WriterPlaces] /\ writers[w] # Outside
    BY <1>6, Pops DEF WriterPlaces
  <2>2. m_ctxQueue # <<>> /\ UNCHANGED <<written, flushed>>
    BY <1>6 DEF Pop
  <2>3. LoggerTypeOK'
    BY <1>1, <1>2, <2>1, <2>2 DEF LoggerTypeOK, WriterPlaces
  <2>4. Staged'
    BY <1>1, <1>2, <1>3, <1>5, <2>1, <2>2 DEF Staged
  <2> QED
    BY <2>1, <2>3, <2>4 DEF LoggerIInv
<1>7. CASE WriteLine(w)
  <2>1. /\ Accounted' /\ Unshared' /\ Latest' /\ Sorted' /\ written' \in Seq(Line)
        /\ writers' \in [Writers -> WriterPlaces] /\ writers[w] # Outside /\ Hands' = Hands \ {w}
    BY <1>7, Writes DEF WriterPlaces
  <2>2. UNCHANGED <<m_ctxQueue, flushed>>
    BY <1>7 DEF WriteLine
  <2>3. LoggerTypeOK'
    BY <1>1, <1>2, <2>1, <2>2 DEF LoggerTypeOK, WriterPlaces
  <2>4. Staged'
    BY <1>1, <1>2, <1>3, <1>5, <2>1, <2>2 DEF Staged
  <2> QED
    BY <2>1, <2>3, <2>4 DEF LoggerIInv
<1>8. CASE TestEmpty(w) \/ FlushFile(w)
  <2>1. /\ writers[w].pc \in {"test", "flush"}
        /\ UNCHANGED <<m_ctxQueue, written>>
        /\ flushed' \in Nat
    BY <1>1, <1>8 DEF TestEmpty, FlushFile
  <2>2. PICK p \in {"pop", "flush"} : writers' = [writers EXCEPT ![w] = [pc |-> p]]
    BY <1>8 DEF TestEmpty, FlushFile, AfterTest
  <2>3. writers[w] # Outside /\ w \notin Hands
    BY <1>1, <2>1, WriterStates
  <2>4. [pc |-> p] \in [pc : {"pop", "test", "flush"}] /\ [pc |-> p].pc # "write"
    OBVIOUS
  <2>5. writers'[w] = [pc |-> p] /\ writers' \in [Writers -> WriterPlaces]
    BY <1>1, <2>2, <2>4 DEF WriterPlaces
  <2>6. w \notin Hands'
    BY <2>4, <2>5 DEF Hands
  <2>7. Hands' = Hands
    BY <1>2, <2>3, <2>6 DEF Hands
  <2>8. SameHands
    BY <1>2, <2>3, <2>7 DEF SameHands, Hands
  <2>9. Accounted' /\ Unshared' /\ Latest' /\ Sorted'
    BY <1>1, <1>2, <2>1, <2>8, Rests
  <2>10. LoggerTypeOK'
    BY <1>1, <1>2, <2>1, <2>5 DEF LoggerTypeOK, WriterPlaces
  <2>11. Staged'
    BY <1>1, <1>2, <1>3, <1>5, <2>1, <2>3, <2>7 DEF Staged
  <2> QED
    BY <2>9, <2>10, <2>11 DEF LoggerIInv
<1> QED
  BY <1>6, <1>7, <1>8 DEF Writer

-----------------------------------------------------------------------------
(* The invariant holds at the start, and each step keeps it.               *)
LEMMA InitLoggerIInv == LoggerInit => LoggerIInv
<1> SUFFICES ASSUME LoggerInit PROVE LoggerIInv
  OBVIOUS
<1>1. /\ m_emLogLevel = Info /\ m_bSync = FALSE /\ m_pOutputMode = FALSE /\ broken = FALSE
      /\ m_ctxQueue = <<>> /\ written = <<>> /\ m_Mutex = Nobody /\ control = Outside
      /\ flushed = 0 /\ inits = 0 /\ changes = 0
      /\ lines = [f \in Issuers |-> 0]
      /\ at = [t \in Threads |-> Outside]
      /\ writers = [w \in Writers |-> Outside]
  BY DEF LoggerInit, Issuers
<1>2. Hands = {} /\ Putting = {}
  BY <1>1 DEF Hands, Putting, Outside
<1>3. LoggerTypeOK
  <2>1. m_ctxQueue \in Seq(Line) /\ written \in Seq(Line)
    BY <1>1
  <2>2. /\ at \in [Threads -> {Outside} \cup Calling]
        /\ writers \in [Writers -> WriterPlaces]
        /\ lines \in [Issuers -> Nat]
    BY <1>1 DEF WriterPlaces
  <2>3. m_bSync \in BOOLEAN /\ m_pOutputMode \in BOOLEAN /\ broken \in BOOLEAN
    BY <1>1, Zenon
  <2> QED
    BY <1>1, <2>1, <2>2, <2>3 DEF LoggerTypeOK, ControlPlaces
<1>4. /\ \A l : ~ Has(written, l) /\ ~ Has(m_ctxQueue, l)
      /\ NoRepeat(written) /\ NoRepeat(m_ctxQueue)
      /\ Increasing(written) /\ Increasing(m_ctxQueue)
  BY <1>1 DEF Has, NoRepeat, Increasing
<1>5. /\ \A l : ~ InHand(l) /\ ~ InCall(l)
      /\ NoSharing(writers, Hands) /\ NoSharing(at, Putting)
  BY <1>2 DEF InHand, InCall, Carried, NoSharing
<1>6. \A l \in Line : ~ Issued(l)
  BY <1>1 DEF Issued, Line
<1>7. Accounted /\ Unshared
  BY <1>4, <1>5, <1>6, Zenon DEF Accounted, Unshared
<1>8. Latest
  BY <1>1 DEF Latest, Outside
<1>9. Staged
  BY <1>1, <1>2 DEF Staged, Outside
<1>10. Sorted
  BY <1>4, <1>5, Zenon DEF Sorted
<1> QED
  BY <1>3, <1>7, <1>8, <1>9, <1>10 DEF LoggerIInv

LEMMA UseDeletedStep ==
    ASSUME LoggerIInv, UseDeleted
    PROVE  LoggerIInv'
<1>1. /\ broken' = TRUE
      /\ UNCHANGED <<m_bSync, m_pOutputMode, control, inits, m_emLogLevel, m_ctxQueue, m_Mutex,
                     at, writers, written, flushed, lines, changes>>
  BY DEF UseDeleted, setup
<1>2. LoggerTypeOK /\ inits \in Nat /\ Staged
  BY DEF LoggerIInv, LoggerTypeOK
<1>3. SameHands /\ Hands' = Hands /\ Putting' = Putting
  BY <1>1 DEF SameHands, Hands, Putting
<1>4. Accounted' /\ Unshared' /\ Latest' /\ Sorted'
  BY <1>1, <1>2, <1>3, Rests
<1>5. LoggerTypeOK'
  <2>1. broken' \in BOOLEAN
    BY <1>1, Zenon
  <2> QED
    BY <1>1, <1>2, <2>1 DEF LoggerTypeOK
<1>6. Staged'
  BY <1>1, <1>2, <1>3 DEF Staged
<1> QED
  BY <1>4, <1>5, <1>6 DEF LoggerIInv

LEMMA StepLoggerIInv == LoggerIInv /\ [LoggerNext]_loggerVars => LoggerIInv'
<1> SUFFICES ASSUME LoggerIInv, [LoggerNext]_loggerVars PROVE LoggerIInv'
  OBVIOUS
<1>1. CASE Call
  <2>1. UNCHANGED broken
    BY <1>1 DEF Call
  <2>2. ASSUME NEW t \in Threads, NEW level \in {Info, Error}, log(t, level) PROVE LoggerIInv'
    BY <2>1, <2>2, LogStep
  <2>3. ASSUME NEW t \in Threads, setLogLevel(t) PROVE LoggerIInv'
    BY <2>1, <2>3, ChangeStep DEF setLogLevel
  <2>4. ASSUME NEW t \in Threads, LoggerSetFileName(t) PROVE LoggerIInv'
    <3>1. m_emLogLevel \in {Info, Error}
      BY DEF LoggerIInv, LoggerTypeOK
    <3> QED
      BY <2>1, <2>4, <3>1, ChangeStep DEF LoggerSetFileName
  <2>5. CASE closeLog
    BY <2>1, <2>5, CloseStep DEF closeLog
  <2>6. ASSUME NEW mode \in {"sync", "async", "default"}, initLog(mode) PROVE LoggerIInv'
    BY <2>1, <2>6, CloseStep DEF initLog
  <2> QED
    BY <1>1, <2>2, <2>3, <2>4, <2>5, <2>6 DEF Call
<1>2. CASE Control
  BY <1>2, DeleteStep, NewOutputStep, StartStep DEF Control
<1>3. ASSUME NEW t \in Threads, Finish(t) PROVE LoggerIInv'
  BY <1>3, DeliverStep DEF Finish
<1>4. ASSUME NEW w \in Writers, Writer(w) PROVE LoggerIInv'
  BY <1>4, LinesWritten
<1>5. CASE UseDeleted
  BY <1>5, UseDeletedStep
<1>6. CASE UNCHANGED loggerVars
  <2>1. UNCHANGED <<m_emLogLevel, m_bSync, m_pOutputMode, m_ctxQueue, m_Mutex, at, control,
                    writers, written, flushed, broken, lines, inits, changes>>
    BY <1>6 DEF loggerVars
  <2>2. LoggerTypeOK /\ inits \in Nat /\ Staged
    BY DEF LoggerIInv, LoggerTypeOK
  <2>3. SameHands /\ Hands' = Hands /\ Putting' = Putting
    BY <2>1 DEF SameHands, Hands, Putting
  <2>4. Accounted' /\ Unshared' /\ Latest' /\ Sorted'
    BY <2>1, <2>2, <2>3, Rests
  <2>5. LoggerTypeOK'
    BY <2>1, <2>2 DEF LoggerTypeOK
  <2>6. Staged'
    BY <2>1, <2>2, <2>3 DEF Staged
  <2> QED
    BY <2>4, <2>5, <2>6 DEF LoggerIInv
<1> QED
  BY <1>1, <1>2, <1>3, <1>4, <1>5, <1>6 DEF LoggerNext

(* How often a line occurs in a place that has it at most once.            *)
LEMMA CountInSequence ==
    ASSUME NEW s, NEW l, NoRepeat(s)
    PROVE  Cardinality({i \in DOMAIN s : s[i] = l}) = IF Has(s, l) THEN 1 ELSE 0
<1>1. CASE Has(s, l)
  <2>1. PICK i \in DOMAIN s : s[i] = l
    BY <1>1 DEF Has
  <2>2. {j \in DOMAIN s : s[j] = l} = {i}
    BY <2>1 DEF NoRepeat
  <2> QED
    BY <1>1, <2>2, FS_Singleton
<1>2. CASE ~ Has(s, l)
  <2>1. {i \in DOMAIN s : s[i] = l} = {}
    BY <1>2 DEF Has
  <2> QED
    BY <1>2, <2>1, FS_EmptySet
<1> QED
  BY <1>1, <1>2

LEMMA CountCarried ==
    ASSUME NEW f, NEW S, NEW l, NoSharing(f, S)
    PROVE  Cardinality({x \in S : f[x].line = l}) = IF Carried(f, S, l) THEN 1 ELSE 0
<1>1. CASE Carried(f, S, l)
  <2>1. PICK x \in S : f[x].line = l
    BY <1>1 DEF Carried
  <2>2. {y \in S : f[y].line = l} = {x}
    BY <2>1 DEF NoSharing
  <2> QED
    BY <1>1, <2>2, FS_Singleton
<1>2. CASE ~ Carried(f, S, l)
  <2>1. {x \in S : f[x].line = l} = {}
    BY <1>2 DEF Carried
  <2> QED
    BY <1>2, <2>1, FS_EmptySet
<1> QED
  BY <1>1, <1>2

(* What is issued occurs once.                                             *)
LEMMA IssuedOccursOnce == LoggerIInv => OnePlaceEach
<1> SUFFICES ASSUME LoggerIInv, NEW f \in DOMAIN lines, NEW n \in 1 .. lines[f]
             PROVE  Occurs([from |-> f, number |-> n]) = 1
  BY DEF OnePlaceEach
<1> PICK l : l = [from |-> f, number |-> n]
  OBVIOUS
<1>1. /\ Accounted /\ NoRepeat(written) /\ NoRepeat(m_ctxQueue)
      /\ NoSharing(writers, Hands) /\ NoSharing(at, Putting)
      /\ lines \in [Issuers -> Nat]
  BY DEF LoggerIInv, LoggerTypeOK, Unshared
<1>2. l \in Line /\ Issued(l)
  BY <1>1 DEF Line, Issued
<1>3. InOnePlace(l)
  BY <1>2, Zenon DEF LoggerIInv, Accounted, Unshared, InOnePlace
<1>4. /\ Cardinality({i \in DOMAIN written : written[i] = l}) = IF Has(written, l) THEN 1 ELSE 0
      /\ Cardinality({i \in DOMAIN m_ctxQueue : m_ctxQueue[i] = l})
           = IF Has(m_ctxQueue, l) THEN 1 ELSE 0
  BY <1>1, CountInSequence
<1>5. /\ Cardinality({w \in Hands : writers[w].line = l}) = IF InHand(l) THEN 1 ELSE 0
      /\ Cardinality({t \in Putting : at[t].line = l}) = IF InCall(l) THEN 1 ELSE 0
  BY <1>1, CountCarried DEF InHand, InCall
<1>6. Occurs(l) = (IF Has(written, l) THEN 1 ELSE 0) + (IF Has(m_ctxQueue, l) THEN 1 ELSE 0)
                    + (IF InHand(l) THEN 1 ELSE 0) + (IF InCall(l) THEN 1 ELSE 0)
  BY <1>4, <1>5 DEF Occurs
<1>7. Occurs(l) = 1
  BY <1>3, <1>6 DEF InOnePlace
<1> QED
  BY <1>7

(* One sequence after another.                                             *)
LEMMA IncreasingConcat ==
    ASSUME NEW s \in Seq(Line), NEW r \in Seq(Line), Increasing(s), Increasing(r),
           \A l, m \in Line : Has(s, l) /\ Has(r, m) => Earlier(l, m)
    PROVE  /\ s \o r \in Seq(Line) /\ Increasing(s \o r)
           /\ \A l : Has(s \o r, l) => Has(s, l) \/ Has(r, l)
<1> PICK q : q = s \o r
  OBVIOUS
<1>1. /\ q \in Seq(Line) /\ Len(s) \in Nat /\ Len(r) \in Nat /\ Len(q) = Len(s) + Len(r)
      /\ DOMAIN s = 1 .. Len(s) /\ DOMAIN r = 1 .. Len(r) /\ DOMAIN q = 1 .. Len(q)
      /\ \A i \in 1 .. Len(q) : q[i] = IF i <= Len(s) THEN s[i] ELSE r[i - Len(s)]
      /\ \A i \in DOMAIN s : s[i] \in Line
      /\ \A i \in DOMAIN r : r[i] \in Line
  OBVIOUS
<1>2. ASSUME NEW i \in DOMAIN q
      PROVE  \/ i <= Len(s) /\ i \in DOMAIN s /\ q[i] = s[i]
             \/ i > Len(s) /\ i - Len(s) \in DOMAIN r /\ q[i] = r[i - Len(s)]
  BY <1>1
<1>3. Increasing(q)
  <2> SUFFICES ASSUME NEW i \in DOMAIN q, NEW j \in DOMAIN q, i < j
               PROVE  Earlier(q[i], q[j])
    BY DEF Increasing
  <2>1. i \in Int /\ j \in Int
    BY <1>1
  <2>2. CASE j <= Len(s)
    BY <1>1, <1>2, <2>1, <2>2 DEF Increasing
  <2>3. CASE i <= Len(s) /\ j > Len(s)
    <3>1. /\ i \in DOMAIN s /\ q[i] = s[i] /\ s[i] \in Line
          /\ j - Len(s) \in DOMAIN r /\ q[j] = r[j - Len(s)] /\ r[j - Len(s)] \in Line
      BY <1>1, <1>2, <2>1, <2>3
    <3>2. Has(s, s[i]) /\ Has(r, r[j - Len(s)])
      BY <3>1 DEF Has
    <3> QED
      BY <3>1, <3>2
  <2>4. CASE i > Len(s)
    <3>1. /\ i - Len(s) \in DOMAIN r /\ q[i] = r[i - Len(s)]
          /\ j - Len(s) \in DOMAIN r /\ q[j] = r[j - Len(s)]
          /\ i - Len(s) < j - Len(s)
      BY <1>1, <1>2, <2>1, <2>4
    <3> QED
      BY <3>1 DEF Increasing
  <2> QED
    BY <1>1, <2>1, <2>2, <2>3, <2>4
<1>4. ASSUME NEW l, Has(q, l) PROVE Has(s, l) \/ Has(r, l)
  BY <1>2, <1>4 DEF Has
<1> QED
  BY <1>1, <1>3, <1>4

(* With one writer, what is on its way is in order.                        *)
LEMMA WayIsSorted == LoggerIInv => InOrder
<1> SUFFICES ASSUME LoggerIInv, inits <= 1 PROVE InOrder
  BY DEF InOrder
<1>1. /\ LoggerTypeOK /\ written \in Seq(Line) /\ m_ctxQueue \in Seq(Line)
      /\ Increasing(written) /\ Increasing(m_ctxQueue)
      /\ \A l, m \in Line :
            /\ Has(written, l) /\ (InHand(m) \/ Has(m_ctxQueue, m)) => Earlier(l, m)
            /\ InHand(l) /\ Has(m_ctxQueue, m) => Earlier(l, m)
  BY DEF LoggerIInv, LoggerTypeOK, Sorted
<1> PICK hand : hand = IF Hands = {} THEN <<>> ELSE <<writers[1].line>>
  OBVIOUS
<1>2. /\ hand \in Seq(Line) /\ Increasing(hand)
      /\ \A l : Has(hand, l) => InHand(l)
  <2>1. CASE Hands = {}
    BY <2>1 DEF Increasing, Has
  <2>2. CASE Hands # {}
    <3>1. PICK w \in Writers : w \in Hands
      BY <2>2 DEF Hands
    <3>2. w <= inits /\ inits \in Nat /\ MaxInits \in Nat
      BY <1>1, <3>1, WriterStates, LoggerAssumption DEF LoggerIInv, Staged, LoggerTypeOK, Hands
    <3>3. w = 1
      BY <3>2 DEF Writers
    <3>4. writers[1].line \in Line
      BY <1>1, <3>1, <3>3, WriterStates
    <3>5. hand = <<writers[1].line>>
      BY <2>2
    <3>6. hand \in Seq(Line) /\ DOMAIN hand = {1} /\ hand[1] = writers[1].line
      BY <3>4, <3>5
    <3> QED
      BY <3>1, <3>3, <3>6 DEF Increasing, Has, InHand, Carried
  <2> QED
    BY <2>1, <2>2
<1> PICK first : first = written \o hand
  OBVIOUS
<1>3. /\ first \in Seq(Line) /\ Increasing(first)
      /\ \A l : Has(first, l) => Has(written, l) \/ Has(hand, l)
  BY <1>1, <1>2, IncreasingConcat
<1> PICK way : way = first \o m_ctxQueue
  OBVIOUS
<1>4. Increasing(way)
  BY <1>1, <1>2, <1>3, IncreasingConcat
<1>5. way = written \o (IF Hands = {} THEN <<>> ELSE <<writers[1].line>>) \o m_ctxQueue
  OBVIOUS
<1>6. ASSUME NEW i \in DOMAIN way, NEW j \in DOMAIN way, i < j,
             way[i].from = way[j].from, way[i].from \in Threads
      PROVE  way[i].number < way[j].number
  <2>1. Earlier(way[i], way[j])
    BY <1>4, <1>6 DEF Increasing
  <2> QED
    BY <1>6, <2>1 DEF Earlier
<1> QED
  BY <1>5, <1>6, Zenon DEF InOrder

(* For any threads, places in the queue, lines and set-ups: a line that    *)
(* passed the level is in one place, on its way or written, and with one   *)
(* writer the lines of a thread stay in order.                             *)
THEOREM LinesAreKept == LoggerSpec => []LinesKept
<1>1. LoggerIInv => LinesKept
  BY IssuedOccursOnce, WayIsSorted DEF LinesKept
<1> QED
  BY InitLoggerIInv, StepLoggerIInv, <1>1, PTL DEF LoggerSpec
=============================================================================
